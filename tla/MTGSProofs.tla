----------------------------- MODULE MTGSProofs -----------------------------
(***************************************************************************)
(* Proofs about MTGS, for every size of the ring and of a vsync packet,    *)
(* every vsync queue, and every limit of the stalls and of the tally.      *)
(*                                                                         *)
(* Positions are compared by their distance from the reader, so that the   *)
(* end of the ring plays no part: Span says that the pending packets       *)
(* follow one another between the reader and the writer.  The first part   *)
(* shows how a packet joins the span and leaves it, and that a write       *)
(* beyond it leaves it alone.  IInv adds what the two threads have under   *)
(* way, the signals between them and the frame counter.                    *)
(***************************************************************************)
EXTENDS MTGS, SequenceTheorems, FunctionTheorems, FiniteSetTheorems, TLAPS

Placed == [packet : Packets, at : 0 .. RingBufferSize - 1]

\* How far x lies in front of r.
Distance(x, r) == IF x >= r THEN x - r ELSE x - r + RingBufferSize

Linked(q, r, w) ==
  /\ \A k \in 1 .. Len(q) : q[k].at = IF k = 1 THEN r ELSE After(q[k - 1])
  /\ w = IF q = <<>> THEN r ELSE After(q[Len(q)])

\* A packet ends before the place at, seen from r.
EndsBefore(p, at, r) == Distance(p.at, r) + p.packet.words <= Distance(at, r)

Sorted(q, r) == \A j, k \in 1 .. Len(q) : j < k => EndsBefore(q[j], q[k].at, r)
Within(q, r, w) == \A k \in 1 .. Len(q) : EndsBefore(q[k], w, r)

\* The packets q lie one after the other from the reader r to the writer w.
Span(q, r, w) == Linked(q, r, w) /\ Sorted(q, r) /\ Within(q, r, w)

\* A packet is in a ring.
Holds(b, p) ==
  /\ b[p.at] = p.packet
  /\ \A i \in 1 .. p.packet.words - 1 : b[Wrap(p.at + i)] = Data

\* The vsync packets of a sequence.
Vsyncs(q) == { k \in 1 .. Len(q) : q[k].packet.cmd = "VSYNC" }

-----------------------------------------------------------------------------
(* The inductive invariant *)

RingKeeps == \A k \in 1 .. Len(pending) : Holds(ring, pending[k])

Placement == Span(pending, m_ReadPos, m_WritePos)

ThePacket == [packet |-> Packet(op), at |-> m_WritePos]

Written == epc = "commit" => Holds(ring, ThePacket)

Room ==
  epc \in {"write", "commit"} =>
    Distance(m_WritePos, m_ReadPos) + Packet(op).words < RingBufferSize

\* The GS thread works on the first pending packet.
Reading ==
  /\ gpc \in {"vsyncSub", "vsyncSignal", "advance"} =>
       pending # <<>> /\ ringposinc = pending[1].packet.words
  /\ gpc \in {"vsyncSub", "vsyncSignal"} => pending[1].packet.cmd = "VSYNC"

\* The GS thread has found the ring empty and not looked again.
InValve == gpc \in {"valve", "valvePosition", "valvePost", "valveVsync"}

\* With an EE in WaitGS it does not sleep on a packet.
Awake ==
  /\ phase # "dead"
  /\ gpc # "wait" => phase = "running"
  /\ epc \in {"waitEmpty", "waitingEmpty", "drained"} /\ pending # <<>>
       /\ (gpc = "wait" \/ InValve) => notified

\* Nobody notifies it between its going idle and WaitGS's return.
Quiet ==
  /\ waiter # "none" => epc = "waitingEmpty"
  /\ waiter = "released" \/ epc = "drained" => phase = "idle" /\ ~notified

\* The signal of a stall: armed, on its way or posted, and only for an EE that
\* waits for it.
Stalled == epc \in {"signalEvent", "signalWait"}

RingSignals ==
  /\ m_SignalRingEnable => Stalled /\ m_sem_OnRingReset = 0
  /\ gpc \in {"ringPost", "valvePosition", "valvePost"} =>
       Stalled /\ ~m_SignalRingEnable /\ m_sem_OnRingReset = 0
  /\ gpc = "ringOff" => m_SignalRingEnable
  /\ m_sem_OnRingReset = 1 => Stalled
  /\ m_SignalRingPosition > 0 =>
       /\ epc \in {"signalEnable", "signalEvent", "signalWait"}
       /\ gpc \notin {"ringOff", "ringPost", "valvePost"}
       /\ m_sem_OnRingReset = 0

\* The signal of a vsync likewise.
VsyncSignals ==
  /\ epc # "vsyncWait" => ~m_VsyncSignalListener /\ m_sem_Vsync = 0
  /\ m_VsyncSignalListener => m_sem_Vsync = 0

\* The frame counter: one frame more than usual while the EE waits, unless the
\* one whose end is about to be signalled is already counted off.
Shown == IF gpc = "vsyncSignal" THEN 1 ELSE 0
Waits == epc \in {"vsyncListen", "vsyncWait"}

Counted == m_QueuedFrameCount + FramesNotCounted = FramesInRing - FramesPassed

Bounded ==
  /\ m_QueuedFrameCount + Shown <= VsyncQueueSize + 2
  /\ ~Waits \/ m_sem_Vsync = 1 => m_QueuedFrameCount + Shown <= VsyncQueueSize + 1
  /\ InValve => m_QueuedFrameCount <= VsyncQueueSize + 1
  /\ InValve /\ (~Waits \/ m_sem_Vsync = 1) => m_QueuedFrameCount <= VsyncQueueSize

IInv ==
  /\ TypeOK
  /\ RingKeeps
  /\ Placement
  /\ Written
  /\ Room
  /\ Reading
  /\ Awake
  /\ Quiet
  /\ RingSignals
  /\ VsyncSignals
  /\ Counted
  /\ Bounded

-----------------------------------------------------------------------------
(* Positions *)

LEMMA Sizes ==
  /\ RingBufferSize \in Nat /\ RingBufferSize > 2
  /\ VsyncWords \in 2 .. RingBufferSize - 1
  BY MTGSAssumption DEF MTGSAssumption

LEMMA WrapIs ==
  ASSUME NEW p \in Nat, p < 2 * RingBufferSize
  PROVE  Wrap(p) = IF p < RingBufferSize THEN p ELSE p - RingBufferSize
<1>1. CASE p < RingBufferSize
    BY <1>1, Sizes DEF Wrap
<1>2. CASE p >= RingBufferSize
    BY <1>2, Sizes DEF Wrap
<1> QED
    BY <1>1, <1>2, Sizes

LEMMA DistanceType ==
  ASSUME NEW x \in 0 .. RingBufferSize - 1, NEW r \in 0 .. RingBufferSize - 1
  PROVE  /\ Distance(x, r) \in Nat /\ Distance(x, r) < RingBufferSize
         /\ Distance(r, r) = 0
         /\ Distance(x, r) = 0 => x = r
  BY Sizes DEF Distance

\* Going on from x, short of a whole lap, leads away from r.
LEMMA GoOnFrom ==
  ASSUME NEW x \in 0 .. RingBufferSize - 1, NEW r \in 0 .. RingBufferSize - 1,
         NEW n \in Nat, Distance(x, r) + n < RingBufferSize
  PROVE  /\ Wrap(x + n) \in 0 .. RingBufferSize - 1
         /\ Distance(Wrap(x + n), r) = Distance(x, r) + n
<1>1. /\ n < RingBufferSize /\ x + n \in Nat /\ x + n < 2 * RingBufferSize
      /\ RingBufferSize \in Nat
  <2>1. Distance(x, r) \in Nat
      BY DistanceType
  <2>2. n < RingBufferSize
      BY <2>1, Sizes
  <2> QED
      BY <2>2, Sizes
<1>2. Wrap(x + n) = IF x + n < RingBufferSize THEN x + n ELSE x + n - RingBufferSize
    BY <1>1, WrapIs
<1>3. RingBufferSize \in Nat
    BY Sizes
<1> QED
    BY <1>1, <1>2, <1>3 DEF Distance

\* When the reader goes on by n words, what lies beyond comes nearer by as much.
LEMMA ReaderGoesOn ==
  ASSUME NEW x \in 0 .. RingBufferSize - 1, NEW r \in 0 .. RingBufferSize - 1,
         NEW n \in Nat, n < RingBufferSize, n <= Distance(x, r)
  PROVE  /\ Wrap(r + n) \in 0 .. RingBufferSize - 1
         /\ Distance(x, Wrap(r + n)) = Distance(x, r) - n
<1>1. RingBufferSize \in Nat /\ r + n \in Nat /\ r + n < 2 * RingBufferSize
    BY Sizes
<1>2. Wrap(r + n) = IF r + n < RingBufferSize THEN r + n ELSE r + n - RingBufferSize
    BY <1>1, WrapIs
<1> QED
    BY <1>1, <1>2 DEF Distance

LEMMA SameDistance ==
  ASSUME NEW x \in 0 .. RingBufferSize - 1, NEW y \in 0 .. RingBufferSize - 1,
         NEW r \in 0 .. RingBufferSize - 1, Distance(x, r) = Distance(y, r)
  PROVE  x = y
  BY Sizes DEF Distance

-----------------------------------------------------------------------------
(* Packets *)

LEMMA PacketFacts ==
  /\ \A send : Packet(send) \in Packets /\ (Packet(send).cmd = "VSYNC" <=> send = "VSYNC")
  /\ \A p \in Packets : p.words \in 1 .. RingBufferSize - 1 /\ p.words \in Nat
<1>1. \A send : Packet(send) \in Packets /\ (Packet(send).cmd = "VSYNC" <=> send = "VSYNC")
  <2>1. \A send : send = "VSYNC" \/ Packet(send) = Packet("SIMPLE")
      BY DEF Packet
  <2>2. Packet("SIMPLE").cmd = "SIMPLE" /\ Packet("VSYNC").cmd = "VSYNC"
      BY DEF Packet
  <2> QED
      BY <2>1, <2>2 DEF Packets, Sends
<1>2. \A p \in Packets : p.words \in 1 .. RingBufferSize - 1 /\ p.words \in Nat
    BY Sizes DEF Packets, Packet
<1> QED
    BY <1>1, <1>2

LEMMA PlacedFacts ==
  ASSUME NEW p \in Placed
  PROVE  /\ p.packet \in Packets
         /\ p.at \in 0 .. RingBufferSize - 1
         /\ p.packet.words \in Nat /\ p.packet.words \in 1 .. RingBufferSize - 1
  BY PacketFacts DEF Placed

LEMMA SeqFacts ==
  ASSUME NEW q \in Seq(Placed)
  PROVE  /\ Len(q) \in Nat /\ DOMAIN q = 1 .. Len(q)
         /\ \A k \in 1 .. Len(q) : q[k] \in Placed
         /\ q # <<>> <=> Len(q) >= 1
  BY EmptySeq, LenProperties, ElementOfSeq

LEMMA AppendFacts ==
  ASSUME NEW q \in Seq(Placed), NEW p \in Placed
  PROVE  /\ Append(q, p) \in Seq(Placed) /\ Append(q, p) # <<>>
         /\ Len(Append(q, p)) = Len(q) + 1
         /\ \A k \in 1 .. Len(q) : Append(q, p)[k] = q[k]
         /\ Append(q, p)[Len(q) + 1] = p
  BY SeqFacts

LEMMA TailFacts ==
  ASSUME NEW q \in Seq(Placed), q # <<>>
  PROVE  /\ Tail(q) \in Seq(Placed)
         /\ Len(Tail(q)) = Len(q) - 1 /\ Len(q) \in Nat /\ Len(q) >= 1
         /\ \A k \in 1 .. Len(Tail(q)) : Tail(q)[k] = q[k + 1] /\ k + 1 \in 1 .. Len(q)
         /\ Tail(q) = <<>> <=> Len(q) = 1
         /\ Head(q) = q[1]
<1>1. /\ Tail(q) \in Seq(Placed) /\ Len(Tail(q)) = Len(q) - 1
      /\ \A k \in 1 .. Len(Tail(q)) : Tail(q)[k] = q[k + 1]
    BY HeadTailProperties
<1>2. Len(q) \in Nat /\ Len(q) >= 1 /\ Head(q) = q[1]
    BY SeqFacts
<1>3. Tail(q) # <<>> <=> Len(Tail(q)) >= 1
    BY <1>1, SeqFacts
<1> QED
    BY <1>1, <1>2, <1>3

-----------------------------------------------------------------------------
(* The span *)

LEMMA SpanEmpty ==
  ASSUME NEW q \in Seq(Placed), NEW r \in 0 .. RingBufferSize - 1, Span(q, r, r)
  PROVE  q = <<>>
<1> SUFFICES ASSUME q # <<>> PROVE FALSE
    OBVIOUS
<1>1. 1 \in 1 .. Len(q) /\ q[1] \in Placed
    BY SeqFacts
<1>2. EndsBefore(q[1], r, r)
    BY <1>1 DEF Span, Within
<1>3. q[1].at \in 0 .. RingBufferSize - 1 /\ q[1].packet.words \in Nat /\ q[1].packet.words >= 1
    BY <1>1, PlacedFacts
<1> QED
    BY <1>2, <1>3, DistanceType DEF EndsBefore

LEMMA SpanAppend ==
  ASSUME NEW q \in Seq(Placed), NEW r \in 0 .. RingBufferSize - 1,
         NEW w \in 0 .. RingBufferSize - 1, Span(q, r, w),
         NEW p \in Placed, p.at = w,
         Distance(w, r) + p.packet.words < RingBufferSize
  PROVE  Span(Append(q, p), r, After(p)) /\ After(p) \in 0 .. RingBufferSize - 1
<1> DEFINE l == Append(q, p)
           v == After(p)
           n == p.packet.words
<1>1. /\ Len(l) = Len(q) + 1 /\ Len(q) \in Nat /\ l # <<>>
      /\ \A k \in 1 .. Len(q) : l[k] = q[k] /\ q[k] \in Placed
      /\ l[Len(q) + 1] = p
    BY AppendFacts, SeqFacts
<1>2. n \in Nat
    BY PlacedFacts
<1>3. v \in 0 .. RingBufferSize - 1 /\ Distance(v, r) = Distance(w, r) + n
    BY <1>2, GoOnFrom DEF After
<1>4. EndsBefore(p, v, r)
  <2>1. Distance(w, r) \in Nat
      BY DistanceType
  <2> QED
      BY <2>1, <1>2, <1>3 DEF EndsBefore
<1>5. \A k \in 1 .. Len(q) : EndsBefore(q[k], w, r)
    BY DEF Span, Within
<1> HIDE DEF l, v, n
<1>6. Linked(l, r, v)
  <2>1. ASSUME NEW k \in 1 .. Len(l)
        PROVE  l[k].at = IF k = 1 THEN r ELSE After(l[k - 1])
    <3>1. CASE k \in 1 .. Len(q)
      <4>1. q[k].at = IF k = 1 THEN r ELSE After(q[k - 1])
          BY <3>1 DEF Span, Linked
      <4>2. k # 1 => l[k - 1] = q[k - 1]
          BY <3>1, <1>1
      <4> QED
          BY <3>1, <4>1, <4>2, <1>1
    <3>2. CASE k = Len(q) + 1
      <4>1. w = IF q = <<>> THEN r ELSE After(q[Len(q)])
          BY DEF Span, Linked
      <4>2. q = <<>> <=> k = 1
          BY <3>2, SeqFacts
      <4>3. k # 1 => l[k - 1] = q[Len(q)]
          BY <3>2, <1>1
      <4> QED
          BY <3>2, <4>1, <4>2, <4>3, <1>1
    <3> QED
        BY <3>1, <3>2, <1>1
  <2>2. v = IF l = <<>> THEN r ELSE After(l[Len(l)])
      BY <1>1 DEF v
  <2> QED
      BY <2>1, <2>2 DEF Linked
<1>7. \A k \in 1 .. Len(l) : k \in 1 .. Len(q) \/ k = Len(q) + 1
    BY <1>1
<1>8. Sorted(l, r)
  <2> SUFFICES ASSUME NEW j \in 1 .. Len(l), NEW k \in 1 .. Len(l), j < k
               PROVE  EndsBefore(l[j], l[k].at, r)
      BY DEF Sorted
  <2>1. CASE k \in 1 .. Len(q)
    <3>1. j \in 1 .. Len(q) /\ l[j] = q[j] /\ l[k] = q[k]
        BY <2>1, <1>1
    <3>2. EndsBefore(q[j], q[k].at, r)
        BY <2>1, <3>1 DEF Span, Sorted
    <3> QED
        BY <3>1, <3>2
  <2>2. CASE k = Len(q) + 1
    <3>1. j \in 1 .. Len(q) /\ l[j] = q[j] /\ l[k] = p
        BY <2>2, <1>1
    <3> QED
        BY <3>1, <1>5
  <2> QED
      BY <2>1, <2>2, <1>7
<1>9. Within(l, r, v)
  <2> SUFFICES ASSUME NEW k \in 1 .. Len(l)
               PROVE  EndsBefore(l[k], v, r)
      BY DEF Within
  <2>1. CASE k \in 1 .. Len(q)
    <3>1. l[k] = q[k] /\ q[k].at \in 0 .. RingBufferSize - 1 /\ q[k].packet.words \in Nat
        BY <2>1, <1>1, PlacedFacts
    <3>2. EndsBefore(q[k], w, r)
        BY <2>1, <1>5
    <3>3. Distance(w, r) \in Nat /\ Distance(q[k].at, r) \in Nat /\ Distance(v, r) >= Distance(w, r)
        BY SMTT(30), <1>2, <1>3, <3>1, DistanceType
    <3> QED
        BY <3>1, <3>2, <3>3, <1>3, <1>2 DEF EndsBefore
  <2>2. CASE k = Len(q) + 1
      BY <2>2, <1>1, <1>4
  <2> QED
      BY <2>1, <2>2, <1>7
<1> QED
    BY <1>3, <1>6, <1>8, <1>9 DEF Span, l, v

\* The reader passes the first packet.
LEMMA SpanTail ==
  ASSUME NEW q \in Seq(Placed), NEW r \in 0 .. RingBufferSize - 1,
         NEW w \in 0 .. RingBufferSize - 1, Span(q, r, w), q # <<>>
  PROVE  /\ q[1] \in Placed /\ q[1].at = r
         /\ After(q[1]) \in 0 .. RingBufferSize - 1
         /\ Span(Tail(q), After(q[1]), w)
         /\ Distance(w, After(q[1])) <= Distance(w, r)
<1> DEFINE l == Tail(q)
           p == q[1]
           v == After(p)
           n == p.packet.words
<1>1. /\ Len(l) = Len(q) - 1 /\ Len(q) \in Nat /\ Len(q) >= 1
      /\ \A k \in 1 .. Len(l) : l[k] = q[k + 1] /\ k + 1 \in 1 .. Len(q)
      /\ l = <<>> <=> Len(q) = 1
    BY TailFacts
<1>2. 1 \in 1 .. Len(q) /\ p \in Placed /\ p.at = r
    BY SeqFacts DEF Span, Linked
<1>3. n \in Nat /\ n >= 1 /\ n < RingBufferSize
    BY <1>2, PlacedFacts, Sizes
<1>4. Distance(r, r) = 0 /\ Distance(w, r) \in Nat
    BY DistanceType
<1>5. n <= Distance(w, r)
  <2>1. EndsBefore(p, w, r)
      BY <1>2 DEF Span, Within
  <2> QED
      BY <2>1, <1>2, <1>3, <1>4 DEF EndsBefore
<1>6. v = Wrap(r + n)
    BY <1>2 DEF After
<1> HIDE DEF l, p, v, n
<1>7. v \in 0 .. RingBufferSize - 1 /\ Distance(w, v) = Distance(w, r) - n
    BY <1>3, <1>5, <1>6, ReaderGoesOn
<1>8. ASSUME NEW k \in 1 .. Len(l)
      PROVE  /\ l[k] = q[k + 1] /\ k + 1 \in 1 .. Len(q) /\ l[k] \in Placed
             /\ Distance(l[k].at, r) \in Nat
             /\ Distance(l[k].at, v) = Distance(l[k].at, r) - n
             /\ l[k].packet.words \in Nat
  <2>1. l[k] = q[k + 1] /\ k + 1 \in 1 .. Len(q) /\ 1 < k + 1
      BY <1>1
  <2>2. l[k] \in Placed
      BY <2>1, SeqFacts
  <2>3. EndsBefore(p, l[k].at, r)
      BY <2>1, <1>2 DEF Span, Sorted, p
  <2>4. l[k].at \in 0 .. RingBufferSize - 1 /\ l[k].packet.words \in Nat
      BY <2>2, PlacedFacts
  <2>5. Distance(l[k].at, r) \in Nat
      BY <2>4, DistanceType
  <2>6. n <= Distance(l[k].at, r)
      BY <2>3, <2>5, <1>2, <1>3, <1>4 DEF EndsBefore, n
  <2>7. Distance(l[k].at, v) = Distance(l[k].at, r) - n
      BY <2>4, <2>6, <1>3, <1>6, ReaderGoesOn
  <2> QED
      BY <2>1, <2>2, <2>4, <2>5, <2>7
<1>9. Linked(l, v, w)
  <2>1. \A k \in 1 .. Len(q) : q[k].at = IF k = 1 THEN r ELSE After(q[k - 1])
      BY DEF Span, Linked
  <2>2. w = After(q[Len(q)])
      BY DEF Span, Linked
  <2>3. ASSUME NEW k \in 1 .. Len(l)
        PROVE  l[k].at = IF k = 1 THEN v ELSE After(l[k - 1])
    <3>1. q[k + 1].at = After(q[(k + 1) - 1])
      <4>1. k + 1 \in 1 .. Len(q) /\ k + 1 # 1
          BY <1>1
      <4> QED
          BY <4>1, <2>1
    <3>2. (k + 1) - 1 = k /\ l[k].at = q[k + 1].at
        BY <1>1
    <3>3. k # 1 => l[k - 1] = q[(k - 1) + 1] /\ (k - 1) + 1 = k
        BY <1>1
    <3> QED
        BY <3>1, <3>2, <3>3 DEF v, p
  <2>4. w = IF l = <<>> THEN v ELSE After(l[Len(l)])
    <3>1. CASE l = <<>>
        BY <3>1, <2>2, <1>1 DEF v, p
    <3>2. CASE l # <<>>
      <4>1. Len(l) \in 1 .. Len(l) /\ Len(l) + 1 = Len(q)
          BY <3>2, <1>1
      <4> QED
          BY <3>2, <4>1, <2>2, <1>1
    <3> QED
        BY <3>1, <3>2
  <2> QED
      BY <2>3, <2>4 DEF Linked
<1>10. Sorted(l, v)
  <2> SUFFICES ASSUME NEW j \in 1 .. Len(l), NEW k \in 1 .. Len(l), j < k
               PROVE  EndsBefore(l[j], l[k].at, v)
      BY DEF Sorted
  <2>1. EndsBefore(l[j], l[k].at, r)
    <3>1. j + 1 < k + 1
        BY <1>1
    <3> QED
        BY <3>1, <1>8 DEF Span, Sorted
  <2>2. /\ Distance(l[j].at, v) = Distance(l[j].at, r) - n /\ Distance(l[j].at, r) \in Nat
        /\ Distance(l[k].at, v) = Distance(l[k].at, r) - n /\ Distance(l[k].at, r) \in Nat
        /\ l[j].packet.words \in Nat
      BY <1>8
  <2> QED
      BY <2>1, <2>2, <1>3 DEF EndsBefore
<1>11. Within(l, v, w)
  <2> SUFFICES ASSUME NEW k \in 1 .. Len(l)
               PROVE  EndsBefore(l[k], w, v)
      BY DEF Within
  <2>1. EndsBefore(l[k], w, r)
      BY <1>8 DEF Span, Within
  <2>2. /\ Distance(l[k].at, v) = Distance(l[k].at, r) - n /\ Distance(l[k].at, r) \in Nat
        /\ l[k].packet.words \in Nat
      BY <1>8
  <2> QED
      BY <2>1, <2>2, <1>3, <1>4, <1>7 DEF EndsBefore
<1>12. p \in Placed /\ p.at = r /\ v \in 0 .. RingBufferSize - 1 /\ Span(l, v, w)
    BY <1>2, <1>7, <1>9, <1>10, <1>11 DEF Span
<1>13. Distance(w, v) <= Distance(w, r)
    BY <1>3, <1>4, <1>7
<1> QED
    BY <1>12, <1>13 DEF l, p, v

-----------------------------------------------------------------------------
(* Writing a packet *)

\* The words of a packet lie behind its end.
LEMMA WordsOf ==
  ASSUME NEW p \in Placed, NEW r \in 0 .. RingBufferSize - 1,
         Distance(p.at, r) + p.packet.words <= RingBufferSize,
         NEW i \in Nat, i < p.packet.words
  PROVE  /\ Wrap(p.at + i) \in 0 .. RingBufferSize - 1
         /\ Distance(Wrap(p.at + i), r) = Distance(p.at, r) + i
<1>1. p.at \in 0 .. RingBufferSize - 1 /\ p.packet.words \in Nat
    BY PlacedFacts
<1>2. Distance(p.at, r) \in Nat
    BY <1>1, DistanceType
<1>3. Distance(p.at, r) + i < RingBufferSize
    BY <1>1, <1>2, Sizes
<1> QED
    BY <1>1, <1>3, GoOnFrom

\* The ring b with the packet p written into it.
Into(b, p) ==
  [i \in 0 .. RingBufferSize - 1 |->
     IF i = p.at THEN p.packet
     ELSE IF \E k \in 1 .. p.packet.words - 1 : i = Wrap(p.at + k) THEN Data
     ELSE b[i]]

\* There was room for it: what lies before it stays as it is.
LEMMA WriteFacts ==
  ASSUME NEW b \in [0 .. RingBufferSize - 1 -> Packets \cup {Data}],
         NEW p \in Placed, NEW r \in 0 .. RingBufferSize - 1,
         Distance(p.at, r) + p.packet.words <= RingBufferSize
  PROVE  /\ Into(b, p) \in [0 .. RingBufferSize - 1 -> Packets \cup {Data}]
         /\ Holds(Into(b, p), p)
         /\ \A q \in Placed : Holds(b, q) /\ EndsBefore(q, p.at, r) => Holds(Into(b, p), q)
<1> DEFINE c == Into(b, p)
<1>0. c = [i \in 0 .. RingBufferSize - 1 |->
             IF i = p.at THEN p.packet
             ELSE IF \E k \in 1 .. p.packet.words - 1 : i = Wrap(p.at + k) THEN Data
             ELSE b[i]]
    BY DEF Into
<1> HIDE DEF c
<1>1. /\ p.packet \in Packets /\ p.at \in 0 .. RingBufferSize - 1
      /\ p.packet.words \in Nat /\ p.packet.words >= 1
    BY PlacedFacts
<1>2. c \in [0 .. RingBufferSize - 1 -> Packets \cup {Data}]
    BY <1>0, <1>1
<1>3. ASSUME NEW i \in 1 .. p.packet.words - 1
      PROVE  /\ Wrap(p.at + i) \in 0 .. RingBufferSize - 1
             /\ Distance(Wrap(p.at + i), r) = Distance(p.at, r) + i
  <2>1. i \in Nat /\ i < p.packet.words
      BY <1>1
  <2> QED
      BY <2>1, WordsOf
<1>4. Distance(p.at, r) \in Nat
    BY <1>1, DistanceType
<1>5. Holds(c, p)
  <2>1. c[p.at] = p.packet
      BY <1>0, <1>1
  <2>2. ASSUME NEW i \in 1 .. p.packet.words - 1
        PROVE  c[Wrap(p.at + i)] = Data
    <3>1. Wrap(p.at + i) # p.at
        BY <1>3, <1>4
    <3> QED
        BY <3>1, <1>0, <1>3
  <2> QED
      BY <2>1, <2>2 DEF Holds
<1>6. ASSUME NEW x \in 0 .. RingBufferSize - 1, Distance(x, r) < Distance(p.at, r)
      PROVE  c[x] = b[x]
  <2>1. x # p.at
      BY <1>6, <1>4
  <2>2. ASSUME NEW k \in 1 .. p.packet.words - 1, x = Wrap(p.at + k)
        PROVE  FALSE
    <3>1. Distance(x, r) = Distance(p.at, r) + k
        BY <2>2, <1>3
    <3> QED
        BY <3>1, <1>6, <1>4, <1>1
  <2> QED
      BY <2>1, <2>2, <1>0
<1>7. ASSUME NEW q \in Placed, Holds(b, q), EndsBefore(q, p.at, r)
      PROVE  Holds(c, q)
  <2>1. q.at \in 0 .. RingBufferSize - 1 /\ q.packet.words \in Nat /\ q.packet.words >= 1
      BY PlacedFacts
  <2>2. Distance(q.at, r) \in Nat /\ Distance(p.at, r) < RingBufferSize
      BY <2>1, <1>1, DistanceType
  <2>3. Distance(q.at, r) + q.packet.words <= Distance(p.at, r)
      BY <1>7 DEF EndsBefore
  <2>4. Distance(q.at, r) + q.packet.words <= RingBufferSize /\ Distance(q.at, r) < Distance(p.at, r)
      BY <2>1, <2>2, <2>3, <1>4, Sizes
  <2>5. c[q.at] = q.packet
      BY <2>1, <2>4, <1>6, <1>7 DEF Holds
  <2>6. ASSUME NEW i \in 1 .. q.packet.words - 1
        PROVE  c[Wrap(q.at + i)] = Data
    <3>1. i \in Nat /\ i < q.packet.words
        BY <2>1
    <3>2. /\ Wrap(q.at + i) \in 0 .. RingBufferSize - 1
          /\ Distance(Wrap(q.at + i), r) = Distance(q.at, r) + i
        BY <3>1, <2>4, WordsOf
    <3>3. Distance(Wrap(q.at + i), r) < Distance(p.at, r)
        BY <3>1, <3>2, <2>1, <2>2, <2>3, <1>4
    <3>4. b[Wrap(q.at + i)] = Data
        BY <1>7 DEF Holds
    <3> QED
        BY <3>2, <3>3, <3>4, <1>6
  <2> QED
      BY <2>5, <2>6 DEF Holds
<1> QED
    BY <1>2, <1>5, <1>7 DEF c

-----------------------------------------------------------------------------
(* Counting the vsync packets *)

LEMMA VsyncsFinite ==
  ASSUME NEW q \in Seq(Placed)
  PROVE  IsFiniteSet(Vsyncs(q)) /\ Cardinality(Vsyncs(q)) \in Nat
<1>1. IsFiniteSet(1 .. Len(q))
    BY FS_Interval, SeqFacts
<1>2. Vsyncs(q) \in SUBSET (1 .. Len(q))
    BY DEF Vsyncs
<1> QED
    BY <1>1, <1>2, FS_Subset, FS_CardinalityType

LEMMA VsyncsAppend ==
  ASSUME NEW q \in Seq(Placed), NEW p \in Placed
  PROVE  Cardinality(Vsyncs(Append(q, p))) =
           Cardinality(Vsyncs(q)) + (IF p.packet.cmd = "VSYNC" THEN 1 ELSE 0)
<1> DEFINE l == Append(q, p)
<1>1. /\ Len(l) = Len(q) + 1 /\ Len(q) \in Nat
      /\ \A k \in 1 .. Len(q) : l[k] = q[k]
      /\ l[Len(q) + 1] = p
    BY AppendFacts, SeqFacts
<1> HIDE DEF l
<1>2. \A k : k \in 1 .. Len(l) <=> k \in 1 .. Len(q) \/ k = Len(q) + 1
    BY <1>1
<1>3. Len(q) + 1 \notin 1 .. Len(q)
    BY <1>1
<1>4. CASE p.packet.cmd = "VSYNC"
  <2>1. Vsyncs(l) = Vsyncs(q) \cup {Len(q) + 1} /\ Len(q) + 1 \notin Vsyncs(q)
      BY <1>1, <1>2, <1>3, <1>4 DEF Vsyncs
  <2> QED
      BY <2>1, <1>4, VsyncsFinite, FS_AddElement DEF l
<1>5. CASE p.packet.cmd # "VSYNC"
  <2>1. Vsyncs(l) = Vsyncs(q)
      BY <1>1, <1>2, <1>3, <1>5 DEF Vsyncs
  <2> QED
      BY <2>1, <1>5, VsyncsFinite DEF l
<1> QED
    BY <1>4, <1>5

LEMMA VsyncsTail ==
  ASSUME NEW q \in Seq(Placed), q # <<>>
  PROVE  Cardinality(Vsyncs(Tail(q))) =
           Cardinality(Vsyncs(q)) - (IF q[1].packet.cmd = "VSYNC" THEN 1 ELSE 0)
<1> DEFINE l == Tail(q)
           S == Vsyncs(l)
           T == Vsyncs(q) \ {1}
           f == [k \in S |-> k + 1]
<1>1. /\ l \in Seq(Placed) /\ Len(l) = Len(q) - 1 /\ Len(q) \in Nat /\ Len(q) >= 1
      /\ \A k \in 1 .. Len(l) : l[k] = q[k + 1]
    BY TailFacts
<1> HIDE DEF l
<1>2. \A k : k \in S <=> k \in 1 .. Len(l) /\ q[k + 1].packet.cmd = "VSYNC"
    BY <1>1 DEF Vsyncs
<1>3. \A k : k \in T <=> k \in 2 .. Len(q) /\ q[k].packet.cmd = "VSYNC"
    BY <1>1 DEF Vsyncs
<1>4. IsFiniteSet(S) /\ IsFiniteSet(Vsyncs(q)) /\ Cardinality(Vsyncs(q)) \in Nat
    BY <1>1, VsyncsFinite
<1> HIDE DEF S, T
<1>5. f \in Bijection(S, T)
  <2>1. f \in [S -> T]
    <3>1. ASSUME NEW k \in S PROVE k + 1 \in T
      <4>1. k \in 1 .. Len(l) /\ q[k + 1].packet.cmd = "VSYNC"
          BY <1>2
      <4>2. k + 1 \in 2 .. Len(q)
          BY <4>1, <1>1
      <4> QED
          BY <4>1, <4>2, <1>3
    <3> QED
        BY <3>1
  <2>2. \A j, k \in S : f[j] = f[k] => j = k
    <3>1. \A k \in S : k \in Int
        BY <1>2
    <3> QED
        BY <3>1
  <2>3. \A t \in T : \E k \in S : f[k] = t
    <3> TAKE t \in T
    <3>1. t \in 2 .. Len(q) /\ q[t].packet.cmd = "VSYNC"
        BY <1>3
    <3>2. t - 1 \in 1 .. Len(l) /\ (t - 1) + 1 = t
        BY <3>1, <1>1
    <3>3. t - 1 \in S
        BY <3>1, <3>2, <1>2
    <3> QED
        BY <3>2, <3>3
  <2> HIDE DEF f
  <2> QED
      BY <2>1, <2>2, <2>3, Fun_IsBij
<1>6. Cardinality(T) = Cardinality(S)
  <2>1. ExistsBijection(S, T)
      BY <1>5 DEF ExistsBijection
  <2> QED
      BY <2>1, <1>4, FS_Bijection
<1>7. 1 \in Vsyncs(q) <=> q[1].packet.cmd = "VSYNC"
    BY <1>1 DEF Vsyncs
<1>8. Cardinality(T) = IF 1 \in Vsyncs(q) THEN Cardinality(Vsyncs(q)) - 1
                                          ELSE Cardinality(Vsyncs(q))
    BY <1>4, FS_RemoveElement DEF T
<1> QED
    BY <1>4, <1>6, <1>7, <1>8 DEF S, l

LEMMA VsyncsEmpty == Cardinality(Vsyncs(<<>>)) = 0
<1>1. Vsyncs(<<>>) = {}
    BY DEF Vsyncs
<1> QED
    BY <1>1, FS_EmptySet

-----------------------------------------------------------------------------
(* The steps *)

LEMMA Types ==
  ASSUME TypeOK
  PROVE  /\ pending \in Seq(Placed)
         /\ m_ReadPos \in 0 .. RingBufferSize - 1
         /\ m_WritePos \in 0 .. RingBufferSize - 1
         /\ ring \in [0 .. RingBufferSize - 1 -> Packets \cup {Data}]
  BY DEF TypeOK, Placed

LEMMA NewPacket ==
  ASSUME TypeOK
  PROVE  /\ ThePacket \in Placed
         /\ ThePacket.at = m_WritePos /\ ThePacket.packet = Packet(op)
         /\ After(ThePacket) = Wrap(m_WritePos + Packet(op).words)
         /\ Packet(op).words \in Nat /\ Packet(op).words >= 1
         /\ Packet(op).words < RingBufferSize
         /\ Packet(op).cmd = "VSYNC" <=> op = "VSYNC"
<1>1. /\ Packet(op) \in Packets /\ m_WritePos \in 0 .. RingBufferSize - 1
      /\ Packet(op).cmd = "VSYNC" <=> op = "VSYNC"
    BY PacketFacts, Types
<1>2. Packet(op).words \in 1 .. RingBufferSize - 1
    BY <1>1, PacketFacts
<1> QED
    BY <1>1, <1>2, Sizes DEF ThePacket, Placed, After

\* The room GenericStall computes is what the distance leaves of the ring.
LEMMA RoomIs ==
  ASSUME TypeOK
  PROVE  /\ FreeRoom(m_ReadPos) = RingBufferSize - Distance(m_WritePos, m_ReadPos)
         /\ FreeRoom(m_ReadPos) > Packet(op).words =>
              Distance(m_WritePos, m_ReadPos) + Packet(op).words < RingBufferSize
<1>1. FreeRoom(m_ReadPos) = RingBufferSize - Distance(m_WritePos, m_ReadPos)
    BY Types, Sizes DEF FreeRoom, Distance
<1> QED
    BY <1>1, Types, DistanceType, NewPacket, Sizes

\* What the GS thread finds at the reader.
LEMMA FirstPacket ==
  ASSUME IInv, pending # <<>>
  PROVE  /\ pending[1] \in Placed /\ pending[1].at = m_ReadPos
         /\ After(pending[1]) = Wrap(m_ReadPos + pending[1].packet.words)
         /\ After(pending[1]) \in 0 .. RingBufferSize - 1
         /\ ring[m_ReadPos] = pending[1].packet
         /\ Head(pending) = pending[1]
         /\ pending[1].packet.words \in 0 .. RingBufferSize
<1>1. /\ pending[1] \in Placed /\ pending[1].at = m_ReadPos
      /\ After(pending[1]) \in 0 .. RingBufferSize - 1
    BY Types, SpanTail DEF IInv, Placement
<1>2. 1 \in 1 .. Len(pending) /\ Head(pending) = pending[1]
    BY Types, SeqFacts DEF IInv
<1>3. Holds(ring, pending[1])
    BY <1>2 DEF IInv, RingKeeps
<1>4. pending[1].packet.words \in 0 .. RingBufferSize
    BY <1>1, PlacedFacts, Sizes
<1> QED
    BY <1>1, <1>2, <1>3, <1>4 DEF Holds, After

LEMMA EmptyRing ==
  ASSUME IInv
  PROVE  pending = <<>> <=> m_ReadPos = m_WritePos
<1>1. ASSUME m_ReadPos = m_WritePos PROVE pending = <<>>
  <2>1. Span(pending, m_ReadPos, m_ReadPos)
      BY <1>1 DEF IInv, Placement
  <2> QED
      BY <2>1, Types, SpanEmpty DEF IInv
<1>2. ASSUME pending = <<>> PROVE m_ReadPos = m_WritePos
    BY <1>2 DEF IInv, Placement, Span, Linked
<1> QED
    BY <1>1, <1>2

LEMMA Steps ==
  ASSUME Next
  PROVE  \/ GenericStall \/ SignalEnable \/ SignalEvent \/ SignalWait \/ SignalCheck
         \/ SpinEvent \/ Spin \/ WritePacket \/ CommitPacket \/ AnnouncePackets
         \/ VsyncEvent \/ VsyncCount \/ VsyncListen \/ VsyncWait
         \/ WaitForEmpty \/ WaitForEmptyReturns \/ Resume
         \/ StartPacket \/ WaitGS \/ ResetGS
         \/ WaitForWork \/ Execute \/ VsyncSub \/ VsyncSignal \/ Advance
         \/ RingSignal \/ RingOff \/ RingPost
         \/ SafetyValve \/ ValveRing \/ ValvePosition
  BY DEF Next, EEContinues, EEBegins, GSThread

\* The history and the positions change in three operations.
LEMMA RingKept ==
  ASSUME Next, ~CommitPacket, ~Advance, ~ResetGS
  PROVE  UNCHANGED <<m_ReadPos, m_WritePos, pending>>
  BY Steps DEF GenericStall, SignalEnable, SignalEvent, SignalWait, SignalCheck,
     SpinEvent, Spin, WritePacket, AnnouncePackets, VsyncEvent, VsyncCount, VsyncListen,
     VsyncWait, WaitForEmpty, WaitForEmptyReturns, Resume, StartPacket, WaitGS,
     WaitForWork, Execute, VsyncSub, VsyncSignal, RingSignal, RingOff, RingPost,
     SafetyValve, ValveRing, ValvePosition, ringVars

\* The ring changes in one.
LEMMA WordsKept ==
  ASSUME Next, ~WritePacket
  PROVE  UNCHANGED ring
  BY Steps DEF GenericStall, SignalEnable, SignalEvent, SignalWait, SignalCheck,
     SpinEvent, Spin, CommitPacket, AnnouncePackets, VsyncEvent, VsyncCount, VsyncListen,
     VsyncWait, WaitForEmpty, WaitForEmptyReturns, Resume, StartPacket, WaitGS, ResetGS,
     WaitForWork, Execute, VsyncSub, VsyncSignal, Advance, RingSignal, RingOff, RingPost,
     SafetyValve, ValveRing, ValvePosition, ringVars

\* A step of one thread leaves the place of the other alone.
LEMMA EEOwns ==
  ASSUME EEContinues \/ EEBegins
  PROVE  UNCHANGED <<gpc, ringposinc>>
  BY DEF EEContinues, EEBegins, GenericStall, SignalEnable, SignalEvent, SignalWait,
     SignalCheck, SpinEvent, Spin, WritePacket, CommitPacket, AnnouncePackets, VsyncEvent,
     VsyncCount, VsyncListen, VsyncWait, WaitForEmpty, WaitForEmptyReturns, Resume,
     StartPacket, WaitGS, ResetGS, EEOnly, gsVars

LEMMA GSOwns ==
  ASSUME GSThread
  PROVE  UNCHANGED <<epc, op, m_CopyDataTally, m_WritePos, ring>>
  BY DEF GSThread, WaitForWork, Execute, VsyncSub, VsyncSignal, Advance, RingSignal,
     RingOff, RingPost, SafetyValve, ValveRing, ValvePosition, eeVars, ringVars

\* What CommitPacket makes of the history.
LEMMA Committed ==
  ASSUME IInv, CommitPacket
  PROVE  /\ epc = "commit" /\ epc' \in {"vsyncEvent", "stall", "event", "idle"}
         /\ epc' = "vsyncEvent" <=> op = "VSYNC"
         /\ epc' = "stall" <=> op = "RESET"
         /\ op' = IF op = "RESET" THEN "FRAMESKIP" ELSE "none"
         /\ pending' = Append(pending, ThePacket)
         /\ m_WritePos' = After(ThePacket)
         /\ UNCHANGED <<m_ReadPos, ring, signals, frames, event, gpc, ringposinc>>
<1>1. m_WritePos' = After(ThePacket)
    BY NewPacket DEF CommitPacket, IInv
<1>2. pending' = Append(pending, ThePacket)
    BY DEF CommitPacket, ThePacket
<1> QED
    BY <1>1, <1>2 DEF CommitPacket, EEOnly, gsVars

\* What Advance makes of it.
LEMMA Passed ==
  ASSUME IInv, Advance
  PROVE  /\ pending # <<>> /\ pending' = Tail(pending)
         /\ m_ReadPos' = After(pending[1]) /\ m_ReadPos' \in 0 .. RingBufferSize - 1
         /\ gpc = "advance" /\ gpc' = "ringSignal"
         /\ UNCHANGED <<m_WritePos, ring, signals, frames, event, epc, op, ringposinc>>
<1>1. pending # <<>> /\ ringposinc = pending[1].packet.words
    BY DEF Advance, GSMoves, IInv, Reading
<1> QED
    BY <1>1, FirstPacket DEF Advance, GSMoves, eeVars

\* When ResetGS is called the GS thread sleeps and has nothing left.
LEMMA Drained ==
  ASSUME IInv, epc = "drained"
  PROVE  pending = <<>> /\ gpc = "wait" /\ m_ReadPos = m_WritePos
<1>1. phase = "idle" /\ ~notified
    BY DEF IInv, Quiet
<1>2. gpc = "wait"
    BY <1>1 DEF IInv, Awake
<1>3. pending = <<>>
    BY <1>1, <1>2 DEF IInv, Awake
<1> QED
    BY <1>2, <1>3, EmptyRing

\* What ResetGS does then.
LEMMA WasReset ==
  ASSUME IInv, ResetGS
  PROVE  /\ epc = "drained" /\ epc' = "stall" /\ gpc = "wait" /\ op' = "RESET"
         /\ pending' = <<>> /\ m_ReadPos' = m_WritePos
         /\ m_QueuedFrameCount' = 0 /\ m_VsyncSignalListener' = FALSE
         /\ UNCHANGED <<m_WritePos, ring, signals, m_sem_Vsync, event, gpc, ringposinc>>
  BY Drained DEF ResetGS, EEMoves, EEOnly, gsVars

LEMMA PlacementStep ==
  ASSUME IInv, Next
  PROVE  Placement'
<1>1. CASE CommitPacket
  <2>1. Distance(m_WritePos, m_ReadPos) + Packet(op).words < RingBufferSize
      BY <1>1, Committed DEF IInv, Room
  <2>2. Span(Append(pending, ThePacket), m_ReadPos, After(ThePacket))
      BY <2>1, Types, NewPacket, SpanAppend DEF IInv, Placement
  <2> QED
      BY <1>1, <2>2, Committed DEF Placement
<1>2. CASE Advance
  <2>1. Span(Tail(pending), After(pending[1]), m_WritePos)
      BY <1>2, Passed, Types, SpanTail DEF IInv, Placement
  <2> QED
      BY <1>2, <2>1, Passed DEF Placement
<1>3. CASE ResetGS
  <2>1. Span(<<>>, m_WritePos, m_WritePos)
      BY DEF Span, Linked, Sorted, Within
  <2> QED
      BY <1>3, <2>1, WasReset DEF Placement
<1>4. CASE ~CommitPacket /\ ~Advance /\ ~ResetGS
    BY <1>4, RingKept DEF IInv, Placement
<1> QED
    BY <1>1, <1>2, <1>3, <1>4

\* WritePacket writes where no pending packet lies.
LEMMA WritePacketFacts ==
  ASSUME IInv, WritePacket
  PROVE  /\ epc = "write" /\ epc' = "commit" /\ op' = op
         /\ ring' \in [0 .. RingBufferSize - 1 -> Packets \cup {Data}]
         /\ Holds(ring', ThePacket)
         /\ \A k \in 1 .. Len(pending) : Holds(ring', pending[k])
         /\ UNCHANGED <<m_ReadPos, m_WritePos, pending, gpc, ringposinc>>
<1>1. /\ epc = "write" /\ epc' = "commit" /\ op' = op
      /\ UNCHANGED <<m_ReadPos, m_WritePos, pending, gpc, ringposinc>>
    BY DEF WritePacket, EEMoves, EEOnly, gsVars
<1>2. /\ ThePacket \in Placed /\ ThePacket.at = m_WritePos
      /\ ThePacket.packet = Packet(op) /\ Packet(op).words \in Nat
    BY NewPacket DEF IInv
<1>3. Distance(m_WritePos, m_ReadPos) + Packet(op).words <= RingBufferSize
  <2>1. Distance(m_WritePos, m_ReadPos) + Packet(op).words < RingBufferSize
      BY <1>1 DEF IInv, Room
  <2>2. Distance(m_WritePos, m_ReadPos) \in Nat
      BY Types, DistanceType DEF IInv
  <2> QED
      BY <2>1, <2>2, <1>2, Sizes
<1>4. ring' = Into(ring, ThePacket)
    BY <1>2 DEF WritePacket, Into
<1>5. /\ ring' \in [0 .. RingBufferSize - 1 -> Packets \cup {Data}]
      /\ Holds(ring', ThePacket)
      /\ \A q \in Placed : Holds(ring, q) /\ EndsBefore(q, m_WritePos, m_ReadPos) => Holds(ring', q)
  <2>1. /\ ring \in [0 .. RingBufferSize - 1 -> Packets \cup {Data}]
        /\ m_ReadPos \in 0 .. RingBufferSize - 1
      BY Types DEF IInv
  <2>2. Distance(ThePacket.at, m_ReadPos) + ThePacket.packet.words <= RingBufferSize
      BY <1>2, <1>3
  <2> HIDE DEF ThePacket
  <2>3. /\ ring' \in [0 .. RingBufferSize - 1 -> Packets \cup {Data}]
        /\ Holds(ring', ThePacket)
        /\ \A q \in Placed : Holds(ring, q) /\ EndsBefore(q, ThePacket.at, m_ReadPos)
                               => Holds(ring', q)
      BY <2>1, <2>2, <1>2, <1>4, WriteFacts
  <2> QED
      BY <2>3, <1>2
<1>6. ASSUME NEW k \in 1 .. Len(pending)
      PROVE  Holds(ring', pending[k])
  <2>1. pending[k] \in Placed /\ Holds(ring, pending[k])
      BY Types, SeqFacts DEF IInv, RingKeeps
  <2>2. EndsBefore(pending[k], m_WritePos, m_ReadPos)
      BY DEF IInv, Placement, Span, Within
  <2> QED
      BY <2>1, <2>2, <1>5
<1> QED
    BY <1>1, <1>5, <1>6

LEMMA RingKeepsStep ==
  ASSUME IInv, Next
  PROVE  RingKeeps'
<1>0. /\ \A k \in 1 .. Len(pending) : Holds(ring, pending[k])
      /\ pending \in Seq(Placed) /\ Len(pending) \in Nat
    BY Types, SeqFacts DEF IInv, RingKeeps
<1>1. CASE WritePacket
    BY <1>1, WritePacketFacts DEF RingKeeps
<1>2. CASE CommitPacket
  <2> DEFINE l == Append(pending, ThePacket)
  <2>1. /\ Len(l) = Len(pending) + 1
        /\ \A k \in 1 .. Len(pending) : l[k] = pending[k]
        /\ l[Len(pending) + 1] = ThePacket
      BY <1>0, NewPacket, AppendFacts DEF IInv
  <2>2. Holds(ring, ThePacket)
      BY <1>2, Committed DEF IInv, Written
  <2>3. pending' = l /\ ring' = ring
      BY <1>2, Committed
  <2> HIDE DEF l
  <2>4. \A k \in 1 .. Len(l) : k \in 1 .. Len(pending) \/ k = Len(pending) + 1
      BY <2>1, <1>0
  <2>5. \A k \in 1 .. Len(l) : Holds(ring, l[k])
      BY <2>1, <2>2, <2>4, <1>0
  <2> QED
      BY <2>3, <2>5 DEF RingKeeps
<1>3. CASE Advance
  <2>1. pending # <<>> /\ pending' = Tail(pending) /\ ring' = ring
      BY <1>3, Passed
  <2>2. \A k \in 1 .. Len(Tail(pending)) :
          Tail(pending)[k] = pending[k + 1] /\ k + 1 \in 1 .. Len(pending)
      BY <2>1, <1>0, TailFacts
  <2>3. \A k \in 1 .. Len(Tail(pending)) : Holds(ring, Tail(pending)[k])
      BY <2>2, <1>0
  <2> QED
      BY <2>1, <2>3 DEF RingKeeps
<1>4. CASE ResetGS
    BY <1>4, WasReset DEF RingKeeps
<1>5. CASE ~WritePacket /\ ~CommitPacket /\ ~Advance /\ ~ResetGS
    BY <1>5, <1>0, RingKept, WordsKept DEF RingKeeps
<1> QED
    BY <1>1, <1>2, <1>3, <1>4, <1>5

LEMMA WrittenStep ==
  ASSUME IInv, Next
  PROVE  Written'
<1> SUFFICES ASSUME epc' = "commit" PROVE Holds(ring', ThePacket')
    BY DEF Written
<1>1. CASE WritePacket
  <2>1. ThePacket' = ThePacket
      BY <1>1, WritePacketFacts DEF ThePacket, Packet
  <2> QED
      BY <1>1, <2>1, WritePacketFacts
<1>2. CASE GSThread
  <2>1. UNCHANGED <<epc, op, m_WritePos, ring>>
      BY <1>2, GSOwns
  <2>2. ThePacket' = ThePacket
      BY <2>1 DEF ThePacket, Packet
  <2> QED
      BY <2>1, <2>2 DEF IInv, Written
<1>3. CASE (EEContinues \/ EEBegins) /\ ~WritePacket
  <2>1. epc' # "commit"
      BY <1>3 DEF EEContinues, EEBegins, GenericStall, SignalEnable, SignalEvent, SignalWait,
         SignalCheck, SpinEvent, Spin, CommitPacket, AnnouncePackets, VsyncEvent,
         VsyncCount, VsyncListen, VsyncWait, WaitForEmpty, WaitForEmptyReturns, Resume,
         StartPacket, WaitGS, ResetGS, EEMoves
  <2> QED
      BY <2>1
<1> QED
    BY <1>1, <1>2, <1>3 DEF Next

LEMMA RoomStep ==
  ASSUME IInv, Next
  PROVE  Room'
<1> SUFFICES ASSUME epc' \in {"write", "commit"}
             PROVE  (Distance(m_WritePos, m_ReadPos) + Packet(op).words < RingBufferSize)'
    BY DEF Room
<1>1. CASE GenericStall \/ SignalCheck \/ Spin
  <2>1. /\ FreeRoom(m_ReadPos) > Packet(op).words
        /\ UNCHANGED <<m_ReadPos, m_WritePos, op>>
      BY <1>1 DEF GenericStall, SignalCheck, Spin, EEMoves, ringVars
  <2> QED
      BY <2>1, RoomIs DEF IInv, Distance, Packet
<1>2. CASE WritePacket
  <2>1. Distance(m_WritePos, m_ReadPos) + Packet(op).words < RingBufferSize
      BY <1>2, WritePacketFacts DEF IInv, Room
  <2> QED
      BY <1>2, <2>1, WritePacketFacts DEF Distance, Packet
<1>3. CASE GSThread
  <2>1. UNCHANGED <<epc, op, m_WritePos>>
      BY <1>3, GSOwns
  <2>2. Distance(m_WritePos, m_ReadPos) + Packet(op).words < RingBufferSize
      BY <2>1 DEF IInv, Room
  <2>3. CASE Advance
    <3>1. Distance(m_WritePos, m_ReadPos') <= Distance(m_WritePos, m_ReadPos)
        BY <2>3, Passed, Types, SpanTail DEF IInv, Placement
    <3>2. Distance(m_WritePos, m_ReadPos) \in Nat /\ Distance(m_WritePos, m_ReadPos') \in Nat
        BY <2>3, Passed, Types, DistanceType DEF IInv
    <3>3. Packet(op).words \in Nat
        BY NewPacket DEF IInv
    <3>4. Distance(m_WritePos, m_ReadPos') + Packet(op).words < RingBufferSize
        BY <3>1, <3>2, <3>3, <2>2, Sizes
    <3> QED
        BY <3>4, <2>1 DEF Distance, Packet
  <2>4. CASE ~Advance
    <3>1. UNCHANGED m_ReadPos
        BY <1>3, <2>4 DEF GSThread, WaitForWork, Execute, VsyncSub, VsyncSignal, RingSignal,
           RingOff, RingPost, SafetyValve, ValveRing, ValvePosition, ringVars
    <3> QED
        BY <3>1, <2>1, <2>2 DEF Distance, Packet
  <2> QED
      BY <2>3, <2>4
<1>4. CASE (EEContinues \/ EEBegins) /\ ~(GenericStall \/ SignalCheck \/ Spin) /\ ~WritePacket
  <2>1. epc' \notin {"write", "commit"}
      BY <1>4 DEF EEContinues, EEBegins, SignalEnable, SignalEvent, SignalWait,
         SpinEvent, CommitPacket, AnnouncePackets, VsyncEvent,
         VsyncCount, VsyncListen, VsyncWait, WaitForEmpty, WaitForEmptyReturns, Resume,
         StartPacket, WaitGS, ResetGS, EEMoves
  <2> QED
      BY <2>1
<1> QED
    BY <1>1, <1>2, <1>3, <1>4 DEF Next

\* Execute finds the packet the history says.
LEMMA Executed ==
  ASSUME IInv, Execute
  PROVE  /\ pending # <<>> /\ gpc = "loop"
         /\ ringposinc' = pending[1].packet.words
         /\ gpc' = IF pending[1].packet.cmd = "VSYNC" THEN "vsyncSub" ELSE "advance"
         /\ UNCHANGED <<m_ReadPos, m_WritePos, ring, pending, signals, frames, event, epc, op>>
<1>1. pending # <<>>
    BY EmptyRing DEF Execute
<1> QED
    BY <1>1, FirstPacket DEF Execute, ringVars, eeVars

LEMMA ReadingStep ==
  ASSUME IInv, Next
  PROVE  Reading'
<1> USE DEF IInv, Reading
<1>1. CASE CommitPacket
  <2>1. pending # <<>> => pending'[1] = pending[1] /\ pending' # <<>>
      BY <1>1, Committed, AppendFacts, NewPacket, SeqFacts, Types
  <2> QED
      BY <1>1, <2>1, Committed
<1>2. CASE ResetGS
    BY <1>2, WasReset
<1>3. CASE (EEContinues \/ EEBegins) /\ ~CommitPacket /\ ~ResetGS
  <2>1. UNCHANGED <<gpc, ringposinc, pending>>
    <3>1. UNCHANGED pending
        BY <1>3 DEF EEContinues, EEBegins, GenericStall, SignalEnable, SignalEvent, SignalWait,
           SignalCheck, SpinEvent, Spin, WritePacket, AnnouncePackets, VsyncEvent, VsyncCount,
           VsyncListen, VsyncWait, WaitForEmpty, WaitForEmptyReturns, Resume, StartPacket,
           WaitGS, ringVars
    <3> QED
        BY <3>1, <1>3, EEOwns
  <2> QED
      BY <2>1
<1>4. CASE Execute
    BY <1>4, Executed
<1>5. CASE Advance
    BY <1>5, Passed
<1>6. CASE VsyncSub \/ VsyncSignal
    BY <1>6 DEF VsyncSub, VsyncSignal, GSMoves, ringVars
<1>7. CASE WaitForWork \/ RingSignal \/ RingOff \/ RingPost \/ SafetyValve \/ ValveRing
           \/ ValvePosition
  <2>1. gpc' \notin {"vsyncSub", "vsyncSignal", "advance"}
      BY <1>7 DEF WaitForWork, RingSignal, RingOff, RingPost, SafetyValve, ValveRing,
         ValvePosition, GSMoves
  <2> QED
      BY <2>1
<1> QED
    BY <1>1, <1>2, <1>3, <1>4, <1>5, <1>6, <1>7 DEF Next, GSThread

LEMMA EventStep ==
  ASSUME IInv, Next
  PROVE  Awake' /\ Quiet'
<1>1. /\ phase \in {"running", "idle"} /\ notified \in BOOLEAN
      /\ waiter \in {"none", "waiting", "released"}
      /\ Awake /\ Quiet
    BY DEF IInv, TypeOK, Awake, SemEvent!TypeOK
<1> USE <1>1 DEF Awake, Quiet, InValve
<1>2. CASE CommitPacket
    BY <1>2, Committed DEF event
<1>3. CASE Advance
    BY <1>3, Passed DEF event
<1>4. CASE ResetGS
    BY <1>4, WasReset DEF event
<1>5. CASE SignalEvent \/ SpinEvent \/ AnnouncePackets \/ VsyncEvent \/ WaitGS
    BY <1>5 DEF SignalEvent, SpinEvent, AnnouncePackets, VsyncEvent, WaitGS, SetEvent,
       SemEvent!Notify, EEMoves, EEOnly, gsVars, ringVars
<1>6. CASE GenericStall \/ SignalEnable \/ SignalWait \/ SignalCheck \/ Spin \/ WritePacket
           \/ VsyncCount \/ VsyncListen \/ VsyncWait \/ StartPacket
    BY <1>6 DEF GenericStall, SignalEnable, SignalWait, SignalCheck, Spin, WritePacket,
       VsyncCount, VsyncListen, VsyncWait, StartPacket, EEMoves, EEOnly, gsVars, ringVars, event
<1>7. CASE WaitForEmpty
    BY <1>7 DEF WaitForEmpty, SemEvent!EmptyAtOnce, SemEvent!EmptyWait, SemEvent!vars,
       EEOnly, gsVars, ringVars
<1>8. CASE WaitForEmptyReturns
    BY <1>8 DEF WaitForEmptyReturns, SemEvent!EmptyReturn, EEMoves, EEOnly, gsVars, ringVars
<1>9. CASE Resume
    BY <1>9 DEF Resume, EEMoves, EEOnly, gsVars, ringVars, event
<1>10. CASE WaitForWork
    BY <1>10 DEF WaitForWork, SemEvent!GoOn, SemEvent!WakeUp, SemEvent!GoIdle,
       SemEvent!Release, ringVars, eeVars
<1>11. CASE SafetyValve
  <2>1. pending = <<>>
      BY <1>11, EmptyRing DEF SafetyValve
  <2> QED
      BY <1>11, <2>1 DEF SafetyValve, ringVars, eeVars, event
<1>12. CASE Execute \/ VsyncSub \/ VsyncSignal
    BY <1>12 DEF Execute, VsyncSub, VsyncSignal, GSMoves, ringVars, eeVars, event
<1>13. CASE RingSignal \/ RingOff \/ RingPost \/ ValveRing \/ ValvePosition
    BY <1>13 DEF RingSignal, RingOff, RingPost, ValveRing, ValvePosition, GSMoves,
       ringVars, eeVars, event
<1> QED
    BY <1>2, <1>3, <1>4, <1>5, <1>6, <1>7, <1>8, <1>9, <1>10, <1>11, <1>12, <1>13, Steps

LEMMA RingSignalsStep ==
  ASSUME IInv, Next
  PROVE  RingSignals'
<1>1. /\ m_SignalRingEnable \in BOOLEAN /\ m_SignalRingPosition \in Int
      /\ m_sem_OnRingReset \in {0, 1} /\ ringposinc \in Nat
      /\ RingSignals
    BY Sizes DEF IInv, TypeOK
<1> USE <1>1 DEF RingSignals, Stalled
<1>2. CASE CommitPacket
    BY <1>2, Committed DEF signals
<1>3. CASE Advance
    BY <1>3, Passed DEF signals
<1>4. CASE ResetGS
    BY <1>4, WasReset DEF signals
<1>5. CASE GenericStall
    BY <1>5 DEF GenericStall, EEOnly, gsVars
<1>6. CASE SignalEnable
    BY <1>6 DEF SignalEnable, EEMoves, EEOnly, gsVars
<1>7. CASE SignalEvent
    BY <1>7 DEF SignalEvent, EEMoves, EEOnly, gsVars, signals
<1>8. CASE SignalWait
    BY <1>8 DEF SignalWait, EEMoves, EEOnly, gsVars
<1>9. CASE SignalCheck
    BY <1>9 DEF SignalCheck, EEOnly, gsVars, signals
<1>10. CASE SpinEvent \/ AnnouncePackets \/ VsyncEvent \/ WaitGS \/ Spin \/ WritePacket
            \/ VsyncCount \/ VsyncListen \/ VsyncWait \/ StartPacket
    BY <1>10 DEF SpinEvent, AnnouncePackets, VsyncEvent, WaitGS, Spin, WritePacket,
       VsyncCount, VsyncListen, VsyncWait, StartPacket, EEMoves, EEOnly, gsVars, signals
<1>11. CASE WaitForEmpty \/ WaitForEmptyReturns \/ Resume
    BY <1>11 DEF WaitForEmpty, WaitForEmptyReturns, Resume, EEMoves, EEOnly, gsVars, signals
<1>12. CASE WaitForWork \/ Execute \/ VsyncSub \/ VsyncSignal \/ SafetyValve
    BY <1>12 DEF WaitForWork, Execute, VsyncSub, VsyncSignal, SafetyValve, GSMoves,
       eeVars, signals
<1>13. CASE RingSignal
    BY <1>13 DEF RingSignal, eeVars
<1>14. CASE RingOff
    BY <1>14 DEF RingOff, GSMoves, eeVars
<1>15. CASE RingPost
    BY <1>15 DEF RingPost, GSMoves, eeVars
<1>16. CASE ValveRing
    BY <1>16 DEF ValveRing, eeVars
<1>17. CASE ValvePosition
    BY <1>17 DEF ValvePosition, GSMoves, eeVars
<1> QED
    BY <1>2, <1>3, <1>4, <1>5, <1>6, <1>7, <1>8, <1>9, <1>10, <1>11, <1>12, <1>13, <1>14,
       <1>15, <1>16, <1>17, Steps

\* The vsync signal changes in four operations.
LEMMA VsyncSignalsStep ==
  ASSUME IInv, Next
  PROVE  VsyncSignals'
<1>1. m_VsyncSignalListener \in BOOLEAN /\ m_sem_Vsync \in {0, 1} /\ VsyncSignals
    BY DEF IInv, TypeOK
<1> USE <1>1 DEF VsyncSignals
<1>2. CASE VsyncListen
    BY <1>2 DEF VsyncListen, EEMoves
<1>3. CASE VsyncWait
    BY <1>3 DEF VsyncWait, EEMoves
<1>4. CASE VsyncSignal
    BY <1>4 DEF VsyncSignal, eeVars
<1>5. CASE ResetGS
    BY <1>5, WasReset
<1>6. CASE EEContinues \/ EEBegins
  <2>1. CASE VsyncListen \/ VsyncWait \/ ResetGS
      BY <2>1, <1>2, <1>3, <1>5
  <2>2. CASE ~VsyncListen /\ ~VsyncWait /\ ~ResetGS
    <3>1. /\ epc # "vsyncWait"
          /\ UNCHANGED <<m_VsyncSignalListener, m_sem_Vsync>>
        BY <1>6, <2>2 DEF EEContinues, EEBegins, GenericStall, SignalEnable, SignalEvent,
           SignalWait, SignalCheck, SpinEvent, Spin, WritePacket, CommitPacket,
           AnnouncePackets, VsyncEvent, VsyncCount, WaitForEmpty, WaitForEmptyReturns, Resume,
           StartPacket, WaitGS, EEMoves, frames
    <3> QED
        BY <3>1
  <2> QED
      BY <2>1, <2>2
<1>7. CASE GSThread /\ ~VsyncSignal
  <2>1. UNCHANGED <<epc, m_VsyncSignalListener, m_sem_Vsync>>
      BY <1>7 DEF GSThread, WaitForWork, Execute, VsyncSub, Advance, RingSignal,
         RingOff, RingPost, SafetyValve, ValveRing, ValvePosition, eeVars, frames
  <2> QED
      BY <2>1
<1> QED
    BY <1>4, <1>6, <1>7 DEF Next

-----------------------------------------------------------------------------
(* The frame counter *)

LEMMA FramesAre ==
  ASSUME NEW q \in Seq(Placed)
  PROVE  Cardinality({ k \in DOMAIN q : q[k].packet.cmd = "VSYNC" }) = Cardinality(Vsyncs(q))
  BY SeqFacts DEF Vsyncs

\* Counted with the history's vsyncs as a cardinality of Vsyncs.
LEMMA CountedIs ==
  ASSUME IInv
  PROVE  /\ m_QueuedFrameCount \in Int
         /\ FramesInRing = Cardinality(Vsyncs(pending)) /\ FramesInRing \in Nat
         /\ m_QueuedFrameCount + FramesNotCounted = FramesInRing - FramesPassed
         /\ FramesNotCounted \in {0, 1} /\ FramesPassed \in {0, 1}
  BY Types, FramesAre, VsyncsFinite DEF IInv, TypeOK, Counted, FramesInRing, FramesNotCounted,
     FramesPassed

\* A step that changes none of what Counted is about.
LEMMA CountedKept ==
  ASSUME IInv, UNCHANGED <<m_QueuedFrameCount, pending>>,
         FramesNotCounted' = FramesNotCounted, FramesPassed' = FramesPassed
  PROVE  Counted'
  BY CountedIs DEF Counted, FramesInRing

LEMMA CountedStep ==
  ASSUME IInv, Next
  PROVE  Counted'
<1> USE CountedIs
<1>1. CASE CommitPacket
  <2>1. /\ pending' = Append(pending, ThePacket) /\ pending' \in Seq(Placed)
        /\ FramesInRing' = FramesInRing + (IF op = "VSYNC" THEN 1 ELSE 0)
    <3>1. pending' = Append(pending, ThePacket) /\ pending' \in Seq(Placed)
        BY <1>1, Committed, NewPacket, AppendFacts, Types DEF IInv
    <3>2. FramesInRing' = Cardinality(Vsyncs(pending'))
        BY <3>1, FramesAre DEF FramesInRing
    <3> QED
        BY <3>1, <3>2, VsyncsAppend, NewPacket, Types DEF IInv
  <2>2. FramesNotCounted = 0 /\ FramesNotCounted' = IF op = "VSYNC" THEN 1 ELSE 0
      BY <1>1, Committed DEF FramesNotCounted
  <2>3. FramesPassed' = FramesPassed
    <3>1. CASE gpc = "advance"
      <4>1. pending # <<>>
          BY <3>1 DEF IInv, Reading
      <4>2. pending'[1] = pending[1] /\ Head(pending') = pending'[1] /\ Head(pending) = pending[1]
          BY <4>1, <2>1, AppendFacts, NewPacket, SeqFacts, Types DEF IInv
      <4> QED
          BY <1>1, <3>1, <4>2, Committed DEF FramesPassed
    <3>2. CASE gpc # "advance"
        BY <1>1, <3>2, Committed DEF FramesPassed
    <3> QED
        BY <3>1, <3>2
  <2>4. m_QueuedFrameCount' = m_QueuedFrameCount
      BY <1>1, Committed DEF frames
  <2> QED
      BY <2>1, <2>2, <2>3, <2>4 DEF Counted
<1>2. CASE VsyncCount
  <2>1. FramesNotCounted = 1 /\ FramesNotCounted' = 0 /\ FramesPassed' = FramesPassed
        /\ m_QueuedFrameCount' = m_QueuedFrameCount + 1 /\ FramesInRing' = FramesInRing
      BY <1>2 DEF VsyncCount, FramesNotCounted, FramesPassed, FramesInRing, EEOnly, gsVars,
         ringVars
  <2> QED
      BY <2>1 DEF Counted
<1>3. CASE ResetGS
  <2>1. FramesInRing' = 0
    <3>1. pending' = <<>> /\ pending' \in Seq(Placed)
        BY <1>3, WasReset
    <3>2. FramesInRing' = Cardinality(Vsyncs(pending'))
        BY <3>1, FramesAre DEF FramesInRing
    <3> QED
        BY <3>1, <3>2, VsyncsEmpty
  <2>2. FramesNotCounted' = 0 /\ FramesPassed' = 0 /\ m_QueuedFrameCount' = 0
      BY <1>3, WasReset DEF FramesNotCounted, FramesPassed
  <2> QED
      BY <2>1, <2>2 DEF Counted
<1>4. CASE (EEContinues \/ EEBegins) /\ ~CommitPacket /\ ~VsyncCount /\ ~ResetGS
  <2>1. UNCHANGED <<m_QueuedFrameCount, pending>> /\ FramesNotCounted' = FramesNotCounted
      BY <1>4 DEF EEContinues, EEBegins, GenericStall, SignalEnable, SignalEvent,
         SignalWait, SignalCheck, SpinEvent, Spin, WritePacket, AnnouncePackets, VsyncEvent,
         VsyncListen, VsyncWait, WaitForEmpty, WaitForEmptyReturns, Resume,
         StartPacket, WaitGS, EEMoves, frames, ringVars, FramesNotCounted
  <2>2. FramesPassed' = FramesPassed
      BY <1>4, <2>1, EEOwns DEF FramesPassed
  <2> QED
      BY <2>1, <2>2, CountedKept
<1>5. CASE Execute
  <2>1. FramesPassed = 0 /\ FramesPassed' = 0
      BY <1>5, Executed, FirstPacket DEF FramesPassed
  <2> QED
      BY <1>5, <2>1, Executed, CountedKept DEF frames, FramesNotCounted
<1>6. CASE VsyncSub
  <2>1. FramesPassed = 0 /\ FramesPassed' = 1 /\ m_QueuedFrameCount' = m_QueuedFrameCount - 1
        /\ FramesInRing' = FramesInRing /\ FramesNotCounted' = FramesNotCounted
      BY <1>6 DEF VsyncSub, GSMoves, FramesPassed, FramesInRing, FramesNotCounted, ringVars, eeVars
  <2> QED
      BY <2>1 DEF Counted
<1>7. CASE VsyncSignal
  <2>1. gpc = "vsyncSignal" => Head(pending).packet.cmd = "VSYNC"
      BY FirstPacket DEF IInv, Reading
  <2>2. UNCHANGED <<m_QueuedFrameCount, pending, epc>>
      BY <1>7 DEF VsyncSignal, ringVars, eeVars
  <2>3. FramesPassed' = FramesPassed
      BY <1>7, <2>1, <2>2 DEF VsyncSignal, GSMoves, FramesPassed
  <2> QED
      BY <2>2, <2>3, CountedKept DEF FramesNotCounted
<1>8. CASE Advance
  <2>1. pending # <<>> /\ pending' = Tail(pending) /\ gpc = "advance" /\ gpc' = "ringSignal"
        /\ UNCHANGED <<m_QueuedFrameCount, epc>>
      BY <1>8, Passed DEF frames
  <2>2. pending' \in Seq(Placed)
      BY <2>1, TailFacts, Types DEF IInv
  <2>3. FramesInRing' = FramesInRing - (IF pending[1].packet.cmd = "VSYNC" THEN 1 ELSE 0)
    <3>1. FramesInRing' = Cardinality(Vsyncs(pending'))
        BY <2>2, FramesAre DEF FramesInRing
    <3> QED
        BY <3>1, <2>1, VsyncsTail, Types DEF IInv
  <2>4. FramesPassed' = 0 /\ FramesPassed = IF pending[1].packet.cmd = "VSYNC" THEN 1 ELSE 0
      BY <2>1, FirstPacket DEF FramesPassed
  <2>5. FramesNotCounted' = FramesNotCounted
      BY <2>1 DEF FramesNotCounted
  <2> QED
      BY <2>1, <2>3, <2>4, <2>5 DEF Counted
<1>9. CASE WaitForWork \/ RingSignal \/ RingOff \/ RingPost \/ SafetyValve \/ ValveRing
           \/ ValvePosition
  <2>1. /\ UNCHANGED <<m_QueuedFrameCount, pending, epc>>
        /\ gpc \notin {"vsyncSignal", "advance"} /\ gpc' \notin {"vsyncSignal", "advance"}
      BY <1>9 DEF WaitForWork, RingSignal, RingOff, RingPost, SafetyValve, ValveRing,
         ValvePosition, GSMoves, ringVars, frames, eeVars
  <2> QED
      BY <2>1, CountedKept DEF FramesNotCounted, FramesPassed
<1> QED
    BY <1>1, <1>2, <1>3, <1>4, <1>5, <1>6, <1>7, <1>8, <1>9 DEF Next, GSThread

LEMMA BoundedStep ==
  ASSUME IInv, Next
  PROVE  Bounded'
<1>1. /\ m_QueuedFrameCount \in Int /\ VsyncQueueSize \in Nat /\ m_sem_Vsync \in {0, 1}
      /\ Bounded /\ VsyncSignals
    BY MTGSAssumption DEF IInv, TypeOK, MTGSAssumption
<1> USE <1>1 DEF Bounded, InValve, Shown, Waits
<1>2. CASE VsyncCount
    BY <1>2 DEF VsyncCount, EEOnly, gsVars, VsyncSignals
<1>3. CASE VsyncListen
    BY <1>3 DEF VsyncListen, EEMoves, EEOnly, gsVars
<1>4. CASE VsyncWait
    BY <1>4 DEF VsyncWait, EEMoves, EEOnly, gsVars
<1>5. CASE ResetGS
    BY <1>5, WasReset
<1>6. CASE (EEContinues \/ EEBegins) /\ ~VsyncCount /\ ~VsyncListen /\ ~VsyncWait /\ ~ResetGS
  <2>1. /\ UNCHANGED <<m_QueuedFrameCount, m_sem_Vsync>>
        /\ epc \notin {"vsyncListen", "vsyncWait"} /\ epc' \notin {"vsyncListen", "vsyncWait"}
      BY <1>6 DEF EEContinues, EEBegins, GenericStall, SignalEnable, SignalEvent,
         SignalWait, SignalCheck, SpinEvent, Spin, WritePacket, CommitPacket, AnnouncePackets,
         VsyncEvent, WaitForEmpty, WaitForEmptyReturns, Resume, StartPacket, WaitGS, EEMoves,
         frames
  <2>2. UNCHANGED gpc
      BY <1>6, EEOwns
  <2> QED
      BY <2>1, <2>2
<1>7. CASE VsyncSub
    BY <1>7 DEF VsyncSub, GSMoves, eeVars
<1>8. CASE VsyncSignal
    BY <1>8 DEF VsyncSignal, GSMoves, eeVars, VsyncSignals
<1>9. CASE SafetyValve
  <2>1. gpc = "loop" /\ gpc' = "valve" /\ UNCHANGED <<m_QueuedFrameCount, m_sem_Vsync, epc>>
      BY <1>9 DEF SafetyValve, frames, eeVars
  <2>2. pending = <<>>
      BY <1>9, EmptyRing DEF SafetyValve
  <2>3. m_QueuedFrameCount <= 0
    <3>1. FramesInRing = 0
        BY <2>2, CountedIs, VsyncsEmpty
    <3> QED
        BY <3>1, CountedIs
  <2> QED
      BY <2>1, <2>3
<1>10. CASE Execute
    BY <1>10 DEF Execute, frames, eeVars
<1>11. CASE Advance \/ RingSignal \/ RingOff
    BY <1>11 DEF Advance, RingSignal, RingOff, GSMoves, frames, eeVars
<1>12. CASE WaitForWork \/ RingPost \/ ValveRing \/ ValvePosition
    BY <1>12 DEF WaitForWork, RingPost, ValveRing, ValvePosition, GSMoves, frames, eeVars
<1> QED
    BY <1>2, <1>3, <1>4, <1>5, <1>6, <1>7, <1>8, <1>9, <1>10, <1>11, <1>12 DEF Next, GSThread

-----------------------------------------------------------------------------
(* The types *)

LEMMA InitIInv == Init => IInv
<1> SUFFICES ASSUME Init PROVE IInv
    OBVIOUS
<1> USE DEF Init
<1>1. /\ RingBufferSize \in Nat /\ RingBufferSize > 2 /\ TallyLimit \in Nat
      /\ VsyncQueueSize \in Nat
    BY Sizes, MTGSAssumption DEF MTGSAssumption
<1>2. TypeOK
  <2>1. SemEvent!TypeOK
      BY DEF SemEvent!Init, SemEvent!TypeOK
  <2>2. pending \in Seq([packet : Packets, at : 0 .. RingBufferSize - 1])
      OBVIOUS
  <2>3. ring \in [0 .. RingBufferSize - 1 -> Packets \cup {Data}]
      OBVIOUS
  <2>4. /\ m_ReadPos \in 0 .. RingBufferSize - 1 /\ m_WritePos \in 0 .. RingBufferSize - 1
        /\ m_SignalRingPosition \in Int /\ m_sem_OnRingReset \in 0 .. 1
        /\ m_QueuedFrameCount \in Int /\ m_sem_Vsync \in 0 .. 1
        /\ m_CopyDataTally \in 0 .. TallyLimit + 1 /\ ringposinc \in 0 .. RingBufferSize
      BY <1>1
  <2>5. m_SignalRingEnable \in BOOLEAN /\ m_VsyncSignalListener \in BOOLEAN
      OBVIOUS
  <2>6. epc \in EEPCs /\ op \in Sends \cup {"none"} /\ gpc \in GSPCs
      BY DEF EEPCs, GSPCs
  <2> QED
      BY <2>1, <2>2, <2>3, <2>4, <2>5, <2>6 DEF TypeOK
<1>3. Span(<<>>, 0, 0)
    BY DEF Span, Linked, Sorted, Within
<1>4. RingKeeps /\ Placement /\ Written /\ Room /\ Reading
    BY <1>3 DEF RingKeeps, Placement, Written, Room, Reading
<1>5. Awake /\ Quiet /\ RingSignals /\ VsyncSignals
    BY DEF Awake, Quiet, RingSignals, VsyncSignals, InValve, SemEvent!Init
<1>6. Counted
  <2>1. <<>> \in Seq(Placed)
      OBVIOUS
  <2>2. FramesInRing = 0
      BY <2>1, FramesAre, VsyncsEmpty DEF FramesInRing
  <2> QED
      BY <2>2 DEF Counted, FramesNotCounted, FramesPassed
<1>7. Bounded
    BY <1>1 DEF Bounded, Shown, InValve, Waits
<1> QED
    BY <1>2, <1>4, <1>5, <1>6, <1>7 DEF IInv

LEMMA TallyFacts ==
  /\ \A send : Tally(send) \in Nat
  /\ \A n \in Nat : Tallied(n) \in 0 .. TallyLimit + 1
<1>1. /\ VsyncWords - 1 \in Nat /\ BulkTally \in Nat /\ TallyLimit \in Nat
    BY Sizes, MTGSAssumption DEF MTGSAssumption
<1>2. \A send : Tally(send) \in Nat
    BY <1>1 DEF Tally
<1>3. \A n \in Nat : Tallied(n) \in 0 .. TallyLimit + 1
    BY <1>1 DEF Tallied
<1> QED
    BY <1>2, <1>3

LEMMA TypeStep ==
  ASSUME IInv, Next
  PROVE  TypeOK'
<1>1. TypeOK
    BY DEF IInv
<1>2. SemEvent!TypeOK'
  <2>1. SemEvent!TypeOK
      BY <1>1 DEF TypeOK
  <2> QED
      BY <2>1, Steps DEF SemEvent!TypeOK, SemEvent!Notify, SemEvent!GoOn, SemEvent!WakeUp,
         SemEvent!GoIdle, SemEvent!Release, SemEvent!EmptyAtOnce, SemEvent!EmptyWait,
         SemEvent!EmptyReturn, SemEvent!vars, SetEvent, event, GenericStall, SignalEnable,
         SignalEvent, SignalWait, SignalCheck, SpinEvent, Spin, WritePacket, CommitPacket,
         AnnouncePackets, VsyncEvent, VsyncCount, VsyncListen, VsyncWait, WaitForEmpty,
         WaitForEmptyReturns, Resume, StartPacket, WaitGS, ResetGS, WaitForWork, Execute,
         VsyncSub, VsyncSignal, Advance, RingSignal, RingOff, RingPost, SafetyValve,
         ValveRing, ValvePosition
<1>3. epc' \in EEPCs /\ op' \in Sends \cup {"none"}
  <2>1. epc \in EEPCs /\ op \in Sends \cup {"none"}
      BY <1>1 DEF TypeOK
  <2>2. CASE GSThread
      BY <2>1, <2>2, GSOwns
  <2>3. CASE EEContinues
      BY <2>1, <2>3 DEF EEPCs, Sends, EEContinues, GenericStall, SignalEnable, SignalEvent,
         SignalWait, SignalCheck, SpinEvent, Spin, WritePacket, CommitPacket,
         AnnouncePackets, VsyncEvent, VsyncCount, VsyncListen, VsyncWait, WaitForEmpty,
         WaitForEmptyReturns, Resume, EEMoves
  <2>4. CASE EEBegins
      BY <2>1, <2>4 DEF EEPCs, Sends, EEBegins, StartPacket, WaitGS, ResetGS, EEMoves
  <2> QED
      BY <2>2, <2>3, <2>4 DEF Next
<1>4. gpc' \in GSPCs
  <2>1. gpc \in GSPCs
      BY <1>1 DEF TypeOK
  <2>2. CASE GSThread
      BY <2>1, <2>2 DEF GSPCs, GSThread, WaitForWork, Execute, VsyncSub, VsyncSignal,
         Advance, RingSignal, RingOff, RingPost, SafetyValve, ValveRing, ValvePosition, GSMoves
  <2> QED
      BY <2>1, <2>2, EEOwns DEF Next
<1>5. ringposinc' \in 0 .. RingBufferSize
  <2>1. ringposinc \in 0 .. RingBufferSize
      BY <1>1 DEF TypeOK
  <2>2. CASE Execute
      BY <2>2, Executed, FirstPacket
  <2>3. CASE RingSignal
      BY <2>3, Sizes DEF RingSignal
  <2>4. CASE GSThread /\ ~Execute /\ ~RingSignal
      BY <2>1, <2>4 DEF GSThread, WaitForWork, VsyncSub, VsyncSignal, Advance, RingOff,
         RingPost, SafetyValve, ValveRing, ValvePosition, gsVars
  <2> QED
      BY <2>1, <2>2, <2>3, <2>4, EEOwns DEF Next
<1>6. ring' \in [0 .. RingBufferSize - 1 -> Packets \cup {Data}]
  <2>1. CASE WritePacket
      BY <2>1, WritePacketFacts
  <2> QED
      BY <2>1, WordsKept, <1>1, Types
<1>7. /\ m_ReadPos' \in 0 .. RingBufferSize - 1
      /\ m_WritePos' \in 0 .. RingBufferSize - 1
      /\ pending' \in Seq(Placed)
  <2>1. CASE CommitPacket
    <3>1. Distance(m_WritePos, m_ReadPos) + Packet(op).words < RingBufferSize
        BY <2>1, Committed DEF IInv, Room
    <3>2. After(ThePacket) \in 0 .. RingBufferSize - 1
        BY <1>1, <3>1, Types, NewPacket, SpanAppend DEF IInv, Placement
    <3>3. pending' \in Seq(Placed)
        BY <1>1, <2>1, Committed, NewPacket, AppendFacts, Types
    <3> QED
        BY <1>1, <2>1, <3>2, <3>3, Committed, Types
  <2>2. CASE Advance
    <3>1. pending' \in Seq(Placed)
        BY <1>1, <2>2, Passed, TailFacts, Types
    <3> QED
        BY <1>1, <2>2, <3>1, Passed, Types
  <2>3. CASE ResetGS
      BY <1>1, <2>3, WasReset, Types
  <2> QED
      BY <2>1, <2>2, <2>3, RingKept, <1>1, Types
<1>8. /\ m_SignalRingEnable' \in BOOLEAN /\ m_SignalRingPosition' \in Int
      /\ m_sem_OnRingReset' \in 0 .. 1
  <2>1. /\ m_SignalRingEnable \in BOOLEAN /\ m_SignalRingPosition \in Int
        /\ m_sem_OnRingReset \in 0 .. 1 /\ ringposinc \in Int
      BY <1>1, Sizes DEF TypeOK
  <2>2. CASE GenericStall
    <3>1. SomeDone(m_ReadPos, Packet(op).words) \in Int
      <4>1. FreeRoom(m_ReadPos) \in Int /\ Packet(op).words \in Int /\ RingBufferSize \in Int
        <5>1. Distance(m_WritePos, m_ReadPos) \in Nat /\ Packet(op).words \in Nat
            BY <1>1, Types, DistanceType, NewPacket
        <5>2. FreeRoom(m_ReadPos) = RingBufferSize - Distance(m_WritePos, m_ReadPos)
            BY <1>1, RoomIs
        <5> QED
            BY <5>1, <5>2, Sizes
      <4> HIDE DEF FreeRoom
      <4> QED
          BY <4>1 DEF SomeDone
    <3> QED
        BY <2>1, <2>2, <3>1 DEF GenericStall
  <2>3. CASE SignalWait
      BY <2>1, <2>3 DEF SignalWait
  <2>4. CASE RingPost
    <3>1. m_sem_OnRingReset = 0
        BY <2>4 DEF RingPost, GSMoves, IInv, RingSignals
    <3> QED
        BY <2>1, <2>4, <3>1 DEF RingPost
  <2>5. CASE RingSignal
      BY <2>1, <2>5 DEF RingSignal
  <2>6. CASE SignalEnable \/ RingOff \/ ValveRing \/ ValvePosition
    <3>1. /\ m_SignalRingPosition' = m_SignalRingPosition \/ m_SignalRingPosition' = 0
          /\ m_sem_OnRingReset' = m_sem_OnRingReset
        BY <2>6 DEF SignalEnable, RingOff, ValveRing, ValvePosition
    <3>2. \/ m_SignalRingEnable' = m_SignalRingEnable
          \/ m_SignalRingEnable' = TRUE
          \/ m_SignalRingEnable' = FALSE
        BY <2>6 DEF SignalEnable, RingOff, ValveRing, ValvePosition
    <3>3. m_SignalRingPosition' \in Int /\ m_sem_OnRingReset' \in 0 .. 1
        BY <2>1, <3>1
    <3> QED
        BY <2>1, <3>2, <3>3
  <2>7. CASE ~GenericStall /\ ~SignalWait /\ ~RingPost /\ ~RingSignal /\ ~SignalEnable
             /\ ~RingOff /\ ~ValveRing /\ ~ValvePosition
    <3>1. UNCHANGED signals
        BY <2>7, Steps DEF SignalEvent, SignalCheck, SpinEvent, Spin, WritePacket, CommitPacket,
           AnnouncePackets, VsyncEvent, VsyncCount, VsyncListen, VsyncWait, WaitForEmpty,
           WaitForEmptyReturns, Resume, StartPacket, WaitGS, ResetGS, WaitForWork, Execute,
           VsyncSub, VsyncSignal, Advance, SafetyValve, signals
    <3> QED
        BY <2>1, <3>1 DEF signals
  <2> QED
      BY <2>2, <2>3, <2>4, <2>5, <2>6, <2>7
<1>9. /\ m_QueuedFrameCount' \in Int /\ m_VsyncSignalListener' \in BOOLEAN
      /\ m_sem_Vsync' \in 0 .. 1
  <2>1. /\ m_QueuedFrameCount \in Int /\ m_VsyncSignalListener \in BOOLEAN
        /\ m_sem_Vsync \in 0 .. 1
      BY <1>1 DEF TypeOK
  <2>2. CASE VsyncSignal
    <3>1. m_VsyncSignalListener => m_sem_Vsync = 0
        BY DEF IInv, VsyncSignals
    <3>2. /\ m_QueuedFrameCount' = m_QueuedFrameCount
          /\ m_sem_Vsync' = IF m_VsyncSignalListener THEN m_sem_Vsync + 1 ELSE m_sem_Vsync
        BY <2>2 DEF VsyncSignal
    <3>3. m_VsyncSignalListener' = FALSE
        BY <2>2 DEF VsyncSignal
    <3>4. m_sem_Vsync' \in 0 .. 1
        BY <2>1, <3>1, <3>2
    <3> QED
        BY <2>1, <3>2, <3>3, <3>4
  <2>3. CASE VsyncWait
      BY <2>1, <2>3 DEF VsyncWait
  <2>4. CASE VsyncCount \/ VsyncSub \/ VsyncListen
    <3>1. m_QueuedFrameCount' \in Int /\ m_sem_Vsync' = m_sem_Vsync
        BY <2>1, <2>4 DEF VsyncCount, VsyncSub, VsyncListen
    <3>2. m_VsyncSignalListener' = m_VsyncSignalListener \/ m_VsyncSignalListener' = TRUE
        BY <2>4 DEF VsyncCount, VsyncSub, VsyncListen
    <3> QED
        BY <2>1, <3>1, <3>2
  <2>5. CASE ResetGS
      BY <2>1, <2>5, WasReset
  <2>6. CASE ~VsyncSignal /\ ~VsyncWait /\ ~VsyncCount /\ ~VsyncSub /\ ~VsyncListen /\ ~ResetGS
    <3>1. UNCHANGED frames
        BY <2>6, Steps DEF GenericStall, SignalEnable, SignalEvent, SignalWait, SignalCheck,
           SpinEvent, Spin, WritePacket, CommitPacket, AnnouncePackets, VsyncEvent,
           WaitForEmpty, WaitForEmptyReturns, Resume, StartPacket, WaitGS, WaitForWork,
           Execute, Advance, RingSignal, RingOff, RingPost, SafetyValve, ValveRing,
           ValvePosition, frames
    <3> QED
        BY <2>1, <3>1 DEF frames
  <2> QED
      BY <2>2, <2>3, <2>4, <2>5, <2>6
<1>10. m_CopyDataTally' \in 0 .. TallyLimit + 1
  <2>1. m_CopyDataTally \in 0 .. TallyLimit + 1 /\ m_CopyDataTally \in Nat /\ TallyLimit \in Nat
      BY <1>1, MTGSAssumption DEF TypeOK, MTGSAssumption
  <2>2. CASE CommitPacket
    <3>1. m_CopyDataTally + Tally(op) \in Nat
        BY <2>1, TallyFacts
    <3> QED
        BY <2>2, <3>1, TallyFacts DEF CommitPacket
  <2>3. CASE SignalEvent \/ SpinEvent \/ AnnouncePackets \/ VsyncEvent \/ WaitGS
      BY <2>1, <2>3 DEF SignalEvent, SpinEvent, AnnouncePackets, VsyncEvent, WaitGS, SetEvent
  <2>4. CASE ~CommitPacket /\ ~SignalEvent /\ ~SpinEvent /\ ~AnnouncePackets /\ ~VsyncEvent
             /\ ~WaitGS
    <3>1. UNCHANGED m_CopyDataTally
        BY <2>4, Steps DEF GenericStall, SignalEnable, SignalWait, SignalCheck, Spin,
           WritePacket, VsyncCount, VsyncListen, VsyncWait, WaitForEmpty, WaitForEmptyReturns,
           Resume, StartPacket, ResetGS, WaitForWork, Execute, VsyncSub, VsyncSignal, Advance,
           RingSignal, RingOff, RingPost, SafetyValve, ValveRing, ValvePosition, eeVars
    <3> QED
        BY <2>1, <3>1
  <2> QED
      BY <2>2, <2>3, <2>4
<1> QED
    BY <1>2, <1>3, <1>4, <1>5, <1>6, <1>7, <1>8, <1>9, <1>10 DEF TypeOK, Placed

-----------------------------------------------------------------------------
LEMMA StepIInv ==
  ASSUME IInv, [Next]_vars
  PROVE  IInv'
<1>1. CASE Next
    BY <1>1, TypeStep, RingKeepsStep, PlacementStep, WrittenStep, RoomStep, ReadingStep,
       EventStep, RingSignalsStep, VsyncSignalsStep, CountedStep, BoundedStep DEF IInv
<1>2. CASE UNCHANGED vars
  <2>1. /\ UNCHANGED <<m_ReadPos, m_WritePos, ring, m_SignalRingEnable, m_SignalRingPosition>>
        /\ UNCHANGED <<m_sem_OnRingReset, m_QueuedFrameCount, m_VsyncSignalListener>>
        /\ UNCHANGED <<m_sem_Vsync, m_CopyDataTally, notified, phase, waiter, epc, op, gpc>>
        /\ UNCHANGED <<ringposinc, pending>>
      BY <1>2 DEF vars, ringVars, signals, frames, event, eeVars, gsVars
  <2>2. TypeOK' /\ RingKeeps' /\ Placement' /\ Written' /\ Room' /\ Reading'
      BY <2>1 DEF IInv, TypeOK, SemEvent!TypeOK, RingKeeps, Placement, Written, ThePacket,
         Packet, Room, Distance, Reading
  <2>3. Awake' /\ Quiet' /\ RingSignals' /\ VsyncSignals'
      BY <2>1 DEF IInv, Awake, Quiet, InValve, RingSignals, Stalled, VsyncSignals
  <2>4. Counted' /\ Bounded'
      BY <2>1 DEF IInv, Counted, FramesNotCounted, FramesInRing, FramesPassed, Bounded,
         Shown, Waits, InValve
  <2> QED
      BY <2>2, <2>3, <2>4 DEF IInv
<1> QED
    BY <1>1, <1>2

THEOREM Invariance == Spec => []IInv
<1>1. Init => IInv
    BY InitIInv
<1>2. IInv /\ [Next]_vars => IInv'
    BY StepIInv
<1> QED
    BY <1>1, <1>2, PTL DEF Spec

-----------------------------------------------------------------------------
(* The results *)

\* Every variable keeps its type: above all, neither semaphore of the EE ever
\* holds two tokens, and neither position leaves the ring.
THEOREM TypeCorrect == Spec => []TypeOK
<1>1. IInv => TypeOK
    BY DEF IInv
<1> QED
    BY <1>1, Invariance, PTL

\* The ring never looks empty while it holds a packet, and no packet is
\* overwritten before the GS thread has executed it (GenericStall, MTGS.cpp).
THEOREM PacketsAreKept == Spec => []RingHoldsPending
<1>1. IInv => RingHoldsPending
  <2> SUFFICES ASSUME IInv PROVE RingHoldsPending
      OBVIOUS
  <2>1. DOMAIN pending = 1 .. Len(pending)
      BY SeqFacts, Types DEF IInv
  <2>2. m_ReadPos = m_WritePos => pending = <<>>
      BY EmptyRing
  <2> QED
      BY <2>1, <2>2 DEF IInv, RingKeeps, Holds, Placement, Span, Linked, RingHoldsPending
<1> QED
    BY <1>1, Invariance, PTL

\* The assertions of GenericStall hold: a stall finds no signal of an earlier
\* one armed, posted or on its way.
THEOREM StallsAreClean == Spec => []StallIsClean
<1>1. IInv => StallIsClean
  <2> SUFFICES ASSUME IInv PROVE StallIsClean
      OBVIOUS
  <2>1. /\ m_SignalRingPosition \in Int /\ m_sem_OnRingReset \in {0, 1}
        /\ RingSignals
      BY DEF IInv, TypeOK
  <2> QED
      BY <2>1 DEF RingSignals, Stalled, StallIsClean
<1> QED
    BY <1>1, Invariance, PTL

\* The frame counter never drifts from the vsyncs in the ring, and no more than
\* VsyncQueueSize + 2 frames are ever queued (PostVsyncStart, MTGS.cpp).
THEOREM FramesAreCounted == Spec => []FramesCounted
<1>1. IInv => FramesCounted
  <2> SUFFICES ASSUME IInv PROVE FramesCounted
      OBVIOUS
  <2>1. VsyncQueueSize \in Nat
      BY MTGSAssumption DEF MTGSAssumption
  <2>2. m_QueuedFrameCount + FramesNotCounted <= VsyncQueueSize + 2
      BY <2>1, CountedIs DEF IInv, Bounded, Shown, Waits, FramesNotCounted
  <2> QED
      BY <2>2 DEF IInv, Counted, FramesCounted
<1> QED
    BY <1>1, Invariance, PTL

\* WaitGS returns only when every packet was executed and the GS thread sleeps.
THEOREM WaitGSIsDone == Spec => []WaitGSDrains
<1>1. IInv => WaitGSDrains
    BY Drained DEF WaitGSDrains
<1> QED
    BY <1>1, Invariance, PTL

-----------------------------------------------------------------------------
(* The ring is a queue *)

\* The packets alone, without their places.
LEMMA PacketsOfFacts ==
  ASSUME NEW q \in Seq(Placed)
  PROVE  /\ PacketsOf(q) \in Seq(Packets) /\ Len(PacketsOf(q)) = Len(q)
         /\ \A k \in 1 .. Len(q) : PacketsOf(q)[k] = q[k].packet
         /\ PacketsOf(q) = <<>> <=> q = <<>>
<1>1. /\ DOMAIN q = 1 .. Len(q) /\ Len(q) \in Nat
      /\ \A k \in 1 .. Len(q) : q[k].packet \in Packets
    BY SeqFacts, PlacedFacts
<1>2. /\ PacketsOf(q) \in [1 .. Len(q) -> Packets]
      /\ \A k \in 1 .. Len(q) : PacketsOf(q)[k] = q[k].packet
    BY <1>1 DEF PacketsOf
<1>3. PacketsOf(q) \in Seq(Packets) /\ Len(PacketsOf(q)) = Len(q)
    BY <1>1, <1>2
<1> QED
    BY <1>1, <1>2, <1>3, EmptySeq, SeqFacts

LEMMA PacketsOfAppend ==
  ASSUME NEW q \in Seq(Placed), NEW p \in Placed
  PROVE  PacketsOf(Append(q, p)) = Append(PacketsOf(q), p.packet)
<1>1. /\ Append(q, p) \in Seq(Placed) /\ Len(Append(q, p)) = Len(q) + 1 /\ Len(q) \in Nat
      /\ \A k \in 1 .. Len(q) : Append(q, p)[k] = q[k]
      /\ Append(q, p)[Len(q) + 1] = p
    BY AppendFacts, SeqFacts
<1>2. /\ PacketsOf(Append(q, p)) \in Seq(Packets) /\ Len(PacketsOf(Append(q, p))) = Len(q) + 1
      /\ \A k \in 1 .. Len(q) + 1 : PacketsOf(Append(q, p))[k] = Append(q, p)[k].packet
    BY <1>1, PacketsOfFacts
<1>3. /\ PacketsOf(q) \in Seq(Packets) /\ Len(PacketsOf(q)) = Len(q) /\ p.packet \in Packets
      /\ \A k \in 1 .. Len(q) : PacketsOf(q)[k] = q[k].packet
    BY PacketsOfFacts, PlacedFacts
<1> DEFINE l == PacketsOf(q)
           m == PacketsOf(Append(q, p))
           last == p.packet
<1> HIDE DEF l, m, last
<1>4. /\ Append(l, last) \in Seq(Packets)
      /\ Len(Append(l, last)) = Len(q) + 1
      /\ \A k \in 1 .. Len(q) : Append(l, last)[k] = q[k].packet
      /\ Append(l, last)[Len(q) + 1] = last
  <2>1. /\ l \in Seq(Packets) /\ Len(l) = Len(q) /\ last \in Packets /\ Len(q) \in Nat
        /\ \A k \in 1 .. Len(q) : l[k] = q[k].packet
      BY <1>1, <1>3 DEF l, last
  <2> QED
      BY <2>1, AppendProperties
<1>5. \A k \in 1 .. Len(q) + 1 : m[k] = Append(l, last)[k]
  <2> TAKE k \in 1 .. Len(q) + 1
  <2>1. m[k] = Append(q, p)[k].packet
      BY <1>2 DEF m
  <2>2. k = Len(q) + 1 \/ k \in 1 .. Len(q)
    <3>1. Len(q) \in Nat
        BY <1>1
    <3> QED
        BY <3>1
  <2>3. CASE k = Len(q) + 1
      BY <2>1, <2>3, <1>1, <1>4 DEF last
  <2>4. CASE k \in 1 .. Len(q)
      BY <2>1, <2>4, <1>1, <1>4
  <2> QED
      BY <2>2, <2>3, <2>4
<1>6. m = Append(l, last)
  <2>1. m \in Seq(Packets) /\ Len(m) = Len(q) + 1
      BY <1>2 DEF m
  <2> QED
      BY <2>1, <1>4, <1>5, SeqEqual
<1> QED
    BY <1>6 DEF l, m, last

LEMMA PacketsOfTail ==
  ASSUME NEW q \in Seq(Placed), q # <<>>
  PROVE  PacketsOf(Tail(q)) = Tail(PacketsOf(q)) /\ Head(PacketsOf(q)) = q[1].packet
<1>1. /\ Tail(q) \in Seq(Placed) /\ Len(Tail(q)) = Len(q) - 1 /\ Len(q) >= 1 /\ Len(q) \in Nat
      /\ \A k \in 1 .. Len(Tail(q)) : Tail(q)[k] = q[k + 1]
    BY SeqFacts, HeadTailProperties
<1>2. /\ PacketsOf(Tail(q)) \in Seq(Packets) /\ Len(PacketsOf(Tail(q))) = Len(q) - 1
      /\ \A k \in 1 .. Len(q) - 1 : PacketsOf(Tail(q))[k] = q[k + 1].packet
  <2> DEFINE t == Tail(q)
  <2>1. /\ t \in Seq(Placed) /\ Len(t) = Len(q) - 1
        /\ \A k \in 1 .. Len(t) : t[k] = q[k + 1]
      BY <1>1
  <2> HIDE DEF t
  <2>2. /\ PacketsOf(t) \in Seq(Packets) /\ Len(PacketsOf(t)) = Len(t)
        /\ \A k \in 1 .. Len(t) : PacketsOf(t)[k] = t[k].packet
      BY <2>1, PacketsOfFacts
  <2> QED
      BY <2>1, <2>2, Zenon DEF t
<1>3. /\ PacketsOf(q) \in Seq(Packets) /\ Len(PacketsOf(q)) = Len(q) /\ PacketsOf(q) # <<>>
      /\ \A k \in 1 .. Len(q) : PacketsOf(q)[k] = q[k].packet
    BY PacketsOfFacts
<1>4. /\ Tail(PacketsOf(q)) \in Seq(Packets) /\ Len(Tail(PacketsOf(q))) = Len(q) - 1
      /\ \A k \in 1 .. Len(q) - 1 : Tail(PacketsOf(q))[k] = q[k + 1].packet
    BY <1>1, <1>3, HeadTailProperties
<1>5. Head(PacketsOf(q)) = q[1].packet
    BY <1>1, <1>3
<1> QED
    BY <1>2, <1>4, <1>5, SeqEqual

\* While the GS thread has a packet in hand, the ring has it unchanged at its place; and
\* when WaitGS has returned, it has none, and nothing is left.
InHand == gpc \in {"vsyncSub", "vsyncSignal", "advance"}

TakenIsFirst ==
  /\ InHand => pending # <<>> /\ Taken = <<pending[1].packet>> /\ Taken # <<>>
  /\ ~InHand => Taken = <<>>
  /\ epc = "drained" => pending = <<>> /\ gpc = "wait"

LEMMA Mapping == IInv => TakenIsFirst
<1> SUFFICES ASSUME IInv PROVE TakenIsFirst
    OBVIOUS
<1>1. epc = "drained" => pending = <<>> /\ gpc = "wait"
    BY Drained
<1>2. CASE InHand
  <2>1. pending # <<>>
      BY <1>2 DEF IInv, Reading, InHand
  <2>2. ring[m_ReadPos] = pending[1].packet
      BY <2>1, FirstPacket
  <2> QED
      BY <1>1, <1>2, <2>1, <2>2 DEF Taken, TakenIsFirst, InHand
<1>3. CASE ~InHand
    BY <1>1, <1>3 DEF Taken, TakenIsFirst, InHand
<1> QED
    BY <1>2, <1>3

LEMMA QueueInit ==
  ASSUME Init
  PROVE  Queue!Init
<1>1. Sent = <<>>
    BY DEF Init, Sent, PacketsOf
<1> QED
    BY <1>1 DEF Init, Queue!Init, Taken, Worker, Client

\* A step that the queue does not see.
LEMMA Unseen ==
  ASSUME TakenIsFirst, TakenIsFirst', pending' = pending, InHand' <=> InHand,
         Worker' = Worker, Client' = Client
  PROVE  UNCHANGED Queue!vars
<1>1. Sent' = Sent
    BY DEF Sent
<1>2. Taken' = Taken
    BY DEF TakenIsFirst
<1> QED
    BY <1>1, <1>2 DEF Queue!vars

\* Every step sends a packet, takes one, is done with one, puts the GS thread to sleep or
\* wakes it, returns from WaitGS or goes on after it; or the queue does not see it.
LEMMA QueueStep ==
  ASSUME IInv, [Next]_vars
  PROVE  [Queue!Next]_(Queue!vars)
<1>1. IInv'
    BY StepIInv
<1>2. TakenIsFirst
    BY Mapping
<1>3. TakenIsFirst'
    BY <1>1, Mapping, PTL
<1>4. pending \in Seq(Placed)
    BY Types DEF IInv
<1>5. /\ Sent = <<>> <=> pending = <<>>
      /\ \A p \in Placed : pending' = Append(pending, p) => Sent' = Append(Sent, p.packet)
      /\ pending # <<>> => Head(Sent) = pending[1].packet
      /\ pending # <<>> /\ pending' = Tail(pending) => Sent' = Tail(Sent)
      /\ pending' = pending => Sent' = Sent
    BY <1>4, PacketsOfFacts, PacketsOfAppend, PacketsOfTail DEF Sent
<1>6. CASE CommitPacket
  <2>1. /\ pending' = Append(pending, ThePacket) /\ ThePacket \in Placed
        /\ gpc' = gpc /\ ring' = ring /\ m_ReadPos' = m_ReadPos
        /\ epc = "commit" /\ epc' \in {"vsyncEvent", "stall", "event", "idle"}
      BY <1>6, Committed, NewPacket DEF IInv
  <2>2. \E command \in Packets : Sent' = Append(Sent, command)
      BY <2>1, <1>5, PlacedFacts
  <2>3. Taken' = Taken /\ Worker' = Worker /\ Client = "sending" /\ Client' = "sending"
      BY <2>1 DEF Taken, Worker, Client
  <2> QED
      BY <2>2, <2>3 DEF Queue!Send, Queue!Next
<1>7. CASE WaitForEmpty \/ WaitForEmptyReturns
  <2>1. gpc' = gpc /\ pending' = pending /\ epc # "drained"
      BY <1>7 DEF WaitForEmpty, WaitForEmptyReturns, EEMoves, EEOnly, gsVars, ringVars
  <2>2. CASE epc' # "drained"
    <3>1. Worker' = Worker /\ Client' = Client
        BY <2>1, <2>2 DEF Worker, Client
    <3>2. InHand' <=> InHand
        BY <2>1 DEF InHand
    <3> QED
        BY <2>1, <3>1, <3>2, <1>2, <1>3, Unseen
  <2>3. CASE epc' = "drained"
    <3>1. pending = <<>> /\ gpc = "wait"
        BY <1>3, <2>1, <2>3 DEF TakenIsFirst
    <3>2. /\ Sent = <<>> /\ Sent' = Sent /\ Taken = <<>> /\ Taken' = <<>>
          /\ Worker = "asleep" /\ Worker' = "asleep"
        BY <3>1, <2>1, <1>5 DEF Worker, Taken
    <3> QED
        BY <2>1, <2>3, <3>2 DEF Client, Queue!Drain, Queue!Next
  <2> QED
      BY <2>2, <2>3
<1>8. CASE Resume \/ ResetGS
  <2>1. epc = "drained" /\ epc' # "drained" /\ gpc' = gpc /\ pending' \in {pending, <<>>}
      BY <1>8 DEF Resume, ResetGS, EEMoves, EEOnly, gsVars, ringVars
  <2>2. pending = <<>> /\ gpc = "wait"
      BY <1>2, <2>1 DEF TakenIsFirst
  <2>3. pending' = pending
      BY <2>1, <2>2
  <2>4. Sent' = Sent /\ Taken' = Taken /\ Worker' = Worker
      BY <2>1, <2>2, <2>3, <1>5 DEF Worker, Taken
  <2> QED
      BY <2>1, <2>4 DEF Client, Queue!GoOn, Queue!Next
<1>9. CASE WaitForWork
  <2>1. /\ gpc = "wait" /\ UNCHANGED <<epc, pending>>
        /\ \/ gpc' = "wait"
           \/ gpc' = "loop" /\ notified
      BY <1>9 DEF WaitForWork, eeVars, ringVars, SemEvent!GoOn, SemEvent!WakeUp
  <2>2. CASE gpc' = "wait"
      BY <2>1, <2>2, <1>2, <1>3, Unseen DEF Worker, Client, InHand
  <2>3. CASE gpc' = "loop" /\ notified
    <3>1. Client # "drained"
        BY <2>3 DEF IInv, Quiet, Client
    <3>2. Sent' = Sent /\ Taken' = Taken /\ Client' = Client /\ Worker = "asleep"
        BY <2>1, <2>3, <1>5 DEF Client, Worker, Taken
    <3> QED
        BY <2>3, <3>1, <3>2 DEF Worker, Queue!Wake, Queue!Next
  <2> QED
      BY <2>1, <2>2, <2>3
<1>10. CASE Execute
  <2>1. /\ pending # <<>> /\ gpc = "loop" /\ gpc' \in {"vsyncSub", "advance"}
        /\ UNCHANGED <<pending, epc>>
      BY <1>10, Executed
  <2>2. Taken = <<>> /\ Taken' = <<pending[1].packet>>
    <3>1. ~InHand /\ InHand'
        BY <2>1 DEF InHand
    <3> QED
        BY <2>1, <3>1, <1>2, <1>3 DEF TakenIsFirst
  <2>3. Sent # <<>> /\ Taken' = <<Head(Sent)>> /\ Sent' = Sent
      BY <2>1, <2>2, <1>5
  <2>4. Worker = "awake" /\ Worker' = "awake" /\ Client' = Client
      BY <2>1 DEF Worker, Client
  <2> QED
      BY <2>2, <2>3, <2>4 DEF Queue!Take, Queue!Next
<1>11. CASE Advance
  <2>1. gpc = "advance" /\ gpc' = "ringSignal" /\ UNCHANGED epc
        /\ pending # <<>> /\ pending' = Tail(pending)
      BY <1>11, Passed
  <2>2. Taken # <<>> /\ Taken' = <<>>
    <3>1. InHand /\ ~InHand'
        BY <2>1 DEF InHand
    <3> QED
        BY <3>1, <1>2, <1>3 DEF TakenIsFirst
  <2>3. Sent' = Tail(Sent)
      BY <2>1, <1>5
  <2>4. Worker = "awake" /\ Worker' = "awake" /\ Client' = Client
      BY <2>1 DEF Worker, Client
  <2> QED
      BY <2>2, <2>3, <2>4 DEF Queue!Done, Queue!Next
<1>12. CASE SafetyValve
  <2>1. gpc = "loop" /\ gpc' = "valve" /\ UNCHANGED <<epc, pending>> /\ pending = <<>>
      BY <1>12, EmptyRing DEF SafetyValve, eeVars, ringVars
  <2>2. Sent = <<>> /\ Sent' = Sent /\ Taken = <<>> /\ Taken' = <<>>
      BY <2>1, <1>5 DEF Taken
  <2> QED
      BY <2>1, <2>2 DEF Worker, Client, Queue!Sleep, Queue!Next
<1>13. CASE \/ VsyncSub \/ VsyncSignal \/ RingSignal \/ RingOff \/ RingPost
            \/ ValveRing \/ ValvePosition
  <2>1. pending' = pending /\ epc' = epc
      BY <1>13 DEF VsyncSub, VsyncSignal, RingSignal, RingOff, RingPost, ValveRing,
         ValvePosition, ringVars, eeVars
  <2>2. \/ gpc \in {"vsyncSub", "vsyncSignal"} /\ gpc' \in {"vsyncSignal", "advance"}
        \/ gpc \in {"ringSignal", "ringOff", "ringPost"} /\ gpc' \in {"ringOff", "ringPost", "loop"}
        \/ /\ gpc \in {"valve", "valvePosition", "valvePost", "valveVsync"}
           /\ gpc' \in {"valvePosition", "valvePost", "valveVsync", "wait"}
      BY <1>13 DEF VsyncSub, VsyncSignal, RingSignal, RingOff, RingPost, ValveRing,
         ValvePosition, GSMoves
  <2>3. InHand' <=> InHand
      BY <2>2 DEF InHand
  <2>4. Worker' = Worker /\ Client' = Client
      BY <2>1, <2>2 DEF Worker, Client
  <2> QED
      BY <2>1, <2>3, <2>4, <1>2, <1>3, Unseen
<1>14. CASE \/ GenericStall \/ SignalEnable \/ SignalEvent \/ SignalWait \/ SignalCheck
            \/ SpinEvent \/ Spin \/ WritePacket \/ AnnouncePackets \/ VsyncEvent
            \/ VsyncCount \/ VsyncListen \/ VsyncWait \/ StartPacket \/ WaitGS
  <2>1. gpc' = gpc /\ pending' = pending
      BY <1>14, EEOwns DEF EEContinues, EEBegins, GenericStall, SignalEnable, SignalEvent,
         SignalWait, SignalCheck, SpinEvent, Spin, WritePacket, AnnouncePackets, VsyncEvent,
         VsyncCount, VsyncListen, VsyncWait, StartPacket, WaitGS, ringVars
  <2>2. epc # "drained" /\ epc' # "drained"
      BY <1>14 DEF GenericStall, SignalEnable, SignalEvent, SignalWait, SignalCheck, SpinEvent,
         Spin, WritePacket, AnnouncePackets, VsyncEvent, VsyncCount, VsyncListen, VsyncWait,
         StartPacket, WaitGS, EEMoves
  <2> QED
      BY <2>1, <2>2, <1>2, <1>3, Unseen DEF InHand, Worker, Client
<1>15. CASE UNCHANGED vars
  <2>1. UNCHANGED <<gpc, epc, pending>>
      BY <1>15 DEF vars, ringVars, eeVars, gsVars
  <2> QED
      BY <2>1, <1>2, <1>3, Unseen DEF InHand, Worker, Client
<1> QED
    BY <1>6, <1>7, <1>8, <1>9, <1>10, <1>11, <1>12, <1>13, <1>14, <1>15, Steps

\* The GS thread's ring (MTGS.cpp) is a queue: every packet is executed once, in order and
\* as it was written, however the ring wraps and the EE stalls, and WaitGS returns to a ring
\* that is the EE's alone.
THEOREM Refinement == Spec => ImplementsQueue
<1>1. Init => Queue!Init
    BY QueueInit
<1>2. IInv /\ [Next]_vars => [Queue!Next]_(Queue!vars)
    BY QueueStep
<1> QED
    BY <1>1, <1>2, Invariance, PTL DEF Spec, ImplementsQueue, Queue!Spec
-----------------------------------------------------------------------------
(* Nobody waits for a sleeper *)

\* The GS thread sleeps, or has found the ring empty and is about to.
Resting == gpc = "wait" \/ InValve

\* Before an EE begins to spin it has notified the GS thread of what is in the ring.
SpinIsSeen == epc = "spin" /\ pending # <<>> /\ Resting => notified

\* A stalled EE has its signal armed, on its way or posted.
SignalIsDue ==
  Stalled => \/ m_SignalRingEnable
             \/ gpc \in {"ringPost", "valvePosition", "valvePost"}
             \/ m_sem_OnRingReset = 1

\* When the GS thread is past the valve with the signal armed, it will come back to it.
ArmedIsSeen ==
  epc = "signalWait" /\ m_SignalRingEnable /\ gpc \in {"wait", "valveVsync"} => notified

\* WaitGS is in the semaphore, whose worker is still to go idle.
WaiterIsDue ==
  /\ epc = "waitingEmpty" <=> waiter # "none"
  /\ waiter = "waiting" => phase = "running" \/ notified

WInv == SpinIsSeen /\ SignalIsDue /\ ArmedIsSeen /\ WaiterIsDue

LEMMA InitWInv == Init => WInv
  BY DEF Init, SemEvent!Init, WInv, SpinIsSeen, SignalIsDue, ArmedIsSeen, WaiterIsDue, Stalled

\* Where the waits keep their state.
LEMMA WaitTypes ==
  ASSUME IInv
  PROVE  /\ phase \in {"running", "idle"} /\ notified \in BOOLEAN
         /\ waiter \in {"none", "waiting", "released"}
         /\ m_SignalRingEnable \in BOOLEAN /\ m_sem_OnRingReset \in {0, 1}
  BY DEF IInv, TypeOK, Awake, SemEvent!TypeOK

LEMMA SpinIsSeenStep ==
  ASSUME IInv, WInv, Next
  PROVE  SpinIsSeen'
<1> USE DEF SpinIsSeen, Resting, InValve
<1>1. SpinIsSeen /\ notified \in BOOLEAN /\ phase # "dead"
    BY WaitTypes DEF WInv
<1>2. CASE EEContinues \/ EEBegins
  <2>1. CASE SpinEvent
    <3>1. notified'
        BY <2>1, <1>1 DEF SpinEvent, SetEvent, SemEvent!Notify
    <3> QED
        BY <3>1
  <2>2. CASE ~SpinEvent
    <3>1. epc' # "spin"
        BY <1>2, <2>2 DEF EEContinues, EEBegins, GenericStall, SignalEnable, SignalEvent,
           SignalWait, SignalCheck, Spin, WritePacket, CommitPacket, AnnouncePackets,
           VsyncEvent, VsyncCount, VsyncListen, VsyncWait, WaitForEmpty,
           WaitForEmptyReturns, Resume, StartPacket, WaitGS, ResetGS, EEMoves
    <3> QED
        BY <3>1
  <2> QED
      BY <2>1, <2>2
<1>3. CASE WaitForWork
    BY <1>1, <1>3 DEF WaitForWork, SemEvent!GoOn, SemEvent!WakeUp, SemEvent!GoIdle,
       ringVars, eeVars
<1>4. CASE Advance
    BY <1>4 DEF Advance, GSMoves
<1>5. CASE SafetyValve
  <2>1. pending' = <<>>
      BY <1>5, EmptyRing DEF SafetyValve, ringVars
  <2> QED
      BY <2>1
<1>6. CASE Execute \/ VsyncSub \/ VsyncSignal \/ RingSignal \/ RingOff \/ RingPost
           \/ ValveRing \/ ValvePosition
    BY <1>1, <1>6 DEF Execute, VsyncSub, VsyncSignal, RingSignal, RingOff, RingPost, ValveRing,
       ValvePosition, GSMoves, ringVars, eeVars, event
<1> QED
    BY <1>2, <1>3, <1>4, <1>5, <1>6 DEF Next, GSThread

LEMMA SignalIsDueStep ==
  ASSUME IInv, WInv, Next
  PROVE  SignalIsDue'
<1> USE DEF SignalIsDue, Stalled
<1>1. /\ SignalIsDue /\ RingSignals
      /\ m_SignalRingEnable \in BOOLEAN /\ m_sem_OnRingReset \in {0, 1}
    BY WaitTypes DEF WInv, IInv
<1>2. CASE EEContinues \/ EEBegins
  <2>1. CASE SignalEnable
      BY <2>1 DEF SignalEnable
  <2>2. CASE SignalEvent
      BY <1>1, <2>2 DEF SignalEvent, EEMoves, EEOnly, gsVars, signals
  <2>3. CASE ~SignalEnable /\ ~SignalEvent
    <3>1. epc' \notin {"signalEvent", "signalWait"}
        BY <1>2, <2>3 DEF EEContinues, EEBegins, GenericStall, SignalWait, SignalCheck,
           SpinEvent, Spin, WritePacket, CommitPacket, AnnouncePackets, VsyncEvent,
           VsyncCount, VsyncListen, VsyncWait, WaitForEmpty, WaitForEmptyReturns, Resume,
           StartPacket, WaitGS, ResetGS, EEMoves
    <3> QED
        BY <3>1
  <2> QED
      BY <2>1, <2>2, <2>3
<1>3. CASE RingOff \/ ValvePosition
    BY <1>1, <1>3 DEF RingOff, ValvePosition, GSMoves
<1>4. CASE RingPost
    BY <1>1, <1>4 DEF RingPost, GSMoves, eeVars, RingSignals
<1>5. CASE ValveRing
    BY <1>1, <1>5 DEF ValveRing, eeVars
<1>6. CASE WaitForWork \/ Execute \/ VsyncSub \/ VsyncSignal \/ Advance \/ SafetyValve
    BY <1>1, <1>6 DEF WaitForWork, Execute, VsyncSub, VsyncSignal, Advance, SafetyValve,
       GSMoves, eeVars, signals
<1>7. CASE RingSignal
    BY <1>1, <1>7 DEF RingSignal, eeVars
<1> QED
    BY <1>2, <1>3, <1>4, <1>5, <1>6, <1>7 DEF Next, GSThread

LEMMA ArmedIsSeenStep ==
  ASSUME IInv, WInv, Next
  PROVE  ArmedIsSeen'
<1> USE DEF ArmedIsSeen
<1>1. /\ ArmedIsSeen /\ RingSignals
      /\ m_SignalRingEnable \in BOOLEAN /\ notified \in BOOLEAN /\ phase # "dead"
    BY WaitTypes DEF WInv, IInv
<1>2. CASE EEContinues \/ EEBegins
  <2>1. CASE SignalEvent
      BY <1>1, <2>1 DEF SignalEvent, SetEvent, SemEvent!Notify
  <2>2. CASE ~SignalEvent
    <3>1. epc' # "signalWait"
        BY <1>2, <2>2 DEF EEContinues, EEBegins, GenericStall, SignalEnable, SignalWait,
           SignalCheck, SpinEvent, Spin, WritePacket, CommitPacket, AnnouncePackets,
           VsyncEvent, VsyncCount, VsyncListen, VsyncWait, WaitForEmpty,
           WaitForEmptyReturns, Resume, StartPacket, WaitGS, ResetGS, EEMoves
    <3> QED
        BY <3>1
  <2> QED
      BY <2>1, <2>2
<1>3. CASE WaitForWork
    BY <1>1, <1>3 DEF WaitForWork, SemEvent!GoOn, SemEvent!WakeUp, SemEvent!GoIdle,
       signals, eeVars
<1>4. CASE RingPost
  <2>1. ~m_SignalRingEnable'
      BY <1>1, <1>4 DEF RingPost, GSMoves, RingSignals
  <2> QED
      BY <2>1
<1>5. CASE ValveRing
    BY <1>5 DEF ValveRing
<1>6. CASE VsyncSignal
    BY <1>1, <1>6 DEF VsyncSignal, GSMoves, eeVars, signals, event
<1>7. CASE Execute \/ VsyncSub \/ Advance \/ RingSignal \/ RingOff \/ SafetyValve
           \/ ValvePosition
    BY <1>7 DEF Execute, VsyncSub, Advance, RingSignal, RingOff, SafetyValve,
       ValvePosition, GSMoves
<1> QED
    BY <1>2, <1>3, <1>4, <1>5, <1>6, <1>7 DEF Next, GSThread

\* The steps of the EE that neither touch the work semaphore nor wait in it.
LEMMA WaitSteps ==
  ASSUME GenericStall \/ SignalEnable \/ SignalWait \/ SignalCheck \/ Spin \/ WritePacket
           \/ CommitPacket \/ VsyncCount \/ VsyncListen \/ VsyncWait \/ Resume \/ StartPacket
           \/ ResetGS
  PROVE  UNCHANGED event /\ epc # "waitingEmpty" /\ epc' # "waitingEmpty"
  BY DEF GenericStall, SignalEnable, SignalWait, SignalCheck, Spin, WritePacket,
     CommitPacket, VsyncCount, VsyncListen, VsyncWait, Resume, StartPacket, ResetGS, EEMoves

LEMMA WaiterIsDueStep ==
  ASSUME IInv, WInv, Next
  PROVE  WaiterIsDue'
<1> USE DEF WaiterIsDue
<1>1. /\ WaiterIsDue /\ Quiet
      /\ phase \in {"running", "idle"} /\ notified \in BOOLEAN
      /\ waiter \in {"none", "waiting", "released"}
    BY WaitTypes DEF WInv, IInv
<1>2. CASE WaitForEmpty
    BY <1>1, <1>2 DEF WaitForEmpty, SemEvent!EmptyAtOnce, SemEvent!EmptyWait, SemEvent!vars
<1>3. CASE WaitForEmptyReturns
    BY <1>1, <1>3 DEF WaitForEmptyReturns, SemEvent!EmptyReturn, EEMoves
<1>4. CASE WaitForWork
    BY <1>1, <1>4 DEF WaitForWork, SemEvent!GoOn, SemEvent!WakeUp, SemEvent!GoIdle,
       SemEvent!Release, eeVars
<1>5. CASE SignalEvent \/ SpinEvent \/ AnnouncePackets \/ VsyncEvent \/ WaitGS
    BY <1>1, <1>5 DEF SignalEvent, SpinEvent, AnnouncePackets, VsyncEvent, WaitGS, SetEvent,
       SemEvent!Notify, EEMoves
<1>6. CASE GenericStall \/ SignalEnable \/ SignalWait \/ SignalCheck \/ Spin \/ WritePacket
           \/ CommitPacket \/ VsyncCount \/ VsyncListen \/ VsyncWait \/ Resume \/ StartPacket
           \/ ResetGS
    BY <1>1, <1>6, WaitSteps DEF event
<1>7. CASE Execute \/ VsyncSub \/ VsyncSignal \/ Advance \/ RingSignal \/ RingOff
           \/ RingPost \/ SafetyValve \/ ValveRing \/ ValvePosition
    BY <1>1, <1>7 DEF Execute, VsyncSub, VsyncSignal, Advance, RingSignal, RingOff, RingPost,
       SafetyValve, ValveRing, ValvePosition, eeVars, event
<1> QED
    BY <1>2, <1>3, <1>4, <1>5, <1>6, <1>7, Steps

THEOREM WaitInvariance == Spec => [](IInv /\ WInv)
<1>1. Init => WInv
    BY InitWInv
<1>2. IInv /\ WInv /\ [Next]_vars => WInv'
  <2> SUFFICES ASSUME IInv, WInv, [Next]_vars PROVE WInv'
      OBVIOUS
  <2>1. CASE Next
      BY <2>1, SpinIsSeenStep, SignalIsDueStep, ArmedIsSeenStep, WaiterIsDueStep DEF WInv
  <2>2. CASE UNCHANGED vars
    <3>1. UNCHANGED <<m_SignalRingEnable, m_sem_OnRingReset, notified, phase, waiter,
                      epc, gpc, pending>>
        BY <2>2 DEF vars, ringVars, signals, event, eeVars, gsVars
    <3> QED
        BY <3>1 DEF WInv, SpinIsSeen, SignalIsDue, ArmedIsSeen, WaiterIsDue, Stalled,
           Resting, InValve
  <2> QED
      BY <2>1, <2>2
<1> QED
    BY <1>1, <1>2, Invariance, PTL DEF Spec

\* The EE never waits for room, for a stall's signal or for the end of the ring while the
\* GS thread sleeps as well (GenericStall, WaitGS and the safety valve, MTGS.cpp).
THEOREM NobodyStaysStuck == Spec => []NobodyIsStuck
<1>1. IInv /\ WInv => NobodyIsStuck
  <2> SUFFICES ASSUME IInv, WInv, EEBlocked, GSBlocked PROVE FALSE
      BY DEF NobodyIsStuck
  <2>1. gpc = "wait" /\ phase = "idle" /\ ~notified
      BY DEF GSBlocked
  <2>2. CASE epc = "signalWait" /\ m_sem_OnRingReset = 0
      BY <2>1, <2>2 DEF WInv, SignalIsDue, ArmedIsSeen, Stalled
  <2>3. CASE epc = "spin" /\ FreeRoom(m_ReadPos) <= Packet(op).words
    <3>1. pending = <<>>
        BY <2>1, <2>3 DEF WInv, SpinIsSeen, Resting
    <3>2. TypeOK /\ m_ReadPos = m_WritePos
        BY <3>1, EmptyRing DEF IInv
    <3>3. FreeRoom(m_ReadPos) = RingBufferSize
        BY <3>2, RoomIs, Types, DistanceType, Sizes
    <3> QED
        BY <2>3, <3>2, <3>3, NewPacket, Sizes
  <2>4. CASE epc = "waitingEmpty" /\ waiter # "released"
      BY <2>1, <2>4, WaitTypes DEF WInv, WaiterIsDue
  <2> QED
      BY <2>2, <2>3, <2>4 DEF EEBlocked
<1> QED
    BY <1>1, WaitInvariance, PTL
=============================================================================
