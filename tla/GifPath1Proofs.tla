--------------------------- MODULE GifPath1Proofs ---------------------------
(***************************************************************************)
(* Proofs about GifPath1, for every buffer, every limit and every set of   *)
(* kicks.                                                                  *)
(*                                                                         *)
(* Two arguments are independent of each other.  Pairs counts commands,    *)
(* programs, packets and tokens.  Accounts says where the packets lie that *)
(* the GS thread has still to read, by the amount readAmount has for them: *)
(* a packet lies as far behind the unfinished one as that amount says, or, *)
(* when the buffer has wrapped in between, in front of it by what the      *)
(* amount leaves of the limit.  That is all FrontSpace and RealignSpace    *)
(* rely on.                                                                *)
(*                                                                         *)
(* What bounds the positions, that a program fits into the buffer, comes   *)
(* last: the data are safe without it.                                     *)
(***************************************************************************)
EXTENDS GifPath1, SequenceTheorems, WellFoundedInduction, TLAPS

AnyPack == [offset : Nat, size : Nat, readAmount : Nat]

-----------------------------------------------------------------------------
(* The inductive invariant *)

Counters ==
  /\ fakePackets \in Nat /\ vuPrograms \in Nat /\ gsCommands \in Nat
  /\ semaXGkick \in Nat /\ startP1Packs \in Nat
  /\ gsCommands + fakePackets + (IF epc = "transfer" THEN 1 ELSE 0) <= MaxPrograms

Places ==
  /\ epc \in {"idle", "transfer", "kick", "waitVU", "waitEmpty", "waitGS"}
  /\ vpc \in VUPCs
  /\ gpc \in {"wait", "loop", "semWait", "transfer", "pop"}
  /\ canDoGif \in BOOLEAN
  /\ SemaEvent!TypeOK /\ SemEvent!TypeOK

Path ==
  /\ kicks \in 0 .. MaxKicks /\ size \in 0 .. BuffSize /\ rest \in 0 .. BuffSize
  /\ gsPack \in AnyPack /\ curOffset \in Nat /\ curSize \in Nat
  /\ readAmount \in Int /\ gsPackQueue \in Seq(AnyPack)

\* The packet being built ends where the tags of the next kick begin, and between
\* two kicks that is where its data end.
Copying == ReadWaits \cup WaitPCs \cup {"tags"}

Built ==
  /\ gsPack.offset + gsPack.size = curOffset
  /\ curOffset <= curSize
  /\ vpc \notin Copying => curOffset = curSize

\* Both threads pass a program, or a command, only after they are done with it.
Working ==
  /\ vpc \notin {"wait", "loop"} => vuPrograms >= 1
  /\ gpc \in {"semWait", "transfer", "pop"} => gsCommands >= 1

Pairs == PacketsExpected /\ OneCommandPerProgram

\* behind[k] is what the packets of q amount to from the k-th on.
Sums(q, behind) ==
  /\ behind \in [1 .. Len(q) + 1 -> Nat]
  /\ behind[Len(q) + 1] = 0
  /\ \A k \in 1 .. Len(q) : behind[k] = Amount(q[k]) + behind[k + 1]
  /\ \A j, k \in 1 .. Len(q) + 1 : j <= k => behind[k] <= behind[j]

\* A packet p whose data begin an amount of back before position pos.
Lies(p, back, pos) ==
  p.size > 0 =>
    \/ p.offset + back = pos
    \/ pos < back /\ p.offset + back >= BuffLimit + pos

\* The packets of q lie behind the unfinished one at pos, which has left a gap.
Laid(q, behind, pos, gap) ==
  \A k \in 1 .. Len(q) : Lies(q[k], behind[k] - q[k].readAmount + gap, pos)

Accounts(q, behind, amount, pack) ==
  /\ Sums(q, behind)
  /\ amount = behind[1]
  /\ Laid(q, behind, pack.offset, pack.readAmount)

\* What is counted for finished packets alone.
Finished == readAmount - IF vpc = "push" THEN Amount(gsPack) ELSE 0

Accounted ==
  \E behind \in [1 .. Len(Pending) + 1 -> Nat] : Accounts(Pending, behind, Finished, gsPack)

IInv ==
  /\ Counters
  /\ Places
  /\ Path
  /\ Built
  /\ Working
  /\ Pairs
  /\ Accounted

-----------------------------------------------------------------------------
(* Numbers and sequences *)

LEMMA Sizes ==
  /\ BuffSize \in Nat /\ BuffLimit \in Nat /\ BuffLimit >= 1 /\ BuffLimit <= BuffSize
  /\ MaxKicks \in Nat /\ MaxPrograms \in Nat
  /\ \A kick \in Kicks : kick[1] \in 1 .. BuffSize /\ kick[2] \in 0 .. BuffSize
  BY GifPath1Assumption DEF GifPath1Assumption

LEMMA MaxFacts ==
  ASSUME NEW a \in Int
  PROVE  Max({a, 0}) = IF a >= 0 THEN a ELSE 0
<1>1. CASE a >= 0
    BY <1>1 DEF Max
<1>2. CASE a < 0
    BY <1>2 DEF Max
<1> QED
    BY <1>1, <1>2

LEMMA PackFacts ==
  ASSUME NEW p \in AnyPack
  PROVE  p.offset \in Nat /\ p.size \in Nat /\ p.readAmount \in Nat /\ Amount(p) \in Nat
  BY DEF AnyPack, Amount

LEMMA SeqFacts ==
  ASSUME NEW q \in Seq(AnyPack)
  PROVE  /\ Len(q) \in Nat /\ DOMAIN q = 1 .. Len(q)
         /\ \A k \in 1 .. Len(q) : q[k] \in AnyPack
         /\ q # <<>> <=> Len(q) >= 1
  BY EmptySeq, LenProperties, ElementOfSeq

LEMMA AppendFacts ==
  ASSUME NEW q \in Seq(AnyPack), NEW p \in AnyPack
  PROVE  /\ Append(q, p) \in Seq(AnyPack) /\ Append(q, p) # <<>>
         /\ Len(Append(q, p)) = Len(q) + 1
         /\ \A k \in 1 .. Len(q) : Append(q, p)[k] = q[k]
         /\ Append(q, p)[Len(q) + 1] = p
  BY SeqFacts

LEMMA TailFacts ==
  ASSUME NEW q \in Seq(AnyPack), q # <<>>
  PROVE  /\ Tail(q) \in Seq(AnyPack)
         /\ Len(Tail(q)) = Len(q) - 1 /\ Len(q) \in Nat /\ Len(q) >= 1
         /\ \A k \in 1 .. Len(Tail(q)) : Tail(q)[k] = q[k + 1] /\ k + 1 \in 1 .. Len(q)
         /\ Head(q) = q[1] /\ q[1] \in AnyPack
<1>1. Len(q) \in Nat /\ Len(q) >= 1 /\ q[1] \in AnyPack
    BY SeqFacts
<1>2. Head(q) = q[1]
    OBVIOUS
<1>3. /\ Tail(q) \in Seq(AnyPack) /\ Len(Tail(q)) = Len(q) - 1
      /\ \A k \in 1 .. Len(Tail(q)) : Tail(q)[k] = q[k + 1]
    BY HeadTailProperties
<1> QED
    BY <1>1, <1>2, <1>3

-----------------------------------------------------------------------------
(* The accounts *)

LEMMA SumFacts ==
  ASSUME NEW q \in Seq(AnyPack), NEW behind, Sums(q, behind), NEW k \in 1 .. Len(q)
  PROVE  /\ q[k] \in AnyPack
         /\ behind[k] \in Nat /\ behind[k + 1] \in Nat /\ behind[1] \in Nat
         /\ behind[k] = q[k].size + q[k].readAmount + behind[k + 1]
         /\ behind[k] <= behind[1]
<1>1. Len(q) \in Nat /\ q[k] \in AnyPack
    BY SeqFacts
<1>2. 1 \in 1 .. Len(q) + 1 /\ k \in 1 .. Len(q) + 1 /\ k + 1 \in 1 .. Len(q) + 1 /\ 1 <= k
    BY <1>1
<1>3. /\ behind[k] \in Nat /\ behind[k + 1] \in Nat /\ behind[1] \in Nat
    BY <1>2 DEF Sums
<1>4. behind[k] = q[k].size + q[k].readAmount + behind[k + 1]
    BY DEF Sums, Amount
<1>5. behind[k] <= behind[1]
    BY <1>2 DEF Sums
<1> QED
    BY <1>1, <1>3, <1>4, <1>5

\* The unfinished packet moves on by n, and leaves all others n further behind.
LEMMA LiesOn ==
  ASSUME NEW p, p.offset \in Nat, NEW back \in Int, NEW pos \in Nat, NEW n \in Nat,
         Lies(p, back, pos)
  PROVE  Lies(p, back + n, pos + n)
<1>1. CASE p.size > 0
    BY <1>1, Sizes DEF Lies
<1>2. CASE ~(p.size > 0)
    BY <1>2 DEF Lies
<1> QED
    BY <1>1, <1>2

\* The GS thread has read the first packet.
LEMMA ReadFirst ==
  ASSUME NEW q \in Seq(AnyPack), NEW behind, NEW amount, NEW pack \in AnyPack,
         Accounts(q, behind, amount, pack), q # <<>>
  PROVE  \E b \in [1 .. Len(Tail(q)) + 1 -> Nat] :
           Accounts(Tail(q), b, amount - Amount(Head(q)), pack)
<1> DEFINE l == Tail(q)
           b == [k \in 1 .. Len(l) + 1 |-> behind[k + 1]]
<1>1. /\ l \in Seq(AnyPack) /\ Len(l) = Len(q) - 1 /\ Len(q) \in Nat /\ Len(q) >= 1
      /\ \A k \in 1 .. Len(l) : l[k] = q[k + 1] /\ k + 1 \in 1 .. Len(q)
      /\ Head(q) = q[1]
    BY TailFacts
<1>2. Sums(q, behind) /\ amount = behind[1] /\ Laid(q, behind, pack.offset, pack.readAmount)
    BY DEF Accounts
<1> HIDE DEF l
<1>3. \A k \in 1 .. Len(l) + 1 : k + 1 \in 1 .. Len(q) + 1 /\ b[k] = behind[k + 1]
    BY <1>1
<1>4. b \in [1 .. Len(l) + 1 -> Nat]
  <2>1. \A k \in 1 .. Len(l) + 1 : behind[k + 1] \in Nat
      BY <1>2, <1>3 DEF Sums
  <2> QED
      BY <2>1
<1> HIDE DEF b
<1>5. b[Len(l) + 1] = 0
  <2>1. Len(l) + 1 \in 1 .. Len(l) + 1 /\ (Len(l) + 1) + 1 = Len(q) + 1
      BY <1>1
  <2> QED
      BY <2>1, <1>2, <1>3 DEF Sums
<1>6. ASSUME NEW k \in 1 .. Len(l)
      PROVE  b[k] = Amount(l[k]) + b[k + 1]
  <2>1. k \in 1 .. Len(l) + 1 /\ k + 1 \in 1 .. Len(l) + 1 /\ k + 1 \in 1 .. Len(q)
      BY <1>1
  <2> QED
      BY <2>1, <1>1, <1>2, <1>3 DEF Sums
<1>7. ASSUME NEW j \in 1 .. Len(l) + 1, NEW k \in 1 .. Len(l) + 1, j <= k
      PROVE  b[k] <= b[j]
  <2>1. j + 1 <= k + 1
      BY <1>1, <1>7
  <2> QED
      BY <2>1, <1>2, <1>3 DEF Sums
<1>8. Laid(l, b, pack.offset, pack.readAmount)
  <2> SUFFICES ASSUME NEW k \in 1 .. Len(l)
               PROVE  Lies(l[k], b[k] - l[k].readAmount + pack.readAmount, pack.offset)
      BY DEF Laid
  <2>1. l[k] = q[k + 1] /\ k + 1 \in 1 .. Len(q) /\ b[k] = behind[k + 1]
      BY <1>1, <1>3
  <2> QED
      BY <2>1, <1>2 DEF Laid
<1>9. amount - Amount(Head(q)) = b[1]
  <2>1. 1 \in 1 .. Len(q) /\ 1 \in 1 .. Len(l) + 1
      BY <1>1
  <2>2. behind[1] = Amount(q[1]) + behind[1 + 1]
      BY <2>1, <1>2 DEF Sums
  <2>3. q[1] \in AnyPack /\ behind[1 + 1] \in Nat
      BY <2>1, <1>2, SumFacts
  <2> QED
      BY <2>1, <2>2, <2>3, <1>1, <1>2, <1>3, PackFacts
<1>10. Sums(l, b)
    BY <1>4, <1>5, <1>6, <1>7 DEF Sums
<1>11. Accounts(l, b, amount - Amount(Head(q)), pack)
    BY <1>8, <1>9, <1>10 DEF Accounts
<1> QED
    BY <1>4, <1>11 DEF l

\* The VU thread finishes the packet, and begins another where its data end.
LEMMA AddLast ==
  ASSUME NEW q \in Seq(AnyPack), NEW behind, NEW amount, NEW pack \in AnyPack,
         Accounts(q, behind, amount, pack)
  PROVE  \E b \in [1 .. Len(Append(q, pack)) + 1 -> Nat] :
           Accounts(Append(q, pack), b, amount + Amount(pack),
                    NewPack(pack.offset + pack.size))
<1> DEFINE l == Append(q, pack)
           new == NewPack(pack.offset + pack.size)
           b == [k \in 1 .. Len(l) + 1 |->
                   IF k <= Len(q) + 1 THEN behind[k] + Amount(pack) ELSE 0]
<1>1. /\ l \in Seq(AnyPack) /\ Len(l) = Len(q) + 1 /\ Len(q) \in Nat
      /\ \A k \in 1 .. Len(q) : l[k] = q[k]
      /\ l[Len(q) + 1] = pack
    BY AppendFacts, SeqFacts
<1>2. Sums(q, behind) /\ amount = behind[1] /\ Laid(q, behind, pack.offset, pack.readAmount)
    BY DEF Accounts
<1>3. /\ pack.offset \in Nat /\ pack.size \in Nat /\ pack.readAmount \in Nat
      /\ Amount(pack) \in Nat /\ Amount(pack) = pack.size + pack.readAmount
    BY PackFacts DEF Amount
<1>4. new.offset = pack.offset + pack.size /\ new.readAmount = 0
    BY DEF NewPack
<1> HIDE DEF l, new
<1>5. /\ \A k \in 1 .. Len(q) + 1 : b[k] = behind[k] + Amount(pack) /\ behind[k] \in Nat
      /\ b[Len(l) + 1] = 0
    BY <1>1, <1>2, SMTT(30) DEF Sums
<1>6. b \in [1 .. Len(l) + 1 -> Nat]
  <2>1. \A k \in 1 .. Len(l) + 1 :
          (IF k <= Len(q) + 1 THEN behind[k] + Amount(pack) ELSE 0) \in Nat
    <3> TAKE k \in 1 .. Len(l) + 1
    <3>1. k <= Len(q) + 1 => k \in 1 .. Len(q) + 1
        BY <1>1
    <3>2. k <= Len(q) + 1 => behind[k] \in Nat
        BY <3>1, <1>2 DEF Sums
    <3> QED
        BY <3>2, <1>3
  <2> QED
      BY <2>1
<1> HIDE DEF b
<1>7. behind[Len(q) + 1] = 0 /\ b[Len(q) + 1] = Amount(pack)
  <2>1. Len(q) + 1 \in 1 .. Len(q) + 1
      BY <1>1
  <2> QED
      BY <2>1, <1>2, <1>3, <1>5 DEF Sums
<1>8. ASSUME NEW k \in 1 .. Len(l)
      PROVE  b[k] = Amount(l[k]) + b[k + 1]
  <2>1. CASE k = Len(q) + 1
      BY <2>1, <1>1, <1>3, <1>5, <1>7
  <2>2. CASE k \in 1 .. Len(q)
    <3>1. k \in 1 .. Len(q) + 1 /\ k + 1 \in 1 .. Len(q) + 1
        BY <2>2, <1>1
    <3>2. behind[k] = Amount(q[k]) + behind[k + 1] /\ l[k] = q[k]
        BY <2>2, <1>1, <1>2 DEF Sums
    <3>3. Amount(q[k]) \in Nat
        BY <2>2, SeqFacts, PackFacts
    <3> QED
        BY <3>1, <3>2, <3>3, <1>3, <1>5, SMTT(30)
  <2> QED
      BY <2>1, <2>2, <1>1
<1>9. ASSUME NEW j \in 1 .. Len(l) + 1, NEW k \in 1 .. Len(l) + 1, j <= k
      PROVE  b[k] <= b[j]
  <2>1. CASE k = Len(l) + 1
    <3>1. b[j] \in Nat
        BY <1>6
    <3> QED
        BY <2>1, <3>1, <1>5
  <2>2. CASE k \in 1 .. Len(q) + 1
    <3>1. j \in 1 .. Len(q) + 1
        BY <2>2, <1>1, <1>9
    <3>2. behind[k] <= behind[j]
        BY <2>2, <3>1, <1>2, <1>9 DEF Sums
    <3> QED
        BY <2>2, <3>1, <3>2, <1>3, <1>5
  <2> QED
      BY <2>1, <2>2, <1>1
<1>10. Laid(l, b, new.offset, new.readAmount)
  <2> SUFFICES ASSUME NEW k \in 1 .. Len(l)
               PROVE  Lies(l[k], b[k] - l[k].readAmount + new.readAmount, new.offset)
      BY DEF Laid
  <2>1. CASE k = Len(q) + 1
    <3>1. l[k] = pack /\ b[k] = Amount(pack)
        BY <2>1, <1>1, <1>7
    <3> QED
        BY <3>1, <1>3, <1>4 DEF Lies
  <2>2. CASE k \in 1 .. Len(q)
    <3>1. Lies(q[k], behind[k] - q[k].readAmount + pack.readAmount, pack.offset)
        BY <2>2, <1>2 DEF Laid
    <3>2. /\ q[k].offset \in Nat /\ q[k].size \in Nat /\ q[k].readAmount \in Nat
          /\ behind[k] \in Nat
        BY <2>2, <1>2, SumFacts, PackFacts
    <3>3. l[k] = q[k] /\ b[k] = behind[k] + Amount(pack)
        BY <2>2, <1>1, <1>5
    <3> DEFINE back == behind[k] - q[k].readAmount + pack.readAmount
    <3>4. /\ b[k] - l[k].readAmount + new.readAmount = back + pack.size
          /\ back \in Int /\ new.offset = pack.offset + pack.size
      <4>1. b[k] = behind[k] + pack.size + pack.readAmount /\ l[k].readAmount = q[k].readAmount
          BY <3>2, <3>3, <1>3
      <4> QED
          BY <4>1, <3>2, <1>3, <1>4, SMTT(30)
    <3>5. Lies(q[k], back, pack.offset)
        BY <3>1
    <3> HIDE DEF back
    <3>6. Lies(q[k], back + pack.size, pack.offset + pack.size)
        BY <3>2, <3>4, <3>5, <1>3, LiesOn
    <3> QED
        BY <3>3, <3>4, <3>6
  <2> QED
      BY <2>1, <2>2, <1>1
<1>11. amount + Amount(pack) = b[1]
  <2>1. 1 \in 1 .. Len(q) + 1
      BY <1>1
  <2> QED
      BY <2>1, <1>2, <1>5
<1>12. Accounts(l, b, amount + Amount(pack), new)
    BY <1>5, <1>6, <1>8, <1>9, <1>10, <1>11 DEF Accounts, Sums
<1> QED
    BY <1>6, <1>12 DEF l, new

\* Where a packet lies, in numbers.
LEMMA LiesFacts ==
  ASSUME NEW q \in Seq(AnyPack), NEW behind, NEW amount, NEW pack \in AnyPack,
         Accounts(q, behind, amount, pack), NEW k \in 1 .. Len(q), q[k].size > 0
  PROVE  \E back \in Nat :
           /\ Lies(q[k], back, pack.offset)
           /\ back = behind[k] - q[k].readAmount + pack.readAmount
           /\ q[k].size <= back /\ back <= amount + pack.readAmount
           /\ \/ q[k].offset + back = pack.offset
              \/ pack.offset < back /\ q[k].offset + back >= BuffLimit + pack.offset
<1> DEFINE back == behind[k] - q[k].readAmount + pack.readAmount
<1>1. /\ behind[k] \in Nat /\ behind[k + 1] \in Nat /\ behind[1] \in Nat
      /\ behind[k] = q[k].size + q[k].readAmount + behind[k + 1]
      /\ behind[k] <= behind[1] /\ q[k] \in AnyPack /\ amount = behind[1]
    BY SumFacts DEF Accounts
<1>2. q[k].size \in Nat /\ q[k].readAmount \in Nat /\ pack.readAmount \in Nat
    BY <1>1, PackFacts
<1>3. back = q[k].size + behind[k + 1] + pack.readAmount
    BY <1>1, <1>2
<1>4. behind[k + 1] + q[k].size <= amount
    BY <1>1, <1>2
<1>5. Lies(q[k], back, pack.offset)
    BY DEF Accounts, Laid
<1> HIDE DEF back
<1>6. back \in Nat /\ q[k].size <= back /\ back <= amount + pack.readAmount
    BY <1>1, <1>2, <1>3, <1>4, SMTT(30)
<1>7. \/ q[k].offset + back = pack.offset
      \/ pack.offset < back /\ q[k].offset + back >= BuffLimit + pack.offset
    BY <1>5 DEF Lies
<1> QED
    BY <1>5, <1>6, <1>7 DEF back

\* RealignSpace: when the unfinished packet, n with all that was copied, may move
\* to the start, no pending packet lies there; and afterwards those that lay
\* behind lie in front.
LEMMA Realigned ==
  ASSUME NEW q \in Seq(AnyPack), NEW behind, NEW amount \in Int, NEW pack \in AnyPack,
         NEW n \in Nat, NEW gap \in Nat, Accounts(q, behind, amount, pack),
         \/ pack.offset - (amount + pack.readAmount) >= n
         \/ pack.offset - (amount + pack.readAmount) >= pack.offset,
         gap >= BuffLimit - pack.offset,
         NEW moved, moved.offset = 0, moved.readAmount = pack.readAmount + gap
  PROVE  /\ \A k \in 1 .. Len(q) : q[k].size > 0 => q[k].offset >= n
         /\ Accounts(q, behind, amount, moved)
<1>1. pack.offset \in Nat /\ pack.readAmount \in Nat
    BY PackFacts
<1>2. ASSUME NEW k \in 1 .. Len(q), q[k].size > 0
      PROVE  /\ q[k].offset >= n
             /\ Lies(q[k], behind[k] - q[k].readAmount + moved.readAmount, moved.offset)
  <2>1. q[k].offset \in Nat /\ q[k].size \in Nat /\ q[k].readAmount \in Nat
      BY SeqFacts, PackFacts
  <2>2. PICK back \in Nat :
          /\ back = behind[k] - q[k].readAmount + pack.readAmount
          /\ q[k].size <= back /\ back <= amount + pack.readAmount
          /\ \/ q[k].offset + back = pack.offset
             \/ pack.offset < back /\ q[k].offset + back >= BuffLimit + pack.offset
      BY <1>2, LiesFacts
  <2>3. q[k].offset + back = pack.offset /\ q[k].offset >= n
    <3>1. PICK reach \in Int : reach = amount + pack.readAmount /\ back <= reach
        BY <2>2, <1>1
    <3>2. pack.offset - reach >= n \/ pack.offset - reach >= pack.offset
        BY <3>1
    <3>3. reach > 0
        BY <3>1, <2>1, <2>2, <1>2
    <3>4. pack.offset - reach >= n
        BY <3>2, <3>3, <1>1
    <3>5. q[k].offset + back = pack.offset
        BY <3>1, <3>4, <2>2, <1>1
    <3> QED
        BY <3>1, <3>4, <3>5, <2>1, <1>1, SMTT(30)
  <2>4. behind[k] \in Nat
      BY SumFacts DEF Accounts
  <2>5. behind[k] - q[k].readAmount + moved.readAmount = back + gap
    <3>1. behind[k] - q[k].readAmount + (pack.readAmount + gap)
            = (behind[k] - q[k].readAmount + pack.readAmount) + gap
        BY <2>1, <2>4, <1>1
    <3> QED
        BY <3>1, <2>2
  <2>6. 0 < back + gap /\ q[k].offset + (back + gap) >= BuffLimit
    <3>1. back > 0
        BY <2>1, <2>2, <1>2
    <3>2. q[k].offset + (back + gap) = pack.offset + gap
        BY <2>1, <2>3, <1>1
    <3> QED
        BY <3>1, <3>2, <1>1, Sizes
  <2>7. Lies(q[k], back + gap, 0)
      BY <2>2, <2>6, Sizes DEF Lies
  <2> QED
      BY <2>3, <2>5, <2>7
<1>3. Laid(q, behind, moved.offset, moved.readAmount)
  <2> SUFFICES ASSUME NEW k \in 1 .. Len(q)
               PROVE  Lies(q[k], behind[k] - q[k].readAmount + moved.readAmount, moved.offset)
      BY DEF Laid
  <2> QED
      BY <1>2 DEF Lies
<1>4. Accounts(q, behind, amount, moved)
    BY <1>3 DEF Accounts
<1> QED
    BY <1>2, <1>4

\* FrontSpace: n more at position at, in front of the unfinished packet's start,
\* meet no pending packet.
LEMMA Copied ==
  ASSUME NEW q \in Seq(AnyPack), NEW behind, NEW amount \in Int, NEW pack \in AnyPack,
         NEW n \in Nat, NEW at \in Nat, Accounts(q, behind, amount, pack),
         pack.offset <= at,
         \/ pack.offset - (amount + pack.readAmount) >= 0
         \/ BuffLimit + (pack.offset - (amount + pack.readAmount)) > at + n
  PROVE  \A k \in 1 .. Len(q) :
           q[k].size > 0 => q[k].offset + q[k].size <= at \/ at + n <= q[k].offset
<1> SUFFICES ASSUME NEW k \in 1 .. Len(q), q[k].size > 0
             PROVE  q[k].offset + q[k].size <= at \/ at + n <= q[k].offset
    OBVIOUS
<1>1. /\ q[k].offset \in Nat /\ q[k].size \in Nat
      /\ pack.offset \in Nat /\ pack.readAmount \in Nat
    BY SeqFacts, PackFacts
<1>2. PICK back \in Nat :
        /\ q[k].size <= back /\ back <= amount + pack.readAmount
        /\ \/ q[k].offset + back = pack.offset
           \/ pack.offset < back /\ q[k].offset + back >= BuffLimit + pack.offset
    BY LiesFacts
<1>3. CASE q[k].offset + back = pack.offset
    BY <1>1, <1>2, <1>3
<1>4. CASE pack.offset < back /\ q[k].offset + back >= BuffLimit + pack.offset
  <2>1. pack.offset - (amount + pack.readAmount) < 0
      BY <1>1, <1>2, <1>4
  <2>2. BuffLimit + (pack.offset - (amount + pack.readAmount)) > at + n
      BY <2>1, <1>1
  <2> QED
      BY <2>2, <1>1, <1>2, <1>4, Sizes, SMTT(30)
<1> QED
    BY <1>2, <1>3, <1>4

-----------------------------------------------------------------------------
(* The steps *)

LEMMA Steps ==
  ASSUME Next
  PROVE  \/ TransferGSPacketData \/ KickStart \/ WaitForEmpty \/ WaitReturns
         \/ ExecuteVU \/ GifStall \/ GifResume \/ WaitVU \/ WaitGS
         \/ VUWaitForWork \/ VURingEmpty \/ ExecuteProgram
         \/ XGKICK \/ RealignPacket \/ RealignMustWait \/ CopyGSPacketData \/ CopyMustWait
         \/ ExecuteGSPacketMTVU \/ ReadWaitNotify \/ ReadWaitCount \/ ReadWaitChange
         \/ FinishReadAmount \/ FinishPush \/ PostXGkick
         \/ GSWaitForWork \/ GSRingEmpty \/ TryWaitXGkick \/ WaitXGkick
         \/ TransferPacket \/ PopPacket
  BY DEF Next, EEContinues, EEBegins, VUThread, GSThread

LEMMA EEOwns ==
  ASSUME EEContinues \/ EEBegins
  PROVE  UNCHANGED <<vpc, vuLocals, pathVars, queueVars, gpc>>
  BY DEF EEContinues, EEBegins, TransferGSPacketData, KickStart, WaitForEmpty, WaitReturns,
     ExecuteVU, GifStall, GifResume, WaitVU, WaitGS, EEOnly

LEMMA VUOwns ==
  ASSUME VUThread
  PROVE  UNCHANGED <<eeVars, gsCommands, gpc>>
  BY DEF VUThread, VUWaitForWork, VURingEmpty, ExecuteProgram, XGKICK, RealignPacket,
     RealignMustWait, CopyGSPacketData, CopyMustWait, ExecuteGSPacketMTVU, ReadWaitNotify,
     ReadWaitCount, ReadWaitChange, FinishReadAmount, FinishPush, PostXGkick, VUOnly

LEMMA GSOwns ==
  ASSUME GSThread
  PROVE  UNCHANGED <<eeVars, vuPrograms, vuEvent, vpc, vuLocals, pathVars>>
  BY DEF GSThread, GSWaitForWork, GSRingEmpty, TryWaitXGkick, WaitXGkick, TransferPacket,
     PopPacket, GSOnly

\* The places between which mtgsReadWait moves.
LEMMA WaitPlaces ==
  /\ ReadWaits = {"realign", "realignTags", "copy"}
  /\ WaitPCs = {"realignNotify", "realignTagsNotify", "copyNotify",
                "realignCount", "realignTagsCount", "copyCount",
                "realignChange", "realignTagsChange", "copyChange"}
  /\ \A pc \in ReadWaits : /\ NotifyPC[pc] \in WaitPCs /\ CountPC[pc] \in WaitPCs
                           /\ ChangePC[pc] \in WaitPCs
<1>1. ReadWaits = {"realign", "realignTags", "copy"}
    BY DEF ReadWaits
<1>2. /\ NotifyPC["realign"] = "realignNotify" /\ CountPC["realign"] = "realignCount"
      /\ ChangePC["realign"] = "realignChange"
      /\ NotifyPC["realignTags"] = "realignTagsNotify"
      /\ CountPC["realignTags"] = "realignTagsCount"
      /\ ChangePC["realignTags"] = "realignTagsChange"
      /\ NotifyPC["copy"] = "copyNotify" /\ CountPC["copy"] = "copyCount"
      /\ ChangePC["copy"] = "copyChange"
    BY DEF NotifyPC, CountPC, ChangePC
<1>3. WaitPCs = {"realignNotify", "realignTagsNotify", "copyNotify",
                 "realignCount", "realignTagsCount", "copyCount",
                 "realignChange", "realignTagsChange", "copyChange"}
    BY <1>1, <1>2 DEF WaitPCs
<1> QED
    BY <1>1, <1>2, <1>3

\* mtgsReadWait comes back to where it began, and changes nothing of the path.
LEMMA ReadWaitMoves ==
  ASSUME ReadWaitNotify \/ ReadWaitCount \/ ReadWaitChange
  PROVE  /\ UNCHANGED <<vuPrograms, kicks, size, rest, pathVars, queueVars>>
         /\ UNCHANGED <<eeVars, gsCommands, gpc>>
         /\ vpc \in WaitPCs /\ vpc' \in ReadWaits \cup WaitPCs
         /\ vpc' \notin {"copyNotify", "realignNotify", "realignTagsNotify"}
         /\ vpc \in {"copyNotify", "copyCount", "copyChange"} <=>
              vpc' \in {"copy", "copyCount", "copyChange"}
         /\ vpc \in {"realignNotify", "realignCount", "realignChange"} <=>
              vpc' \in {"realign", "realignCount", "realignChange"}
<1>1. PICK pc \in ReadWaits :
        \/ VUMoves(NotifyPC[pc], CountPC[pc])
        \/ VUMoves(CountPC[pc], IF gsPackQueue = <<>> THEN pc ELSE ChangePC[pc])
        \/ VUMoves(ChangePC[pc], pc)
    BY DEF ReadWaitNotify, ReadWaitCount, ReadWaitChange
<1>2. /\ UNCHANGED <<vuPrograms, kicks, size, rest, pathVars, queueVars>>
      /\ UNCHANGED <<eeVars, gsCommands, gpc>>
    BY DEF ReadWaitNotify, ReadWaitCount, ReadWaitChange, VUOnly, vuLocals
<1>3. vpc \in {NotifyPC[pc], CountPC[pc], ChangePC[pc]}
      /\ vpc' \in {CountPC[pc], ChangePC[pc], pc}
    BY <1>1 DEF VUMoves
<1>4. CASE pc = "realign"
    BY <1>2, <1>3, <1>4, WaitPlaces DEF NotifyPC, CountPC, ChangePC
<1>5. CASE pc = "realignTags"
    BY <1>2, <1>3, <1>5, WaitPlaces DEF NotifyPC, CountPC, ChangePC
<1>6. CASE pc = "copy"
    BY <1>2, <1>3, <1>6, WaitPlaces DEF NotifyPC, CountPC, ChangePC
<1> QED
    BY <1>4, <1>5, <1>6, WaitPlaces

\* The queue, and what of it is still to be read.
LEMMA QueueFacts ==
  ASSUME IInv
  PROVE  /\ gsPackQueue \in Seq(AnyPack) /\ Len(gsPackQueue) \in Nat
         /\ gsPackQueue # <<>> <=> Len(gsPackQueue) >= 1
         /\ gpc \in {"transfer", "pop"} => gsPackQueue # <<>>
         /\ Pending \in Seq(AnyPack)
<1>1. gsPackQueue \in Seq(AnyPack) /\ semaXGkick \in Nat
    BY DEF IInv, Path, Counters
<1>2. /\ Len(gsPackQueue) \in Nat /\ gsPackQueue # <<>> <=> Len(gsPackQueue) >= 1
    BY <1>1, SeqFacts
<1>3. gpc \in {"transfer", "pop"} => Len(gsPackQueue) >= 1
    BY <1>1, <1>2 DEF IInv, Pairs, PacketsExpected
<1>4. Pending \in Seq(AnyPack)
    BY <1>1, <1>2, <1>3, TailFacts DEF Pending
<1> QED
    BY <1>1, <1>2, <1>3, <1>4

LEMMA PathFacts ==
  ASSUME IInv
  PROVE  /\ gsPack \in AnyPack
         /\ gsPack.offset \in Nat /\ gsPack.size \in Nat /\ gsPack.readAmount \in Nat
         /\ Amount(gsPack) \in Nat /\ Amount(gsPack) = gsPack.size + gsPack.readAmount
         /\ curOffset \in Nat /\ curSize \in Nat
         /\ PackOffset = gsPack.offset
         /\ PackSize = curSize - gsPack.offset /\ PackSize \in Nat
         /\ gsPack.size <= PackSize
<1>1. /\ gsPack \in AnyPack /\ curOffset \in Nat /\ curSize \in Nat
      /\ gsPack.offset + gsPack.size = curOffset /\ curOffset <= curSize
    BY DEF IInv, Path, Built
<1>2. /\ gsPack.offset \in Nat /\ gsPack.size \in Nat /\ gsPack.readAmount \in Nat
      /\ Amount(gsPack) \in Nat /\ Amount(gsPack) = gsPack.size + gsPack.readAmount
    BY <1>1, PackFacts DEF Amount
<1>3. PackOffset = gsPack.offset
    BY <1>1, <1>2 DEF PackOffset
<1>4. PackSize = curSize - gsPack.offset
    BY <1>3 DEF PackSize
<1> QED
    BY <1>1, <1>2, <1>3, <1>4

\* What RealignPacket does, in numbers.
LEMMA RealignDoes ==
  ASSUME IInv, RealignPacket
  PROVE  \E gap \in Nat :
           /\ gap = (IF BuffLimit - gsPack.offset >= 0 THEN BuffLimit - gsPack.offset ELSE 0)
           /\ gsPack' \in AnyPack
           /\ gsPack'.offset = 0 /\ gsPack'.size = gsPack.size
           /\ gsPack'.readAmount = gsPack.readAmount + gap
           /\ curSize' = curSize - gsPack.offset /\ curOffset' = gsPack.size
<1> DEFINE gap == Max({BuffLimit - PackOffset, 0})
<1>1. BuffLimit - PackOffset \in Int
    BY PathFacts, Sizes
<1>2. gap = (IF BuffLimit - gsPack.offset >= 0 THEN BuffLimit - gsPack.offset ELSE 0)
    BY <1>1, MaxFacts, PathFacts
<1>3. gsPack' = [gsPack EXCEPT !.offset = 0, !.readAmount = @ + gap]
    BY DEF RealignPacket
<1>4. curSize' = curSize - gsPack.offset /\ curOffset' = gsPack.size
    BY PathFacts DEF RealignPacket
<1> HIDE DEF gap
<1>5. gap \in Nat
    BY <1>2, PathFacts, Sizes
<1>6. /\ gsPack' = [offset |-> 0, size |-> gsPack.size, readAmount |-> gsPack.readAmount + gap]
    BY <1>3, PathFacts DEF AnyPack
<1>7. gsPack.size \in Nat /\ gsPack.readAmount + gap \in Nat
    BY <1>5, PathFacts
<1> HIDE DEF gap
<1>8. /\ gsPack' \in AnyPack /\ gsPack'.offset = 0 /\ gsPack'.size = gsPack.size
      /\ gsPack'.readAmount = gsPack.readAmount + gap
    BY <1>6, <1>7 DEF AnyPack
<1> QED
    BY <1>2, <1>4, <1>5, <1>8

LEMMA TagsDo ==
  ASSUME IInv, ExecuteGSPacketMTVU
  PROVE  /\ gsPack' \in AnyPack
         /\ gsPack'.offset = gsPack.offset /\ gsPack'.readAmount = gsPack.readAmount
         /\ gsPack'.size = curSize - gsPack.offset /\ gsPack'.size >= gsPack.size
         /\ curOffset' = curSize /\ curSize' = curSize
<1>1. gsPack' = [gsPack EXCEPT !.size = @ + curSize - curOffset] /\ UNCHANGED curSize
      /\ curOffset' = curSize
    BY DEF ExecuteGSPacketMTVU
<1>2. gsPack.offset + gsPack.size = curOffset /\ curOffset <= curSize
    BY DEF IInv, Built
<1>3. gsPack.size + curSize - curOffset = curSize - gsPack.offset
    BY <1>2, PathFacts
<1>4. gsPack' = [gsPack EXCEPT !.size = curSize - gsPack.offset]
    BY <1>1, <1>3
<1>5. gsPack' = [offset |-> gsPack.offset, size |-> curSize - gsPack.offset,
                 readAmount |-> gsPack.readAmount]
    BY <1>4, PathFacts DEF AnyPack
<1>6. curSize - gsPack.offset \in Nat /\ curSize - gsPack.offset >= gsPack.size
    BY <1>2, PathFacts
<1> QED
    BY <1>1, <1>5, <1>6, PathFacts DEF AnyPack

LEMMA NewPackFacts ==
  ASSUME NEW o \in Nat
  PROVE  /\ NewPack(o) \in AnyPack
         /\ NewPack(o).offset = o /\ NewPack(o).size = 0 /\ NewPack(o).readAmount = 0
  BY DEF NewPack, AnyPack

-----------------------------------------------------------------------------
(* Counting *)

LEMMA CountersStep ==
  ASSUME IInv, Next
  PROVE  Counters'
<1> USE DEF Counters
<1>1. Counters /\ Working /\ MaxPrograms \in Nat
    BY Sizes DEF IInv
<1>2. CASE ExecuteVU
    BY <1>1, <1>2, EEOwns DEF ExecuteVU, EEMoves, EEBegins, vuLocals, queueVars
<1>3. CASE TransferGSPacketData
    BY <1>1, <1>3, EEOwns DEF TransferGSPacketData, EEMoves, EEContinues, SendFakePackets,
       vuLocals, queueVars
<1>4. CASE GifResume
    BY <1>1, <1>4, EEOwns DEF GifResume, EEBegins, SendFakePackets, vuLocals, queueVars
<1>5. CASE KickStart \/ WaitForEmpty \/ WaitReturns \/ GifStall \/ WaitVU \/ WaitGS
  <2>1. UNCHANGED <<fakePackets, gsCommands, vuPrograms, semaXGkick, startP1Packs>>
      BY <1>5, EEOwns DEF EEContinues, EEBegins, KickStart, WaitForEmpty, WaitReturns,
         GifStall, WaitVU, WaitGS, vuLocals, queueVars
  <2>2. epc' = "transfer" => epc = "transfer"
      BY <1>5 DEF KickStart, WaitForEmpty, WaitReturns, GifStall, WaitVU, WaitGS, EEMoves
  <2> QED
      BY <1>1, <2>1, <2>2
<1>6. CASE PostXGkick
    BY <1>1, <1>6 DEF Working, PostXGkick, VUMoves, VUOnly, vuLocals, eeVars
<1>7. CASE ReadWaitCount
    BY <1>1, <1>7, QueueFacts DEF ReadWaitCount, VUOnly, eeVars, queueVars
<1>8. CASE ReadWaitNotify \/ ReadWaitChange
  <2>1. startP1Packs' \in Nat
      BY <1>1, <1>8 DEF ReadWaitNotify, ReadWaitChange, vuLocals
  <2> QED
      BY <1>1, <1>8, <2>1, ReadWaitMoves DEF eeVars, queueVars
<1>9. CASE \/ VUWaitForWork \/ VURingEmpty \/ ExecuteProgram \/ XGKICK \/ RealignPacket
           \/ RealignMustWait \/ CopyGSPacketData \/ CopyMustWait \/ ExecuteGSPacketMTVU
           \/ FinishReadAmount \/ FinishPush
  <2>1. UNCHANGED <<fakePackets, gsCommands, vuPrograms, semaXGkick, startP1Packs, epc>>
      BY <1>9 DEF VUWaitForWork, VURingEmpty, ExecuteProgram, XGKICK, RealignPacket,
         RealignMustWait, CopyGSPacketData, CopyMustWait, ExecuteGSPacketMTVU,
         FinishReadAmount, FinishPush, VUOnly, vuLocals, eeVars, queueVars
  <2> QED
      BY <1>1, <2>1
<1>10. CASE TryWaitXGkick \/ WaitXGkick
    BY <1>1, <1>10 DEF TryWaitXGkick, WaitXGkick, GSMoves, GSOnly, eeVars, vuLocals
<1>11. CASE GSWaitForWork \/ GSRingEmpty \/ TransferPacket
    BY <1>1, <1>11 DEF GSWaitForWork, GSRingEmpty, TransferPacket, GSOnly, eeVars, vuLocals,
       queueVars
<1>12. CASE PopPacket
    BY <1>1, <1>12 DEF Working, PopPacket, GSMoves, GSOnly, eeVars, vuLocals
<1> QED
    BY <1>2, <1>3, <1>4, <1>5, <1>6, <1>7, <1>8, <1>9, <1>10, <1>11, <1>12, Steps

LEMMA WorkingStep ==
  ASSUME IInv, Next
  PROVE  Working'
<1> USE DEF Working
<1>1. Counters /\ Working
    BY DEF IInv
<1>2. CASE EEContinues \/ EEBegins
  <2>1. vpc' = vpc /\ gpc' = gpc
      BY <1>2, EEOwns
  <2>2. gsCommands' >= gsCommands /\ vuPrograms' >= vuPrograms
      BY <1>1, <1>2 DEF Counters, EEContinues, EEBegins, TransferGSPacketData, KickStart,
         WaitForEmpty, WaitReturns, ExecuteVU, GifStall, GifResume, WaitVU, WaitGS,
         SendFakePackets
  <2>3. gsCommands' \in Nat /\ vuPrograms' \in Nat
      BY <1>2, CountersStep DEF Counters
  <2> QED
      BY <1>1, <2>1, <2>2, <2>3 DEF Counters
<1>3. CASE VUThread
  <2>1. gsCommands' = gsCommands /\ gpc' = gpc
      BY <1>3, VUOwns
  <2>2. CASE PostXGkick
      BY <1>1, <2>1, <2>2 DEF PostXGkick, VUMoves
  <2>3. CASE VUWaitForWork \/ VURingEmpty
      BY <1>1, <2>1, <2>3 DEF VUWaitForWork, VURingEmpty, VUMoves
  <2>4. CASE ExecuteProgram
      BY <1>1, <2>1, <2>4 DEF Counters, ExecuteProgram, VUMoves
  <2>5. CASE ReadWaitNotify \/ ReadWaitCount \/ ReadWaitChange
      BY <1>1, <2>1, <2>5, ReadWaitMoves, WaitPlaces
  <2>6. CASE \/ XGKICK \/ RealignPacket \/ RealignMustWait \/ CopyGSPacketData \/ CopyMustWait
             \/ ExecuteGSPacketMTVU \/ FinishReadAmount \/ FinishPush
      BY <1>1, <2>1, <2>6 DEF XGKICK, RealignPacket, RealignMustWait, CopyGSPacketData,
         CopyMustWait, ExecuteGSPacketMTVU, FinishReadAmount, FinishPush, VUMoves
  <2> QED
      BY <1>3, <2>2, <2>3, <2>4, <2>5, <2>6 DEF VUThread
<1>4. CASE GSThread
  <2>1. vuPrograms' = vuPrograms /\ vpc' = vpc
      BY <1>4, GSOwns
  <2>2. CASE PopPacket
      BY <1>1, <2>1, <2>2 DEF PopPacket, GSMoves
  <2>3. CASE GSWaitForWork \/ GSRingEmpty
      BY <1>1, <2>1, <2>3 DEF GSWaitForWork, GSRingEmpty, GSMoves
  <2>4. CASE TryWaitXGkick
      BY <1>1, <2>1, <2>4 DEF Counters, TryWaitXGkick
  <2>5. CASE WaitXGkick \/ TransferPacket
      BY <1>1, <2>1, <2>5 DEF WaitXGkick, TransferPacket, GSMoves
  <2> QED
      BY <1>4, <2>2, <2>3, <2>4, <2>5 DEF GSThread
<1> QED
    BY <1>2, <1>3, <1>4 DEF Next

LEMMA PairsStep ==
  ASSUME IInv, Next
  PROVE  Pairs'
<1> DEFINE taken == IF gpc \in {"transfer", "pop"} THEN 1 ELSE 0
           posting == IF vpc = "post" THEN 1 ELSE 0
           sending == IF epc = "transfer" THEN 1 ELSE 0
           n == Len(gsPackQueue)
<1>1. /\ n = semaXGkick + taken + posting
      /\ gsCommands + fakePackets + sending = vuPrograms + n - posting
    BY DEF IInv, Pairs, PacketsExpected, OneCommandPerProgram
<1>2. /\ n \in Nat /\ semaXGkick \in Nat /\ gsCommands \in Nat /\ fakePackets \in Nat
      /\ vuPrograms \in Nat /\ taken \in Nat /\ posting \in Nat /\ sending \in Nat
      /\ gsPackQueue \in Seq(AnyPack)
    BY QueueFacts DEF IInv, Counters
<1>3. SUFFICES /\ n' = semaXGkick' + taken' + posting'
               /\ gsCommands' + fakePackets' + sending' = vuPrograms' + n' - posting'
               /\ gpc' = "transfer" => gsPackQueue' # <<>>
    BY DEF Pairs, PacketsExpected, OneCommandPerProgram
<1>4. CASE EEContinues \/ EEBegins
  <2>1. /\ n' = n /\ semaXGkick' = semaXGkick /\ taken' = taken /\ posting' = posting
        /\ gpc' = gpc /\ gsPackQueue' = gsPackQueue
      BY <1>4, EEOwns DEF queueVars
  <2>2. CASE ExecuteVU
      BY <1>1, <1>2, <2>1, <2>2, QueueFacts DEF ExecuteVU, EEMoves
  <2>3. CASE TransferGSPacketData
      BY <1>1, <1>2, <2>1, <2>3, QueueFacts DEF TransferGSPacketData, EEMoves, SendFakePackets
  <2>4. CASE GifResume
      BY <1>1, <1>2, <2>1, <2>4, QueueFacts DEF GifResume, SendFakePackets
  <2>5. CASE KickStart \/ WaitForEmpty \/ WaitReturns \/ GifStall \/ WaitVU \/ WaitGS
    <3>1. UNCHANGED <<gsCommands, fakePackets, vuPrograms>> /\ sending' = sending
        BY <2>5 DEF KickStart, WaitForEmpty, WaitReturns, GifStall, WaitVU, WaitGS, EEMoves
    <3> QED
        BY <1>1, <2>1, <3>1, QueueFacts
  <2> QED
      BY <1>4, <2>2, <2>3, <2>4, <2>5 DEF EEContinues, EEBegins
<1>5. CASE VUThread
  <2>1. UNCHANGED <<gsCommands, fakePackets, gpc>> /\ sending' = sending /\ taken' = taken
      BY <1>5, VUOwns DEF eeVars
  <2>2. CASE FinishPush
    <3>1. /\ gsPackQueue' = Append(gsPackQueue, gsPack) /\ posting = 0 /\ posting' = 1
          /\ UNCHANGED <<semaXGkick, vuPrograms>>
        BY <2>2 DEF FinishPush, VUMoves
    <3>2. n' = n + 1 /\ gsPackQueue' # <<>>
        BY <1>2, <3>1, AppendFacts, PathFacts
    <3> QED
        BY <1>1, <1>2, <2>1, <3>1, <3>2
  <2>3. CASE PostXGkick
    <3>1. /\ posting = 1 /\ posting' = 0 /\ gsPackQueue' = gsPackQueue
          /\ semaXGkick' = semaXGkick + 1 /\ vuPrograms' = vuPrograms - 1
        BY <2>3 DEF PostXGkick, VUMoves
    <3> QED
        BY <1>1, <1>2, <2>1, <3>1, QueueFacts
  <2>4. CASE ReadWaitNotify \/ ReadWaitCount \/ ReadWaitChange
    <3>1. vpc # "post" /\ vpc' # "post" /\ UNCHANGED <<gsPackQueue, semaXGkick, vuPrograms>>
        BY <2>4, ReadWaitMoves, WaitPlaces DEF queueVars
    <3> QED
        BY <1>1, <2>1, <3>1, QueueFacts
  <2>5. CASE \/ VUWaitForWork \/ VURingEmpty \/ ExecuteProgram \/ XGKICK \/ RealignPacket
             \/ RealignMustWait \/ CopyGSPacketData \/ CopyMustWait \/ ExecuteGSPacketMTVU
             \/ FinishReadAmount
    <3>1. UNCHANGED <<gsPackQueue, semaXGkick, vuPrograms>>
        BY <2>5 DEF VUWaitForWork, VURingEmpty, ExecuteProgram, XGKICK, RealignPacket,
           RealignMustWait, CopyGSPacketData, CopyMustWait, ExecuteGSPacketMTVU,
           FinishReadAmount, queueVars
    <3>2. vpc # "post" /\ vpc' # "post"
        BY <2>5 DEF VUWaitForWork, VURingEmpty, ExecuteProgram, XGKICK, RealignPacket,
           RealignMustWait, CopyGSPacketData, CopyMustWait, ExecuteGSPacketMTVU,
           FinishReadAmount, VUMoves, BeginCopy
    <3> QED
        BY <1>1, <2>1, <3>1, <3>2, QueueFacts
  <2> QED
      BY <1>5, <2>2, <2>3, <2>4, <2>5 DEF VUThread
<1>6. CASE GSThread
  <2>1. /\ UNCHANGED <<fakePackets, vuPrograms, vpc>>
        /\ sending' = sending /\ posting' = posting
      BY <1>6, GSOwns DEF eeVars
  <2>2. CASE TryWaitXGkick \/ WaitXGkick
    <3>1. /\ UNCHANGED <<gsPackQueue, gsCommands>> /\ taken = 0
          /\ \/ semaXGkick > 0 /\ semaXGkick' = semaXGkick - 1 /\ taken' = 1
             \/ semaXGkick' = semaXGkick /\ taken' = 0 /\ gpc' # "transfer"
        BY <2>2 DEF TryWaitXGkick, WaitXGkick, GSMoves
    <3>2. n' = n /\ (n >= 1 => gsPackQueue' # <<>>)
        BY <3>1, QueueFacts
    <3> QED
        BY <1>1, <1>2, <2>1, <3>1, <3>2
  <2>3. CASE GSWaitForWork \/ GSRingEmpty \/ TransferPacket
    <3>1. /\ UNCHANGED <<gsPackQueue, gsCommands, semaXGkick>> /\ taken' = taken
          /\ gpc' # "transfer"
        BY <2>3 DEF GSWaitForWork, GSRingEmpty, TransferPacket, GSMoves, queueVars
    <3> QED
        BY <1>1, <2>1, <3>1
  <2>4. CASE PopPacket
    <3>1. /\ gsPackQueue' = Tail(gsPackQueue) /\ gsCommands' = gsCommands - 1
          /\ taken = 1 /\ taken' = 0 /\ semaXGkick' = semaXGkick /\ gpc' # "transfer"
        BY <2>4 DEF PopPacket, GSMoves
    <3>2. n' = n - 1
      <4>1. gsPackQueue # <<>>
          BY <2>4, QueueFacts DEF PopPacket, GSMoves
      <4> QED
          BY <4>1, <3>1, <1>2, TailFacts
    <3> QED
        BY <1>1, <1>2, <2>1, <3>1, <3>2
  <2> QED
      BY <1>6, <2>2, <2>3, <2>4 DEF GSThread
<1> QED
    BY <1>4, <1>5, <1>6 DEF Next

-----------------------------------------------------------------------------
(* Places and positions *)

LEMMA EventStep ==
  ASSUME IInv, Next
  PROVE  SemaEvent!TypeOK' /\ SemEvent!TypeOK'
<1>1. SemaEvent!TypeOK /\ SemEvent!TypeOK
    BY DEF IInv, Places
<1>2. \/ UNCHANGED vuEvent
      \/ SemaEvent!Notify \/ SemaEvent!GoOn \/ SemaEvent!WakeUp \/ SemaEvent!GoIdle
      \/ SemaEvent!EmptyAtOnce \/ SemaEvent!EmptyWait \/ SemaEvent!EmptyReturn
  <2>1. CASE GSThread
      BY <2>1, GSOwns
  <2>2. CASE EEContinues \/ EEBegins
      BY <2>2 DEF EEContinues, EEBegins, TransferGSPacketData, KickStart, WaitForEmpty,
         WaitReturns, ExecuteVU, GifStall, GifResume, WaitVU, WaitGS
  <2>3. CASE VUThread
      BY <2>3 DEF VUThread, VUWaitForWork, VURingEmpty, ExecuteProgram, XGKICK, RealignPacket,
         RealignMustWait, CopyGSPacketData, CopyMustWait, ExecuteGSPacketMTVU, ReadWaitNotify,
         ReadWaitCount, ReadWaitChange, FinishReadAmount, FinishPush, PostXGkick
  <2> QED
      BY <2>1, <2>2, <2>3 DEF Next
<1>3. \/ UNCHANGED gsEvent
      \/ SemEvent!Notify \/ SemEvent!GoOn \/ SemEvent!WakeUp \/ SemEvent!GoIdle
      \/ SemEvent!EmptyAtOnce \/ SemEvent!EmptyWait \/ SemEvent!EmptyReturn
  <2>1. CASE GSThread
      BY <2>1 DEF GSThread, GSWaitForWork, GSRingEmpty, TryWaitXGkick, WaitXGkick,
         TransferPacket, PopPacket
  <2>2. CASE EEContinues \/ EEBegins
      BY <2>2 DEF EEContinues, EEBegins, TransferGSPacketData, KickStart, WaitForEmpty,
         WaitReturns, ExecuteVU, GifStall, GifResume, WaitVU, WaitGS, SendFakePackets
  <2>3. CASE VUThread
      BY <2>3 DEF VUThread, VUWaitForWork, VURingEmpty, ExecuteProgram, XGKICK, RealignPacket,
         RealignMustWait, CopyGSPacketData, CopyMustWait, ExecuteGSPacketMTVU, ReadWaitNotify,
         ReadWaitCount, ReadWaitChange, FinishReadAmount, FinishPush, PostXGkick
  <2> QED
      BY <2>1, <2>2, <2>3 DEF Next
<1>4. SemaEvent!TypeOK'
    BY <1>1, <1>2 DEF SemaEvent!TypeOK, SemaEvent!Notify, SemaEvent!GoOn, SemaEvent!WakeUp,
       SemaEvent!GoIdle, SemaEvent!Release, SemaEvent!EmptyAtOnce, SemaEvent!EmptyWait,
       SemaEvent!EmptyReturn, SemaEvent!vars, vuEvent
<1>5. SemEvent!TypeOK'
    BY <1>1, <1>3 DEF SemEvent!TypeOK, SemEvent!Notify, SemEvent!GoOn, SemEvent!WakeUp,
       SemEvent!GoIdle, SemEvent!Release, SemEvent!EmptyAtOnce, SemEvent!EmptyWait,
       SemEvent!EmptyReturn, SemEvent!vars, gsEvent
<1> QED
    BY <1>4, <1>5

LEMMA PlacesStep ==
  ASSUME IInv, Next
  PROVE  Places'
<1>1. /\ epc \in {"idle", "transfer", "kick", "waitVU", "waitEmpty", "waitGS"}
      /\ vpc \in VUPCs
      /\ gpc \in {"wait", "loop", "semWait", "transfer", "pop"}
      /\ canDoGif \in BOOLEAN
    BY DEF IInv, Places
<1>2. epc' \in {"idle", "transfer", "kick", "waitVU", "waitEmpty", "waitGS"}
  <2>1. CASE EEContinues \/ EEBegins
      BY <1>1, <2>1 DEF EEContinues, EEBegins, TransferGSPacketData, KickStart, WaitForEmpty,
         WaitReturns, ExecuteVU, GifStall, GifResume, WaitVU, WaitGS, EEMoves
  <2>2. CASE VUThread \/ GSThread
      BY <1>1, <2>2, VUOwns, GSOwns DEF eeVars
  <2> QED
      BY <2>1, <2>2 DEF Next
<1>3. canDoGif' \in BOOLEAN
  <2>1. CASE EEContinues \/ EEBegins
      BY <1>1, <2>1 DEF EEContinues, EEBegins, TransferGSPacketData, KickStart, WaitForEmpty,
         WaitReturns, ExecuteVU, GifStall, GifResume, WaitVU, WaitGS
  <2>2. CASE VUThread \/ GSThread
      BY <1>1, <2>2, VUOwns, GSOwns DEF eeVars
  <2> QED
      BY <2>1, <2>2 DEF Next
<1>4. gpc' \in {"wait", "loop", "semWait", "transfer", "pop"}
  <2>1. CASE GSThread
      BY <1>1, <2>1 DEF GSThread, GSWaitForWork, GSRingEmpty, TryWaitXGkick, WaitXGkick,
         TransferPacket, PopPacket, GSMoves
  <2>2. CASE EEContinues \/ EEBegins \/ VUThread
      BY <1>1, <2>2, EEOwns, VUOwns
  <2> QED
      BY <2>1, <2>2 DEF Next
<1>5. vpc' \in VUPCs
  <2>1. CASE EEContinues \/ EEBegins \/ GSThread
      BY <1>1, <2>1, EEOwns, GSOwns
  <2>2. CASE ReadWaitNotify \/ ReadWaitCount \/ ReadWaitChange
      BY <2>2, ReadWaitMoves DEF VUPCs
  <2>3. CASE \/ VUWaitForWork \/ VURingEmpty \/ ExecuteProgram \/ XGKICK \/ RealignPacket
             \/ RealignMustWait \/ CopyGSPacketData \/ CopyMustWait \/ ExecuteGSPacketMTVU
             \/ FinishReadAmount \/ FinishPush \/ PostXGkick
      BY <1>1, <2>3, WaitPlaces DEF VUPCs, VUWaitForWork, VURingEmpty, ExecuteProgram, XGKICK,
         RealignPacket, RealignMustWait, CopyGSPacketData, CopyMustWait, ExecuteGSPacketMTVU,
         FinishReadAmount, FinishPush, PostXGkick, VUMoves, BeginCopy
  <2> QED
      BY <2>1, <2>2, <2>3 DEF Next, VUThread
<1> QED
    BY <1>2, <1>3, <1>4, <1>5, EventStep DEF Places

LEMMA PathStep ==
  ASSUME IInv, Next
  PROVE  Path'
<1>1. Path
    BY DEF IInv
<1>2. CASE EEContinues \/ EEBegins
    BY <1>1, <1>2, EEOwns DEF Path, vuLocals, pathVars, queueVars
<1>3. CASE VUWaitForWork \/ VURingEmpty \/ RealignMustWait \/ CopyMustWait \/ PostXGkick
    BY <1>1, <1>3 DEF Path, VUWaitForWork, VURingEmpty, RealignMustWait, CopyMustWait,
       PostXGkick, vuLocals, pathVars, queueVars
<1>4. CASE ReadWaitNotify \/ ReadWaitCount \/ ReadWaitChange
    BY <1>1, <1>4, ReadWaitMoves DEF Path, pathVars, queueVars
<1>5. CASE ExecuteProgram
    BY <1>1, <1>5 DEF Path, ExecuteProgram, pathVars, queueVars
<1>6. CASE XGKICK
  <2>1. kicks' \in 0 .. MaxKicks
      BY <1>1, <1>6, Sizes DEF Path, XGKICK
  <2>2. size' \in 0 .. BuffSize /\ rest' \in 0 .. BuffSize
    <3>1. PICK kick \in Kicks : size' = kick[1] /\ rest' = kick[2]
        BY <1>6 DEF XGKICK
    <3>2. kick[1] \in 1 .. BuffSize /\ kick[2] \in 0 .. BuffSize
        BY Sizes
    <3> QED
        BY <3>1, <3>2, Sizes
  <2> QED
      BY <1>1, <1>6, <2>1, <2>2 DEF Path, XGKICK, pathVars, queueVars
<1>7. CASE RealignPacket
  <2>1. gsPack' \in AnyPack /\ curSize' \in Nat /\ curOffset' \in Nat
      BY <1>7, RealignDoes, PathFacts
  <2> QED
      BY <1>1, <1>7, <2>1 DEF Path, RealignPacket, vuLocals, queueVars
<1>8. CASE CopyGSPacketData
    BY <1>1, <1>8, Sizes DEF Path, CopyGSPacketData, queueVars
<1>9. CASE ExecuteGSPacketMTVU
  <2>1. gsPack' \in AnyPack /\ curSize' \in Nat /\ curOffset' \in Nat
      BY <1>9, TagsDo, PathFacts
  <2> QED
      BY <1>1, <1>9, <2>1 DEF Path, ExecuteGSPacketMTVU, vuLocals, queueVars
<1>10. CASE FinishReadAmount
  <2>1. readAmount' \in Int
      BY <1>1, <1>10, PathFacts DEF Path, FinishReadAmount
  <2> QED
      BY <1>1, <1>10, <2>1 DEF Path, FinishReadAmount, vuLocals, pathVars
<1>11. CASE FinishPush
  <2>1. gsPackQueue' \in Seq(AnyPack) /\ gsPack' \in AnyPack
      BY <1>1, <1>11, AppendFacts, NewPackFacts DEF Path, FinishPush
  <2> QED
      BY <1>1, <1>11, <2>1 DEF Path, FinishPush, vuLocals
<1>12. CASE GSWaitForWork \/ GSRingEmpty \/ TryWaitXGkick \/ WaitXGkick
    BY <1>1, <1>12 DEF Path, GSWaitForWork, GSRingEmpty, TryWaitXGkick, WaitXGkick, GSOnly,
       vuLocals, pathVars, queueVars
<1>13. CASE TransferPacket
  <2>1. readAmount' = readAmount - Head(gsPackQueue).size - Head(gsPackQueue).readAmount
      BY <1>13, QueueFacts DEF TransferPacket, GSMoves
  <2>2. Head(gsPackQueue) \in AnyPack
      BY <1>13, QueueFacts, TailFacts DEF TransferPacket, GSMoves
  <2>3. readAmount' \in Int
      BY <1>1, <2>1, <2>2, PackFacts DEF Path
  <2> QED
      BY <1>1, <1>13, <2>3 DEF Path, TransferPacket, GSOnly, vuLocals, pathVars
<1>14. CASE PopPacket
  <2>1. gsPackQueue' \in Seq(AnyPack)
      BY <1>14, QueueFacts, TailFacts DEF PopPacket, GSMoves
  <2> QED
      BY <1>1, <1>14, <2>1 DEF Path, PopPacket, GSOnly, vuLocals, pathVars
<1> QED
    BY <1>2, <1>3, <1>4, <1>5, <1>6, <1>7, <1>8, <1>9, <1>10, <1>11, <1>12, <1>13, <1>14
    DEF Next, VUThread, GSThread

LEMMA BuiltStep ==
  ASSUME IInv, Next
  PROVE  Built'
<1>1. /\ gsPack.offset + gsPack.size = curOffset /\ curOffset <= curSize
      /\ vpc \notin Copying => curOffset = curSize
    BY DEF IInv, Built
<1>2. Copying = {"realign", "realignTags", "copy", "tags",
                 "realignNotify", "realignTagsNotify", "copyNotify",
                 "realignCount", "realignTagsCount", "copyCount",
                 "realignChange", "realignTagsChange", "copyChange"}
    BY WaitPlaces DEF Copying
<1>3. CASE EEContinues \/ EEBegins \/ GSThread
    BY <1>1, <1>3, EEOwns, GSOwns DEF Built, pathVars
<1>4. CASE \/ VUWaitForWork \/ VURingEmpty \/ ExecuteProgram \/ FinishReadAmount \/ PostXGkick
  <2>1. UNCHANGED <<gsPack, curOffset, curSize>> /\ vpc \notin Copying
      BY <1>2, <1>4 DEF VUWaitForWork, VURingEmpty, ExecuteProgram, FinishReadAmount,
         PostXGkick, VUMoves, pathVars
  <2> QED
      BY <1>1, <2>1 DEF Built
<1>5. CASE ReadWaitNotify \/ ReadWaitCount \/ ReadWaitChange
  <2>1. UNCHANGED <<gsPack, curOffset, curSize>> /\ vpc' \in Copying
      BY <1>5, ReadWaitMoves DEF Copying, pathVars
  <2> QED
      BY <1>1, <2>1 DEF Built
<1>6. CASE XGKICK \/ RealignMustWait \/ CopyMustWait
  <2>1. UNCHANGED <<gsPack, curOffset, curSize>> /\ vpc' \in Copying
      BY <1>2, <1>6 DEF XGKICK, RealignMustWait, CopyMustWait, VUMoves, BeginCopy, pathVars
  <2> QED
      BY <1>1, <2>1 DEF Built
<1>7. CASE RealignPacket
  <2>1. vpc' \in Copying
      BY <1>2, <1>7 DEF RealignPacket, VUMoves
  <2>2. /\ gsPack'.offset = 0 /\ gsPack'.size = gsPack.size
        /\ curSize' = curSize - gsPack.offset /\ curOffset' = gsPack.size
      BY <1>7, RealignDoes
  <2> QED
      BY <1>1, <2>1, <2>2, PathFacts DEF Built
<1>8. CASE CopyGSPacketData
  <2>1. vpc' \in Copying
      BY <1>2, <1>8 DEF CopyGSPacketData, BeginCopy
  <2>2. /\ UNCHANGED <<gsPack, curOffset>> /\ curSize' = curSize + size /\ size \in Nat
      BY <1>8, Sizes DEF CopyGSPacketData, IInv, Path
  <2> QED
      BY <1>1, <2>1, <2>2, PathFacts DEF Built
<1>9. CASE ExecuteGSPacketMTVU
    BY <1>1, <1>9, TagsDo, PathFacts DEF Built
<1>10. CASE FinishPush
  <2>1. curOffset = curSize /\ UNCHANGED <<curOffset, curSize>> /\ gsPack' = NewPack(curOffset)
      BY <1>1, <1>2, <1>10 DEF FinishPush, VUMoves
  <2> QED
      BY <2>1, NewPackFacts, PathFacts DEF Built
<1> QED
    BY <1>3, <1>4, <1>5, <1>6, <1>7, <1>8, <1>9, <1>10 DEF Next, VUThread

-----------------------------------------------------------------------------
(* The two steps that write *)

LEMMA RealignIsSafe ==
  ASSUME IInv, RealignPacket, NEW behind, Accounts(Pending, behind, readAmount, gsPack)
  PROVE  /\ \A k \in 1 .. Len(Pending) : Pending[k].size > 0 => Pending[k].offset >= PackSize
         /\ Accounts(Pending, behind, readAmount, gsPack')
<1>1. readAmount \in Int /\ Pending \in Seq(AnyPack)
    BY QueueFacts DEF IInv, Path
<1>2. \/ gsPack.offset - (readAmount + gsPack.readAmount) >= PackSize
      \/ gsPack.offset - (readAmount + gsPack.readAmount) >= gsPack.offset
  <2>1. gsPack.offset - getReadAmount >= PackSize - Max({PackSize - gsPack.offset, 0})
      BY PathFacts DEF RealignPacket, RealignSpace
  <2>2. PackSize - gsPack.offset \in Int
      BY PathFacts
  <2>3. Max({PackSize - gsPack.offset, 0})
          = IF PackSize - gsPack.offset >= 0 THEN PackSize - gsPack.offset ELSE 0
      BY <2>2, MaxFacts
  <2>4. getReadAmount = readAmount + gsPack.readAmount
      BY DEF getReadAmount
  <2>5. \/ gsPack.offset - getReadAmount >= PackSize
        \/ gsPack.offset - getReadAmount >= PackSize - (PackSize - gsPack.offset)
      BY <2>1, <2>3, PathFacts
  <2> QED
      BY <2>4, <2>5, PathFacts
<1>3. PICK gap \in Nat :
        /\ gap = (IF BuffLimit - gsPack.offset >= 0 THEN BuffLimit - gsPack.offset ELSE 0)
        /\ gsPack'.offset = 0 /\ gsPack'.readAmount = gsPack.readAmount + gap
    BY RealignDoes
<1>4. gap >= BuffLimit - gsPack.offset
    BY <1>3, PathFacts, Sizes
<1> QED
    BY <1>1, <1>2, <1>3, <1>4, Realigned, PathFacts

LEMMA CopyIsSafe ==
  ASSUME IInv, CopyGSPacketData, NEW behind, Accounts(Pending, behind, readAmount, gsPack)
  PROVE  \A k \in 1 .. Len(Pending) :
           Pending[k].size > 0 => \/ Pending[k].offset + Pending[k].size <= curSize
                                  \/ curSize + size <= Pending[k].offset
<1>1. /\ readAmount \in Int /\ Pending \in Seq(AnyPack) /\ size \in Nat
    BY QueueFacts, Sizes DEF IInv, Path
<1>2. gsPack.offset <= curSize
    BY PathFacts
<1>3. \/ gsPack.offset - (readAmount + gsPack.readAmount) >= 0
      \/ BuffLimit + (gsPack.offset - (readAmount + gsPack.readAmount)) > curSize + size
    BY PathFacts DEF CopyGSPacketData, FrontSpace, getReadAmount
<1> QED
    BY <1>1, <1>2, <1>3, Copied, PathFacts

LEMMA TailOfAppend ==
  ASSUME NEW q \in Seq(AnyPack), NEW p \in AnyPack, q # <<>>
  PROVE  Tail(Append(q, p)) = Append(Tail(q), p)
<1> DEFINE l == Tail(Append(q, p))
           r == Append(Tail(q), p)
<1>1. /\ Tail(q) \in Seq(AnyPack) /\ Len(Tail(q)) = Len(q) - 1 /\ Len(q) \in Nat /\ Len(q) >= 1
      /\ \A k \in 1 .. Len(Tail(q)) : Tail(q)[k] = q[k + 1]
    BY TailFacts
<1>2. /\ Append(q, p) \in Seq(AnyPack) /\ Append(q, p) # <<>> /\ Len(Append(q, p)) = Len(q) + 1
      /\ \A k \in 1 .. Len(q) : Append(q, p)[k] = q[k]
      /\ Append(q, p)[Len(q) + 1] = p
    BY AppendFacts
<1>3. /\ l \in Seq(AnyPack) /\ Len(l) = Len(q)
      /\ \A k \in 1 .. Len(q) : l[k] = Append(q, p)[k + 1]
    BY <1>1, <1>2, TailFacts
<1>4. /\ r \in Seq(AnyPack) /\ Len(r) = Len(q)
      /\ \A k \in 1 .. Len(q) - 1 : r[k] = q[k + 1]
      /\ r[Len(q)] = p
    BY <1>1, AppendFacts
<1> HIDE DEF l, r
<1>5. ASSUME NEW k \in 1 .. Len(l) PROVE l[k] = r[k]
  <2>1. CASE k = Len(q)
      BY <2>1, <1>1, <1>2, <1>3, <1>4
  <2>2. CASE k \in 1 .. Len(q) - 1
      BY <2>2, <1>1, <1>2, <1>3, <1>4
  <2> QED
      BY <2>1, <2>2, <1>1, <1>3
<1>6. l = r
    BY <1>3, <1>4, <1>5, SeqEqual
<1> QED
    BY <1>6 DEF l, r

-----------------------------------------------------------------------------
(* The accounts of the queue *)

\* A step that neither counts, queues nor reads.
LEMMA SameAccounts ==
  ASSUME IInv, UNCHANGED <<readAmount, gsPackQueue>>,
         gsPack'.offset = gsPack.offset, gsPack'.readAmount = gsPack.readAmount,
         vpc = "push" => gsPack' = gsPack,
         vpc' = "push" <=> vpc = "push", gpc' = "pop" <=> gpc = "pop"
  PROVE  Accounted'
<1>1. Pending' = Pending
    BY DEF Pending
<1>2. Finished' = Finished
    BY DEF Finished
<1>3. PICK behind \in [1 .. Len(Pending) + 1 -> Nat] :
        Accounts(Pending, behind, Finished, gsPack)
    BY DEF IInv, Accounted
<1>4. Accounts(Pending, behind, Finished, gsPack')
    BY <1>3 DEF Accounts
<1> QED
    BY <1>1, <1>2, <1>3, <1>4 DEF Accounted

LEMMA AccountedStep ==
  ASSUME IInv, Next
  PROVE  Accounted'
<1>1. PICK behind \in [1 .. Len(Pending) + 1 -> Nat] :
        Accounts(Pending, behind, Finished, gsPack)
    BY DEF IInv, Accounted
<1>2. readAmount \in Int /\ gsPackQueue \in Seq(AnyPack)
    BY DEF IInv, Path
<1>3. CASE EEContinues \/ EEBegins
    BY <1>3, EEOwns, SameAccounts DEF pathVars, queueVars
<1>4. CASE \/ VUWaitForWork \/ VURingEmpty \/ ExecuteProgram \/ XGKICK \/ RealignMustWait
           \/ CopyGSPacketData \/ CopyMustWait \/ PostXGkick
  <2>1. /\ UNCHANGED <<readAmount, gsPackQueue, gsPack>> /\ vpc # "push" /\ vpc' # "push"
      BY <1>4 DEF VUWaitForWork, VURingEmpty, ExecuteProgram, XGKICK, RealignMustWait,
         CopyGSPacketData, CopyMustWait, PostXGkick, VUMoves, BeginCopy, pathVars, queueVars
  <2>2. gpc' = gpc
      BY <1>4, VUOwns DEF VUThread
  <2> QED
      BY <2>1, <2>2, SameAccounts
<1>5. CASE ReadWaitNotify \/ ReadWaitCount \/ ReadWaitChange
  <2>1. vpc # "push" /\ vpc' # "push" /\ UNCHANGED <<readAmount, gsPackQueue, gsPack, gpc>>
      BY <1>5, ReadWaitMoves, WaitPlaces DEF pathVars, queueVars
  <2> QED
      BY <2>1, SameAccounts
<1>6. CASE ExecuteGSPacketMTVU
  <2>1. /\ vpc # "push" /\ vpc' # "push" /\ UNCHANGED <<readAmount, gsPackQueue, gpc>>
      BY <1>6 DEF ExecuteGSPacketMTVU, VUMoves, VUOnly, queueVars
  <2> QED
      BY <1>6, <2>1, TagsDo, SameAccounts
<1>7. CASE RealignPacket
  <2>1. /\ vpc # "push" /\ vpc' # "push" /\ UNCHANGED <<readAmount, gsPackQueue, gpc>>
      BY <1>7 DEF RealignPacket, VUMoves, VUOnly, queueVars
  <2>2. Finished = readAmount /\ Finished' = readAmount /\ Pending' = Pending
      BY <1>2, <2>1 DEF Pending, Finished
  <2>3. Accounts(Pending, behind, readAmount, gsPack')
      BY <1>1, <1>7, <2>2, RealignIsSafe
  <2> QED
      BY <1>1, <2>2, <2>3 DEF Accounted
<1>8. CASE FinishReadAmount
  <2>1. /\ vpc = "run" /\ vpc' = "push" /\ UNCHANGED <<gsPackQueue, gpc, gsPack>>
        /\ readAmount' = readAmount + gsPack.size + gsPack.readAmount
      BY <1>8 DEF FinishReadAmount, VUMoves, VUOnly, pathVars
  <2>2. Pending' = Pending
      BY <2>1 DEF Pending
  <2>3. Finished = readAmount /\ Finished' = readAmount' - Amount(gsPack)
      BY <1>2, <2>1 DEF Finished
  <2>4. Finished' = Finished
      BY <1>2, <2>1, <2>3, PathFacts, SMTT(30)
  <2> QED
      BY <1>1, <2>1, <2>2, <2>4 DEF Accounted
<1>9. CASE FinishPush
  <2>1. /\ vpc = "push" /\ vpc' = "post" /\ UNCHANGED <<readAmount, gpc>>
        /\ gsPackQueue' = Append(gsPackQueue, gsPack) /\ gsPack' = NewPack(curOffset)
      BY <1>9 DEF FinishPush, VUMoves, VUOnly
  <2>2. Pending' = Append(Pending, gsPack)
    <3>1. CASE gpc = "pop"
      <4>1. gsPackQueue # <<>>
          BY <3>1, QueueFacts
      <4>2. Tail(Append(gsPackQueue, gsPack)) = Append(Tail(gsPackQueue), gsPack)
          BY <4>1, <1>2, TailOfAppend, PathFacts
      <4> QED
          BY <3>1, <4>2, <2>1 DEF Pending
    <3>2. CASE gpc # "pop"
        BY <3>2, <2>1 DEF Pending
    <3> QED
        BY <3>1, <3>2
  <2>3. Finished + Amount(gsPack) = readAmount /\ Finished' = readAmount
      BY <1>2, <2>1, PathFacts DEF Finished
  <2>4. gsPack' = NewPack(gsPack.offset + gsPack.size)
      BY <2>1 DEF IInv, Built
  <2>5. \E b \in [1 .. Len(Append(Pending, gsPack)) + 1 -> Nat] :
          Accounts(Append(Pending, gsPack), b, Finished + Amount(gsPack),
                   NewPack(gsPack.offset + gsPack.size))
      BY <1>1, AddLast, QueueFacts, PathFacts
  <2> QED
      BY <2>2, <2>3, <2>4, <2>5 DEF Accounted
<1>10. CASE GSWaitForWork \/ GSRingEmpty \/ TryWaitXGkick \/ WaitXGkick
  <2>1. /\ UNCHANGED <<readAmount, gsPackQueue, gsPack, vpc>> /\ gpc # "pop" /\ gpc' # "pop"
      BY <1>10 DEF GSWaitForWork, GSRingEmpty, TryWaitXGkick, WaitXGkick, GSMoves, GSOnly,
         pathVars, queueVars
  <2> QED
      BY <2>1, SameAccounts
<1>11. CASE TransferPacket
  <2>1. /\ gpc = "transfer" /\ gpc' = "pop" /\ UNCHANGED <<gsPackQueue, gsPack, vpc>>
        /\ gsPackQueue # <<>>
        /\ readAmount' = readAmount - Head(gsPackQueue).size - Head(gsPackQueue).readAmount
      BY <1>11, QueueFacts DEF TransferPacket, GSMoves, GSOnly, pathVars
  <2>2. Pending = gsPackQueue /\ Pending' = Tail(gsPackQueue)
      BY <2>1 DEF Pending
  <2>3. Finished' = Finished - Amount(Head(gsPackQueue))
    <3>1. /\ Head(gsPackQueue).size \in Nat /\ Head(gsPackQueue).readAmount \in Nat
        BY <2>1, <1>2, TailFacts, PackFacts
    <3>2. readAmount' = readAmount - Amount(Head(gsPackQueue)) /\ Amount(Head(gsPackQueue)) \in Int
        BY <3>1, <2>1, <1>2 DEF Amount
    <3>3. Amount(gsPack)' = Amount(gsPack) /\ Amount(gsPack) \in Int
        BY <2>1, PathFacts
    <3> QED
        BY <3>2, <3>3, <2>1, <1>2 DEF Finished
  <2>4. \E b \in [1 .. Len(Tail(gsPackQueue)) + 1 -> Nat] :
          Accounts(Tail(gsPackQueue), b, Finished - Amount(Head(gsPackQueue)), gsPack)
      BY <1>1, <1>2, <2>1, <2>2, ReadFirst, PathFacts
  <2> QED
      BY <2>1, <2>2, <2>3, <2>4 DEF Accounted
<1>12. CASE PopPacket
  <2>1. /\ gpc = "pop" /\ gpc' = "loop" /\ UNCHANGED <<readAmount, gsPack, vpc>>
        /\ gsPackQueue' = Tail(gsPackQueue)
      BY <1>12 DEF PopPacket, GSMoves, GSOnly, pathVars
  <2>2. Pending' = Pending /\ Finished' = Finished
      BY <2>1 DEF Pending, Finished
  <2> QED
      BY <1>1, <2>1, <2>2 DEF Accounted
<1> QED
    BY <1>3, <1>4, <1>5, <1>6, <1>7, <1>8, <1>9, <1>10, <1>11, <1>12
    DEF Next, VUThread, GSThread

-----------------------------------------------------------------------------
LEMMA InitIInv == Init => IInv
<1> SUFFICES ASSUME Init PROVE IInv
    OBVIOUS
<1> USE DEF Init
<1>1. Counters
    BY Sizes DEF Counters
<1>2. Places
    BY DEF Places, VUPCs, SemaEvent!Init, SemEvent!Init, SemaEvent!TypeOK, SemEvent!TypeOK
<1>3. Path /\ Built
    BY Sizes, NewPackFacts DEF Path, Built
<1>4. Working /\ Pairs
    BY DEF Working, Pairs, PacketsExpected, OneCommandPerProgram
<1>5. Accounted
  <2> DEFINE behind == [k \in 1 .. 1 |-> 0]
  <2>1. Pending = <<>> /\ Len(Pending) = 0
      BY DEF Pending
  <2>2. Finished = 0
      BY DEF Finished
  <2>3. Sums(<<>>, behind)
      BY DEF Sums
  <2>4. Accounts(<<>>, behind, 0, gsPack)
      BY <2>3 DEF Accounts, Laid
  <2>5. behind \in [1 .. Len(Pending) + 1 -> Nat]
      BY <2>1
  <2> QED
      BY <2>1, <2>2, <2>4, <2>5 DEF Accounted
<1> QED
    BY <1>1, <1>2, <1>3, <1>4, <1>5 DEF IInv

LEMMA StepIInv == IInv /\ [Next]_vars => IInv'
<1> SUFFICES ASSUME IInv, [Next]_vars PROVE IInv'
    OBVIOUS
<1>1. CASE Next
    BY <1>1, CountersStep, PlacesStep, PathStep, BuiltStep, WorkingStep, PairsStep,
       AccountedStep DEF IInv
<1>2. CASE UNCHANGED vars
  <2>1. /\ UNCHANGED <<epc, fakePackets, canDoGif, vuPrograms, vuNotified, vuPhase, vuWaiter>>
        /\ UNCHANGED <<gsCommands, gsNotified, gsPhase, gsWaiter, vpc, kicks, size, rest>>
        /\ UNCHANGED <<startP1Packs, gsPack, curOffset, curSize, readAmount, gsPackQueue>>
        /\ UNCHANGED <<semaXGkick, gpc>>
      BY <1>2 DEF vars, eeVars, vuEvent, gsEvent, vuLocals, pathVars, queueVars
  <2>2. Counters' /\ Places' /\ Path' /\ Built' /\ Working' /\ Pairs'
      BY <2>1 DEF IInv, Counters, Places, SemaEvent!TypeOK, SemEvent!TypeOK, Path, Built,
         Working, Pairs, PacketsExpected, OneCommandPerProgram
  <2>3. Accounted'
      BY <2>1, SameAccounts
  <2> QED
      BY <2>2, <2>3 DEF IInv
<1> QED
    BY <1>1, <1>2

\* The invariant that all results but the bounds rest on.
THEOREM Invariance == Spec => []IInv
  BY InitIInv, StepIInv, PTL DEF Spec

-----------------------------------------------------------------------------
(* The results that need no bound on programs *)

\* The GS thread finds a packet for every token it took: "MTVU: Expected
\* gsPackQueue to have elements!" (MTGS.cpp) is never printed.
THEOREM TokensHavePackets == Spec => []PacketsExpected
<1>1. IInv => PacketsExpected
    BY DEF IInv, Pairs
<1> QED
    BY <1>1, Invariance, PTL

\* Every program has one command and one packet, in the same order, whatever the
\* GIF held back: TransferGSPacketData, Execute and FinishGSPacketMTVU agree.
THEOREM CommandsArePaired == Spec => []OneCommandPerProgram
<1>1. IInv => OneCommandPerProgram
    BY DEF IInv, Pairs
<1> QED
    BY <1>1, Invariance, PTL

\* readAmount is the sum of what is pending, although one thread adds to it
\* before it queues a packet and the other subtracts before it pops one.
THEOREM ReadAmountIsTheSum == Spec => []ReadAmountAgrees
<1>1. IInv => ReadAmountAgrees
  <2> SUFFICES ASSUME IInv PROVE ReadAmountAgrees
      OBVIOUS
  <2>1. PICK f \in [1 .. Len(Pending) + 1 -> Nat] : Accounts(Pending, f, Finished, gsPack)
      BY DEF IInv, Accounted
  <2>2. /\ Pending \in Seq(AnyPack) /\ readAmount \in Int
        /\ Len(Pending) \in Nat /\ DOMAIN Pending = 1 .. Len(Pending)
      BY QueueFacts, SeqFacts DEF IInv, Path
  <2>3. /\ f[Len(Pending) + 1] = 0 /\ f[1] = Finished /\ f[1] \in Nat
        /\ \A k \in 1 .. Len(Pending) : f[k] = Amount(Pending[k]) + f[k + 1] /\ f[k] <= f[1]
    <3>1. 1 \in 1 .. Len(Pending) + 1
        BY <2>2
    <3>2. \A k \in 1 .. Len(Pending) : k \in 1 .. Len(Pending) + 1 /\ 1 <= k
        BY <2>2
    <3> QED
        BY <2>1, <2>2, <3>1, <3>2 DEF Accounts, Sums
  <2>4. readAmount = f[1] + (IF vpc = "push" THEN Amount(gsPack) ELSE 0) /\ f[1] <= readAmount
      BY <2>2, <2>3, PathFacts DEF Finished
  <2> DEFINE behind == [k \in DOMAIN Pending |-> f[k]]
             Behind(k) == IF k > Len(Pending) THEN 0 ELSE behind[k]
  <2>5. behind \in [DOMAIN Pending -> 0 .. readAmount]
    <3>1. ASSUME NEW k \in DOMAIN Pending PROVE f[k] \in 0 .. readAmount
      <4>1. k \in 1 .. Len(Pending) + 1
          BY <2>2
      <4>2. f[k] \in Nat /\ f[k] <= f[1]
          BY <4>1, <2>2, <2>3
      <4> QED
          BY <4>2, <2>2, <2>3, <2>4
    <3> QED
        BY <3>1
  <2>6. \A k \in 1 .. Len(Pending) + 1 : Behind(k) = f[k]
      BY <2>2, <2>3
  <2> HIDE DEF behind
  <2>7. \A k \in DOMAIN Pending : Behind(k) = Amount(Pending[k]) + Behind(k + 1)
    <3> TAKE k \in DOMAIN Pending
    <3>1. k \in 1 .. Len(Pending) /\ k \in 1 .. Len(Pending) + 1 /\ k + 1 \in 1 .. Len(Pending) + 1
        BY <2>2
    <3> QED
        BY <3>1, <2>3, <2>6
  <2>8. readAmount = Behind(1) + IF vpc = "push" THEN Amount(gsPack) ELSE 0
    <3>1. 1 \in 1 .. Len(Pending) + 1
        BY <2>2
    <3> QED
        BY <3>1, <2>4, <2>6
  <2> HIDE DEF Behind
  <2>9. \E b \in [DOMAIN Pending -> 0 .. readAmount] :
          LET Rest(k) == IF k > Len(Pending) THEN 0 ELSE b[k]
          IN /\ \A k \in DOMAIN Pending : Rest(k) = Amount(Pending[k]) + Rest(k + 1)
             /\ readAmount = Rest(1) + IF vpc = "push" THEN Amount(gsPack) ELSE 0
      BY <2>5, <2>7, <2>8 DEF Behind
  <2> QED
      BY <2>9 DEF ReadAmountAgrees
<1> QED
    BY <1>1, Invariance, PTL

LEMMA WrittenIsFree ==
  ASSUME IInv, Next
  PROVE  Written \cap PendingCells = {}
<1>1. /\ Pending \in Seq(AnyPack) /\ DOMAIN Pending = 1 .. Len(Pending)
      /\ curSize \in Nat /\ gsPack.offset \in Nat
    BY QueueFacts, SeqFacts, PathFacts
<1>2. PICK behind \in [1 .. Len(Pending) + 1 -> Nat] :
        Accounts(Pending, behind, Finished, gsPack)
    BY DEF IInv, Accounted
<1>3. vpc # "push" => Finished = readAmount
    BY DEF Finished, IInv, Path
<1>4. ASSUME NEW x \in PendingCells
      PROVE  \E k \in 1 .. Len(Pending) :
               /\ Pending[k].offset \in Nat /\ Pending[k].size \in Nat /\ Pending[k].size > 0
               /\ x \in Nat
               /\ Pending[k].offset <= x /\ x < Pending[k].offset + Pending[k].size
  <2>1. PICK k \in 1 .. Len(Pending) :
          x \in Pending[k].offset .. Pending[k].offset + Pending[k].size - 1
      BY <1>1 DEF PendingCells
  <2>2. Pending[k].offset \in Nat /\ Pending[k].size \in Nat
      BY <1>1, SeqFacts, PackFacts
  <2> QED
      BY <2>1, <2>2
<1>5. CASE RealignPacket
  <2>1. vpc # "push" /\ gsPack'.offset = 0 /\ curSize' = PackSize /\ curSize' <= curSize
        /\ curSize' \in Nat
      BY <1>5, RealignDoes, PathFacts DEF RealignPacket, VUMoves
  <2>2. \A k \in 1 .. Len(Pending) : Pending[k].size > 0 => Pending[k].offset >= PackSize
      BY <1>2, <1>3, <1>5, <2>1, RealignIsSafe
  <2>3. \A x \in Written : x \in Int /\ x < PackSize
      BY <2>1, <1>1 DEF Written
  <2> QED
      BY <2>1, <2>2, <2>3, <1>4
<1>6. CASE CopyGSPacketData
  <2>1. /\ vpc # "push" /\ gsPack' = gsPack /\ curSize' = curSize + size /\ size \in Nat
      BY <1>6, Sizes DEF CopyGSPacketData, IInv, Path
  <2>2. \A k \in 1 .. Len(Pending) :
          Pending[k].size > 0 => \/ Pending[k].offset + Pending[k].size <= curSize
                                 \/ curSize + size <= Pending[k].offset
      BY <1>2, <1>3, <1>6, <2>1, CopyIsSafe
  <2>3. \A x \in Written : x \in Int /\ curSize <= x /\ x < curSize + size
      BY <2>1, <1>1 DEF Written
  <2> QED
      BY <2>1, <2>2, <2>3, <1>1, <1>4
<1>7. CASE ~RealignPacket /\ ~CopyGSPacketData
  <2>1. curSize' = curSize /\ (gsPack'.offset = gsPack.offset \/ vpc = "push")
    <3>1. CASE EEContinues \/ EEBegins \/ GSThread
        BY <3>1, EEOwns, GSOwns DEF pathVars
    <3>2. CASE ReadWaitNotify \/ ReadWaitCount \/ ReadWaitChange
        BY <3>2, ReadWaitMoves DEF pathVars
    <3>3. CASE ExecuteGSPacketMTVU
        BY <3>3, TagsDo
    <3>4. CASE \/ VUWaitForWork \/ VURingEmpty \/ ExecuteProgram \/ XGKICK \/ RealignMustWait
               \/ CopyMustWait \/ FinishReadAmount \/ FinishPush \/ PostXGkick
        BY <3>4 DEF VUWaitForWork, VURingEmpty, ExecuteProgram, XGKICK, RealignMustWait,
           CopyMustWait, FinishReadAmount, FinishPush, PostXGkick, VUMoves, pathVars
    <3> QED
        BY <1>7, <3>1, <3>2, <3>3, <3>4 DEF Next, VUThread
  <2>2. Written = {}
      BY <2>1, <1>1 DEF Written
  <2> QED
      BY <2>2
<1> QED
    BY <1>5, <1>6, <1>7

\* The VU thread never writes over data that the GS thread has still to read,
\* whatever the sizes of buffer, limit and kicks (FrontSpace of CopyGSPacketData
\* and the condition of RealignPacket, Gif_Unit.h).
THEOREM DataAreSafe == Spec => DataIntact
<1>1. IInv /\ [Next]_vars => [Written \cap PendingCells = {}]_vars
    BY WrittenIsFree
<1> QED
    BY <1>1, Invariance, PTL DEF Spec, DataIntact

-----------------------------------------------------------------------------
(* Programs that fit *)

\* As many of the longest kicks as a program may have do not reach the limit.  (In
\* the code VU memory bounds a kick, and nothing bounds their number.)
Fitting(n) ==
  /\ \A kick \in Kicks : kick[1] + kick[2] <= n
  /\ MaxKicks * n <= BuffLimit

ProgramsFit == \E n \in Nat : Fitting(n)
Longest == CHOOSE n \in Nat : Fitting(n) /\ \A m \in Nat : Fitting(m) => n <= m

\* The most that n kicks copy.
Most(n) == n * Longest

Kicking == {"realign", "realignNotify", "realignCount", "realignChange",
            "copy", "copyNotify", "copyCount", "copyChange"}
InCopy == {"copy", "copyNotify", "copyCount", "copyChange"}
InRealign == Kicking \ InCopy
InRealignTags == {"realignTags", "realignTagsNotify", "realignTagsCount", "realignTagsChange"}

\* What a program has copied and may still copy; between programs, nothing.
Extent ==
  /\ PackSize + size + rest + Most(kicks) <= Most(MaxKicks)
       \/ vpc \in {"wait", "loop", "post"}
  /\ vpc \in {"wait", "loop", "post"} => gsPack.size = 0 /\ gsPack.readAmount = 0
  /\ vpc \notin Kicking => size = 0 /\ rest = 0

\* Only a packet at the start of the buffer has left a gap, at most the limit.
Gap == gsPack.readAmount <= BuffLimit /\ (gsPack.readAmount > 0 => gsPack.offset = 0)

\* The unfinished packet moves only if it must, which it need not twice.
Crowded ==
  /\ vpc \in InRealign => curSize + size > BuffSize
  /\ vpc \in InRealignTags => curOffset > BuffLimit

Room == curSize <= BuffSize /\ (vpc \in InCopy => curSize + size <= BuffSize)

\* What a wait compares with is a number of packets.
Waited == startP1Packs <= MaxPrograms

Bounded ==
  /\ Extent
  /\ Gap
  /\ Crowded
  /\ Room
  /\ Waited
  /\ gsPackQueue \in Seq(Pack)

\* The least of a set of numbers, from the library's well-founded relations.
LEMMA Least ==
  ASSUME NEW S, S \subseteq Nat, S # {}
  PROVE  \E n \in S : \A m \in S : n <= m
<1>1. IsWellFoundedOn(OpToRel(<, Nat), Nat)
    BY NatLessThanWellFounded, Zenon
<1>2. PICK n \in S : \A m \in S : <<m, n>> \notin OpToRel(<, Nat)
    BY <1>1, WFMin, Zenon
<1>3. \A m \in S : ~(m < n)
    BY <1>2, Zenon DEF OpToRel
<1> QED
    BY <1>3

LEMMA FitFacts ==
  ASSUME ProgramsFit
  PROVE  /\ Longest \in Nat
         /\ \A kick \in Kicks : kick[1] + kick[2] <= Longest
         /\ MaxKicks * Longest <= BuffLimit
         /\ \A n \in Nat : Fitting(n) => Longest <= n
<1> DEFINE Enough == {n \in Nat : Fitting(n)}
<1>1. Enough \subseteq Nat /\ Enough # {}
    BY DEF ProgramsFit
<1>2. PICK n \in Enough : \A m \in Enough : n <= m
    BY <1>1, Least, Zenon
<1>3. \E k \in Nat : Fitting(k) /\ \A m \in Nat : Fitting(m) => k <= m
    BY <1>2
<1>4. Longest \in Nat /\ Fitting(Longest) /\ \A m \in Nat : Fitting(m) => Longest <= m
    BY <1>3 DEF Longest
<1> QED
    BY <1>4 DEF Fitting

LEMMA Times ==
  ASSUME NEW n \in Nat, NEW l \in Nat
  PROVE  /\ n * l \in Nat
         /\ n > 0 => (n - 1) * l + l = n * l
         /\ \A m \in Nat : n <= m => n * l <= m * l
  BY SMTT(30)

LEMMA NotAtMost ==
  ASSUME NEW a \in Nat, NEW b \in Nat, NEW c \in Nat, ~(a + b <= c)
  PROVE  a + b > c
  OBVIOUS

LEMMA MostFacts ==
  ASSUME ProgramsFit, NEW n \in 0 .. MaxKicks
  PROVE  /\ Most(n) \in Nat /\ Most(MaxKicks) \in Nat
         /\ Most(n) <= Most(MaxKicks) /\ Most(MaxKicks) <= BuffLimit
         /\ n > 0 => Most(n - 1) + Longest = Most(n)
<1>1. n \in Nat /\ n <= MaxKicks /\ MaxKicks \in Nat /\ Longest \in Nat
    BY Sizes, FitFacts
<1>2. n * Longest \in Nat /\ MaxKicks * Longest \in Nat /\ n * Longest <= MaxKicks * Longest
    BY <1>1, Times
<1>3. n > 0 => (n - 1) * Longest + Longest = n * Longest
    BY <1>1, Times
<1>4. MaxKicks * Longest <= BuffLimit
    BY FitFacts
<1> QED
    BY <1>2, <1>3, <1>4 DEF Most

\* While a program runs, neither what it copied nor its packet reaches the limit.
LEMMA ShortOfLimit ==
  ASSUME ProgramsFit, IInv, Bounded, vpc \notin {"wait", "loop", "post"}
  PROVE  /\ PackSize + size + rest + Most(kicks) <= Most(MaxKicks)
         /\ PackSize + size + rest <= BuffLimit
         /\ size \in Nat /\ rest \in Nat /\ Most(kicks) \in Nat
         /\ gsPack.size <= BuffLimit
<1>1. kicks \in 0 .. MaxKicks /\ size \in Nat /\ rest \in Nat
    BY Sizes DEF IInv, Path
<1>2. Most(kicks) \in Nat /\ Most(MaxKicks) \in Nat /\ Most(MaxKicks) <= BuffLimit
    BY <1>1, MostFacts
<1>3. PackSize + size + rest + Most(kicks) <= Most(MaxKicks)
    BY DEF Bounded, Extent
<1> QED
    BY <1>1, <1>2, <1>3, PathFacts, Sizes

\* So a packet that was moved to the start is not moved again.
LEMMA MovesOnce ==
  ASSUME ProgramsFit, IInv, Bounded, vpc \in {"realign", "realignTags"}
  PROVE  gsPack.readAmount = 0
<1>1. CASE gsPack.readAmount > 0
  <2>1. gsPack.offset = 0 /\ PackSize = curSize /\ curOffset = gsPack.size
      BY <1>1, PathFacts DEF Bounded, Gap, IInv, Built
  <2>2. PackSize + size + rest <= BuffLimit /\ gsPack.size <= BuffLimit
        /\ size \in Nat /\ rest \in Nat
      BY ShortOfLimit
  <2>3. curSize + size > BuffSize \/ curOffset > BuffLimit
      BY DEF Bounded, Crowded, InRealign, InRealignTags, Kicking, InCopy
  <2> QED
      BY <2>1, <2>2, <2>3, PathFacts, Sizes
<1> QED
    BY <1>1, PathFacts

LEMMA PackType ==
  ASSUME IInv, Gap, curSize <= BuffSize
  PROVE  gsPack \in Pack /\ curOffset \in 0 .. BuffSize /\ curSize \in 0 .. BuffSize
<1>1. /\ gsPack.offset + gsPack.size = curOffset /\ curOffset <= curSize
    BY DEF IInv, Built
<1>2. /\ gsPack.offset \in 0 .. BuffSize /\ gsPack.size \in 0 .. BuffSize
      /\ gsPack.readAmount \in 0 .. BuffLimit
      /\ curOffset \in 0 .. BuffSize /\ curSize \in 0 .. BuffSize
    BY <1>1, PathFacts, Sizes DEF Gap
<1>3. gsPack = [offset |-> gsPack.offset, size |-> gsPack.size, readAmount |-> gsPack.readAmount]
    BY PathFacts DEF AnyPack
<1> QED
    BY <1>2, <1>3 DEF Pack

LEMMA SameBounds ==
  ASSUME Bounded, UNCHANGED <<gsPack, curOffset, curSize, size, rest, kicks, vpc>>
  PROVE  Extent' /\ Gap' /\ Crowded' /\ Room'
  BY DEF Bounded, Extent, PackSize, PackOffset, Gap, Crowded, Room

\* There are never more packets than commands for them.
LEMMA QueueShort ==
  ASSUME IInv
  PROVE  Len(gsPackQueue) \in 0 .. MaxPrograms
<1>1. Len(gsPackQueue) \in Nat /\ MaxPrograms \in Nat
    BY QueueFacts, Sizes
<1>2. vuPrograms \in Nat /\ (vpc = "post" => vuPrograms >= 1)
    BY DEF IInv, Counters, Working
<1>3. /\ gsCommands \in Nat /\ fakePackets \in Nat
      /\ gsCommands + fakePackets + (IF epc = "transfer" THEN 1 ELSE 0) <= MaxPrograms
      /\ gsCommands + fakePackets + (IF epc = "transfer" THEN 1 ELSE 0)
           = vuPrograms + Len(gsPackQueue) - (IF vpc = "post" THEN 1 ELSE 0)
    BY DEF IInv, Counters, Pairs, OneCommandPerProgram
<1> QED
    BY <1>1, <1>2, <1>3

LEMMA CountStep ==
  ASSUME IInv, Bounded, Next
  PROVE  Waited'
<1>1. startP1Packs <= MaxPrograms
    BY DEF Bounded, Waited
<1>2. CASE ReadWaitCount
  <2>1. startP1Packs' = Len(gsPackQueue)
      BY <1>2 DEF ReadWaitCount
  <2> QED
      BY <2>1, QueueShort, Sizes DEF Waited
<1>3. CASE ReadWaitChange
  <2>1. startP1Packs' = 0
      BY <1>3 DEF ReadWaitChange
  <2> QED
      BY <2>1, Sizes DEF Waited
<1>4. CASE EEContinues \/ EEBegins \/ GSThread
  <2>1. UNCHANGED startP1Packs
      BY <1>4, EEOwns, GSOwns DEF vuLocals
  <2> QED
      BY <2>1, <1>1 DEF Waited
<1>5. CASE \/ VUWaitForWork \/ VURingEmpty \/ ExecuteProgram \/ XGKICK \/ RealignPacket
           \/ RealignMustWait \/ CopyGSPacketData \/ CopyMustWait \/ ExecuteGSPacketMTVU
           \/ ReadWaitNotify \/ FinishReadAmount \/ FinishPush \/ PostXGkick
  <2>1. UNCHANGED startP1Packs
      BY <1>5 DEF VUWaitForWork, VURingEmpty, ExecuteProgram, XGKICK, RealignPacket,
         RealignMustWait, CopyGSPacketData, CopyMustWait, ExecuteGSPacketMTVU,
         ReadWaitNotify, FinishReadAmount, FinishPush, PostXGkick, vuLocals
  <2> QED
      BY <2>1, <1>1 DEF Waited
<1> QED
    BY <1>2, <1>3, <1>4, <1>5 DEF Next, VUThread

LEMMA QueueStep ==
  ASSUME IInv, Bounded, Next
  PROVE  gsPackQueue' \in Seq(Pack)
<1>1. gsPackQueue \in Seq(Pack)
    BY DEF Bounded
<1>2. CASE FinishPush
  <2>1. gsPackQueue' = Append(gsPackQueue, gsPack)
      BY <1>2 DEF FinishPush
  <2>2. gsPack \in Pack
      BY PackType DEF Bounded, Room
  <2> QED
      BY <1>1, <2>1, <2>2
<1>3. CASE PopPacket
  <2>1. gsPackQueue' = Tail(gsPackQueue) /\ gsPackQueue # <<>>
      BY <1>3, QueueFacts DEF PopPacket, GSMoves
  <2> QED
      BY <1>1, <2>1, HeadTailProperties
<1>4. CASE ~FinishPush /\ ~PopPacket
  <2>1. gsPackQueue' = gsPackQueue
    <3>1. CASE EEContinues \/ EEBegins
        BY <3>1, EEOwns DEF queueVars
    <3>2. CASE ReadWaitNotify \/ ReadWaitCount \/ ReadWaitChange
        BY <3>2, ReadWaitMoves DEF queueVars
    <3>3. CASE \/ VUWaitForWork \/ VURingEmpty \/ ExecuteProgram \/ XGKICK \/ RealignPacket
               \/ RealignMustWait \/ CopyGSPacketData \/ CopyMustWait \/ ExecuteGSPacketMTVU
               \/ FinishReadAmount \/ PostXGkick
        BY <3>3 DEF VUWaitForWork, VURingEmpty, ExecuteProgram, XGKICK, RealignPacket,
           RealignMustWait, CopyGSPacketData, CopyMustWait, ExecuteGSPacketMTVU,
           FinishReadAmount, PostXGkick, queueVars
    <3>4. CASE GSWaitForWork \/ GSRingEmpty \/ TryWaitXGkick \/ WaitXGkick \/ TransferPacket
        BY <3>4 DEF GSWaitForWork, GSRingEmpty, TryWaitXGkick, WaitXGkick, TransferPacket,
           queueVars
    <3> QED
        BY <1>4, <3>1, <3>2, <3>3, <3>4 DEF Next, VUThread, GSThread
  <2> QED
      BY <1>1, <2>1
<1> QED
    BY <1>2, <1>3, <1>4

LEMMA BoundsStep ==
  ASSUME ProgramsFit, IInv, Bounded, Next
  PROVE  Extent' /\ Gap' /\ Crowded' /\ Room'
<1> DEFINE Between == {"wait", "loop", "post"}
<1>1. /\ kicks \in 0 .. MaxKicks /\ size \in Nat /\ rest \in Nat
      /\ BuffSize \in Nat /\ BuffLimit \in Nat /\ BuffLimit <= BuffSize
    BY Sizes DEF IInv, Path
<1>2. Most(kicks) \in Nat /\ Most(MaxKicks) \in Nat /\ Most(MaxKicks) <= BuffLimit
    BY <1>1, MostFacts
<1>3. Extent /\ Gap /\ Crowded /\ Room
    BY DEF Bounded
<1>4. /\ PackSize = curSize - gsPack.offset
      /\ gsPack.offset \in Nat /\ gsPack.size \in Nat /\ gsPack.readAmount \in Nat
      /\ curSize \in Nat /\ curOffset \in Nat /\ gsPack.offset + gsPack.size = curOffset
      /\ curOffset <= curSize /\ (vpc \notin Copying => curOffset = curSize)
    BY PathFacts DEF IInv, Built
<1>5. PackSize' = curSize' - (curOffset' - gsPack'.size)
    BY DEF PackSize, PackOffset
<1>6. CASE EEContinues \/ EEBegins \/ GSThread
  <2>1. UNCHANGED <<gsPack, curOffset, curSize, size, rest, kicks, vpc>>
      BY <1>6, EEOwns, GSOwns DEF pathVars, vuLocals
  <2> QED
      BY <2>1, SameBounds
<1>7. CASE VUWaitForWork \/ VURingEmpty \/ PostXGkick
  <2>1. /\ UNCHANGED <<gsPack, curOffset, curSize, size, rest, kicks>>
        /\ vpc \in Between /\ vpc' \in Between
      BY <1>7 DEF VUWaitForWork, VURingEmpty, PostXGkick, VUMoves, pathVars, vuLocals
  <2> QED
      BY <1>3, <2>1 DEF Extent, Gap, Crowded, Room, Kicking, InCopy, InRealign, InRealignTags
<1>8. CASE ExecuteProgram
  <2>1. /\ UNCHANGED <<gsPack, curOffset, curSize, size, rest>> /\ kicks' \in 0 .. MaxKicks
        /\ vpc = "loop" /\ vpc' = "run"
      BY <1>8 DEF ExecuteProgram, VUMoves, pathVars
  <2>2. size = 0 /\ rest = 0 /\ gsPack.size = 0 /\ curOffset = curSize
    <3>1. vpc \notin Kicking /\ vpc \notin Copying
        BY <2>1, WaitPlaces DEF Kicking, Copying
    <3> QED
        BY <3>1, <2>1, <1>3, <1>4 DEF Extent
  <2>3. PackSize' = 0
      BY <2>1, <2>2, <1>4, <1>5
  <2>4. Most(kicks') \in Nat /\ Most(kicks') <= Most(MaxKicks)
      BY <2>1, MostFacts
  <2>5. Extent'
      BY <2>1, <2>2, <2>3, <2>4 DEF Extent
  <2> QED
      BY <1>3, <2>1, <2>5 DEF Gap, Crowded, Room, Kicking, InCopy, InRealign, InRealignTags
<1>9. CASE XGKICK
  <2>1. /\ UNCHANGED <<gsPack, curOffset, curSize>> /\ kicks > 0 /\ kicks' = kicks - 1
        /\ vpc = "run"
        /\ vpc' = IF curSize + size' <= BuffSize THEN "copy" ELSE "realign"
      BY <1>9 DEF XGKICK, BeginCopy, Fits, pathVars
  <2>2. size' \in Nat /\ rest' \in Nat /\ size' + rest' <= Longest
    <3>1. PICK kick \in Kicks : size' = kick[1] /\ rest' = kick[2]
        BY <1>9 DEF XGKICK
    <3> QED
        BY <3>1, Sizes, FitFacts
  <2>3. Most(kicks') + Longest = Most(kicks) /\ Most(kicks') \in Nat /\ Longest \in Nat
    <3>1. kicks' \in 0 .. MaxKicks
        BY <2>1, <1>1, Sizes
    <3> QED
        BY <3>1, <2>1, <1>1, MostFacts, FitFacts
  <2>4. PackSize + Most(kicks) <= Most(MaxKicks)
      BY <2>1, ShortOfLimit, <1>1, <1>2, <1>4
  <2>5. PackSize' = PackSize
      BY <2>1 DEF PackSize, PackOffset
  <2>6. Extent'
    <3>1. PackSize' + size' + rest' + Most(kicks') <= Most(MaxKicks)
      <4> DEFINE s == size'
                 r == rest'
                 m == Most(kicks')
      <4>1. PackSize + m + Longest <= Most(MaxKicks) /\ PackSize \in Int
          BY <2>3, <2>4, <1>2, <1>4
      <4>2. s \in Nat /\ r \in Nat /\ s + r <= Longest /\ m \in Nat /\ Longest \in Nat
          BY <2>2, <2>3
      <4> HIDE DEF s, r, m
      <4>3. PackSize + s + r + m <= Most(MaxKicks)
          BY <4>1, <4>2, <1>2
      <4> QED
          BY <4>3, <2>5, Zenon DEF s, r, m
    <3>2. vpc' \notin Between /\ vpc' \in Kicking
        BY <2>1 DEF Kicking
    <3> QED
        BY <3>1, <3>2 DEF Extent
  <2>7. Gap'
      BY <2>1, <1>3 DEF Gap
  <2>8. Crowded' /\ Room'
    <3>1. curSize' = curSize
        BY <2>1
    <3>2. CASE curSize + size' <= BuffSize
      <4>1. vpc' = "copy"
          BY <2>1, <3>2
      <4>2. vpc' \notin InRealignTags /\ vpc' \notin InRealign
          BY <4>1 DEF InRealign, InRealignTags, InCopy
      <4> QED
          BY <3>1, <3>2, <4>2, <1>3 DEF Crowded, Room
    <3>3. CASE ~(curSize + size' <= BuffSize)
      <4>1. vpc' = "realign"
          BY <2>1, <3>3
      <4>3. curSize + size' > BuffSize
          BY <2>2, <3>3, <1>1, <1>4, NotAtMost, Zenon
      <4>2. vpc' \notin InRealignTags /\ vpc' \notin InCopy
          BY <4>1 DEF InRealignTags, InCopy
      <4> QED
          BY <3>1, <4>1, <4>2, <4>3, <1>3 DEF Crowded, Room
    <3> QED
        BY <3>2, <3>3
  <2> QED
      BY <2>6, <2>7, <2>8
<1>10. CASE RealignMustWait \/ CopyMustWait
  <2>1. /\ UNCHANGED <<gsPack, curOffset, curSize, size, rest, kicks>>
        /\ vpc \notin Between /\ vpc' \notin Between
        /\ vpc \in InRealign <=> vpc' \in InRealign
        /\ vpc \in InRealignTags <=> vpc' \in InRealignTags
        /\ vpc \in InCopy <=> vpc' \in InCopy
        /\ vpc \in Kicking <=> vpc' \in Kicking
      BY <1>10 DEF RealignMustWait, CopyMustWait, VUMoves, pathVars, vuLocals, Kicking, InCopy,
         InRealign, InRealignTags
  <2>2. PackSize' = PackSize
      BY <2>1 DEF PackSize, PackOffset
  <2> QED
      BY <1>3, <2>1, <2>2 DEF Extent, Gap, Crowded, Room
<1>11. CASE ReadWaitNotify \/ ReadWaitCount \/ ReadWaitChange
  <2>1. /\ UNCHANGED <<gsPack, curOffset, curSize, size, rest, kicks>>
        /\ vpc \in WaitPCs /\ vpc' \in ReadWaits \cup WaitPCs
        /\ vpc' \notin {"copyNotify", "realignNotify", "realignTagsNotify"}
        /\ vpc \in {"copyNotify", "copyCount", "copyChange"} <=>
             vpc' \in {"copy", "copyCount", "copyChange"}
        /\ vpc \in {"realignNotify", "realignCount", "realignChange"} <=>
             vpc' \in {"realign", "realignCount", "realignChange"}
      BY <1>11, ReadWaitMoves DEF pathVars
  <2>2. /\ vpc \notin Between /\ vpc' \notin Between
        /\ vpc' \in InRealign => vpc \in InRealign
        /\ vpc' \in InRealignTags => vpc \in InRealignTags
        /\ vpc' \in InCopy => vpc \in InCopy
        /\ vpc \in Kicking => vpc' \in Kicking
    <3>1. /\ InCopy = {"copy", "copyNotify", "copyCount", "copyChange"}
          /\ InRealign = {"realign", "realignNotify", "realignCount", "realignChange"}
          /\ Kicking = InCopy \cup InRealign
        BY DEF Kicking, InCopy, InRealign
    <3>2. CASE vpc \in {"copyNotify", "copyCount", "copyChange"}
      <4>1. vpc' \in {"copy", "copyCount", "copyChange"}
          BY <2>1, <3>2
      <4> QED
          BY <4>1, <3>1, <3>2 DEF InRealignTags
    <3>3. CASE vpc \in {"realignNotify", "realignCount", "realignChange"}
      <4>1. vpc' \in {"realign", "realignCount", "realignChange"}
          BY <2>1, <3>3
      <4> QED
          BY <4>1, <3>1, <3>3 DEF InRealignTags
    <3>4. CASE vpc \in {"realignTagsNotify", "realignTagsCount", "realignTagsChange"}
      <4>1. vpc \notin {"copyNotify", "copyCount", "copyChange"}
            /\ vpc \notin {"realignNotify", "realignCount", "realignChange"}
          BY <3>4
      <4>2. vpc' \in ReadWaits \cup WaitPCs /\ vpc' \notin {"copy", "copyCount", "copyChange"}
            /\ vpc' \notin {"realign", "realignCount", "realignChange"}
          BY <4>1, <2>1
      <4>3. vpc' # "copyNotify" /\ vpc' # "realignNotify"
          BY <2>1
      <4>4. vpc' \in InRealignTags
          BY <4>2, <4>3, WaitPlaces DEF InRealignTags
      <4>5. vpc \in InRealignTags
          BY <3>4 DEF InRealignTags
      <4> QED
          BY <4>4, <4>5, <3>1, <3>4 DEF InRealignTags
    <3> QED
        BY <2>1, <3>2, <3>3, <3>4, WaitPlaces
  <2>3. PackSize' = PackSize
      BY <2>1 DEF PackSize, PackOffset
  <2> QED
      BY <1>3, <2>1, <2>2, <2>3 DEF Extent, Gap, Crowded, Room
<1>12. CASE RealignPacket
  <2>1. /\ UNCHANGED <<size, rest, kicks>>
        /\ \/ vpc = "realign" /\ vpc' = "copy"
           \/ vpc = "realignTags" /\ vpc' = "tags"
      BY <1>12 DEF RealignPacket, VUMoves, vuLocals
  <2>2. PICK gap \in Nat :
          /\ gap = (IF BuffLimit - gsPack.offset >= 0 THEN BuffLimit - gsPack.offset ELSE 0)
          /\ gsPack'.offset = 0 /\ gsPack'.size = gsPack.size
          /\ gsPack'.readAmount = gsPack.readAmount + gap
          /\ curSize' = curSize - gsPack.offset /\ curOffset' = gsPack.size
      BY <1>12, RealignDoes
  <2>3. PackSize' = PackSize
      BY <2>2, <1>4, <1>5
  <2>4. PackSize + size + rest <= BuffLimit
      BY <2>1, ShortOfLimit
  <2>5. Extent'
    <3>1. PackSize + size + rest + Most(kicks) <= Most(MaxKicks)
        BY <2>1, ShortOfLimit
    <3>2. vpc' \notin Between /\ (vpc' \notin Kicking => vpc \notin Kicking)
        BY <2>1 DEF Kicking
    <3> QED
        BY <3>1, <3>2, <2>1, <2>3, <1>3 DEF Extent
  <2>6. Gap'
    <3>1. gsPack'.readAmount = gap
        BY <2>2, <2>1, MovesOnce
    <3> QED
        BY <3>1, <2>2, <1>1, <1>4 DEF Gap
  <2>7. Crowded'
      BY <2>1 DEF Crowded, Kicking, InCopy, InRealign, InRealignTags
  <2>8. Room'
      BY <2>1, <2>2, <2>4, <1>1, <1>4 DEF Room
  <2> QED
      BY <2>5, <2>6, <2>7, <2>8
<1>13. CASE CopyGSPacketData
  <2>1. /\ UNCHANGED <<gsPack, curOffset, kicks>> /\ curSize' = curSize + size
        /\ size' = rest /\ rest' = 0 /\ vpc = "copy"
        /\ vpc' = IF rest > 0 THEN IF curSize' + rest <= BuffSize THEN "copy" ELSE "realign"
                  ELSE IF curOffset > BuffLimit THEN "realignTags" ELSE "tags"
      BY <1>13 DEF CopyGSPacketData, BeginCopy, Fits
  <2>2. PackSize' = PackSize + size
      BY <2>1, <1>1, <1>4, <1>5
  <2>3. PackSize + size + rest + Most(kicks) <= Most(MaxKicks)
      BY <2>1, ShortOfLimit
  <2>4. Extent'
    <3>1. PackSize' + size' + rest' + Most(kicks') <= Most(MaxKicks)
        BY <2>1, <2>2, <2>3, <1>1, <1>2, <1>4
    <3>2. vpc' \notin Between
        BY <2>1
    <3>3. vpc' \notin Kicking => size' = 0 /\ rest' = 0
        BY <2>1, <1>1 DEF Kicking
    <3> QED
        BY <3>1, <3>2, <3>3 DEF Extent
  <2>5. Gap'
      BY <2>1, <1>3 DEF Gap
  <2>6. Crowded'
    <3>1. vpc' \in InRealign => curSize' + size' > BuffSize
        BY <2>1, <1>1, <1>4 DEF InRealign, Kicking, InCopy
    <3>2. vpc' \in InRealignTags => curOffset' > BuffLimit
        BY <2>1 DEF InRealignTags
    <3> QED
        BY <3>1, <3>2 DEF Crowded
  <2>7. Room'
    <3>1. curSize' <= BuffSize
        BY <2>1, <1>3 DEF Room, InCopy
    <3>2. vpc' \in InCopy => curSize' + size' <= BuffSize
        BY <2>1 DEF InCopy
    <3> QED
        BY <3>1, <3>2 DEF Room
  <2> QED
      BY <2>4, <2>5, <2>6, <2>7
<1>14. CASE ExecuteGSPacketMTVU
  <2>1. /\ gsPack'.offset = gsPack.offset /\ gsPack'.readAmount = gsPack.readAmount
        /\ gsPack'.size = curSize - gsPack.offset /\ curOffset' = curSize /\ curSize' = curSize
      BY <1>14, TagsDo
  <2>2. vpc = "tags" /\ vpc' = "run" /\ UNCHANGED <<size, rest, kicks>>
      BY <1>14 DEF ExecuteGSPacketMTVU, VUMoves, vuLocals
  <2>3. PackSize' = PackSize
      BY <2>1, <1>4, <1>5
  <2> QED
      BY <1>3, <2>1, <2>2, <2>3 DEF Extent, Gap, Crowded, Room, Kicking, InCopy, InRealign,
         InRealignTags
<1>15. CASE FinishReadAmount
  <2>1. /\ UNCHANGED <<gsPack, curOffset, curSize, size, rest, kicks>>
        /\ vpc = "run" /\ vpc' = "push"
      BY <1>15 DEF FinishReadAmount, VUMoves, vuLocals, pathVars
  <2>2. PackSize' = PackSize
      BY <2>1 DEF PackSize, PackOffset
  <2> QED
      BY <1>3, <2>1, <2>2 DEF Extent, Gap, Crowded, Room, Kicking, InCopy, InRealign,
         InRealignTags
<1>16. CASE FinishPush
  <2>1. /\ gsPack' = NewPack(curOffset) /\ UNCHANGED <<curOffset, curSize, size, rest, kicks>>
        /\ vpc = "push" /\ vpc' = "post"
      BY <1>16 DEF FinishPush, VUMoves, vuLocals
  <2>2. gsPack'.size = 0 /\ gsPack'.readAmount = 0
      BY <2>1, <1>4, NewPackFacts
  <2> QED
      BY <1>1, <1>3, <2>1, <2>2 DEF Extent, Gap, Crowded, Room, Kicking, InCopy, InRealign,
         InRealignTags
<1> QED
    BY <1>6, <1>7, <1>8, <1>9, <1>10, <1>11, <1>12, <1>13, <1>14, <1>15, <1>16
    DEF Next, VUThread

\* If programs fit, their packets stay in the buffer: what a program has copied and
\* may still copy never reaches the limit, so its packet is moved at most once.
THEOREM Bounds == ProgramsFit => (Spec => [](IInv /\ Bounded))
<1> SUFFICES ASSUME ProgramsFit PROVE Spec => [](IInv /\ Bounded)
    OBVIOUS
<1>1. Init => IInv /\ Bounded
  <2> SUFFICES ASSUME Init PROVE Bounded
      BY InitIInv
  <2>1. gsPack.offset = 0 /\ gsPack.size = 0 /\ gsPack.readAmount = 0
      BY NewPackFacts DEF Init
  <2> QED
      BY <2>1, Sizes DEF Init, Bounded, Waited, Extent, Gap, Crowded, Room, Kicking, InCopy,
         InRealign, InRealignTags
<1>2. (IInv /\ Bounded) /\ [Next]_vars => (IInv /\ Bounded)'
  <2> SUFFICES ASSUME IInv, Bounded, [Next]_vars PROVE Bounded'
      BY StepIInv
  <2>1. CASE Next
      BY <2>1, BoundsStep, QueueStep, CountStep DEF Bounded
  <2>2. CASE UNCHANGED vars
    <3>1. UNCHANGED <<gsPack, curOffset, curSize, size, rest, kicks, vpc, gsPackQueue,
                      startP1Packs>>
        BY <2>2 DEF vars, vuLocals, pathVars, queueVars
    <3> QED
        BY <3>1, SameBounds DEF Bounded, Waited
  <2> QED
      BY <2>1, <2>2
<1> QED
    BY <1>1, <1>2, PTL DEF Spec

\* If programs stay short of the limit, then "Gif Path Buffer Overflow!" is never
\* printed (CopyGSPacketData, Gif_Unit.h).
THEOREM BufferSuffices == ProgramsFit => (Spec => []BufferHolds)
<1> SUFFICES ASSUME ProgramsFit PROVE Spec => []BufferHolds
    OBVIOUS
<1>1. IInv /\ Bounded => BufferHolds
  <2> SUFFICES ASSUME IInv, Bounded PROVE BufferHolds
      OBVIOUS
  <2> QED
      BY DEF IInv, Built, Bounded, Room, InCopy, BufferHolds
<1> QED
    BY <1>1, Bounds, PTL

\* Every variable keeps its type: readAmount never goes below zero, and no
\* position leaves the buffer.
THEOREM TypeCorrect == ProgramsFit => (Spec => []TypeOK)
<1> SUFFICES ASSUME ProgramsFit PROVE Spec => []TypeOK
    OBVIOUS
<1>1. IInv /\ Bounded => TypeOK
  <2> SUFFICES ASSUME IInv, Bounded PROVE TypeOK
      OBVIOUS
  <2>1. gsPack \in Pack /\ curOffset \in 0 .. BuffSize /\ curSize \in 0 .. BuffSize
      BY PackType DEF Bounded, Room
  <2>2. readAmount \in Nat
    <3>1. PICK behind \in [1 .. Len(Pending) + 1 -> Nat] :
            Accounts(Pending, behind, Finished, gsPack)
        BY DEF IInv, Accounted
    <3>2. Finished \in Nat
      <4>1. 1 \in 1 .. Len(Pending) + 1
          BY QueueFacts, SeqFacts
      <4> QED
          BY <3>1, <4>1 DEF Accounts
    <3> QED
        BY <3>2, PathFacts DEF Finished, IInv, Path
  <2>3. /\ fakePackets \in 0 .. MaxPrograms /\ gsCommands \in 0 .. MaxPrograms
        /\ vuPrograms \in 0 .. MaxPrograms /\ semaXGkick \in 0 .. MaxPrograms
    <3>1. Len(gsPackQueue) \in Nat /\ MaxPrograms \in Nat
        BY QueueFacts, Sizes
    <3>2. vpc = "post" => vuPrograms >= 1
        BY DEF IInv, Working
    <3> QED
        BY <3>1, <3>2 DEF IInv, Counters, Pairs, PacketsExpected, OneCommandPerProgram
  <2>4. startP1Packs \in 0 .. MaxPrograms
      BY Sizes DEF Bounded, Waited, IInv, Counters
  <2> QED
      BY <2>1, <2>2, <2>3, <2>4 DEF IInv, Places, Path, Bounded, TypeOK
<1> QED
    BY <1>1, Bounds, PTL
=============================================================================
