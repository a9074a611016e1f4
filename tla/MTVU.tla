-------------------------------- MODULE MTVU --------------------------------
(***************************************************************************)
(* The VU1 thread's command ring (pcsx2/MTVU.cpp, class VU_Thread).  The   *)
(* EE thread writes packets into a buffer of 32-bit words, each in one     *)
(* piece: a packet that does not fit before the end of the buffer is       *)
(* preceded by a null packet that sends the reader back to the start.  The *)
(* VU thread executes the packets.  Each thread keeps a private position   *)
(* and publishes it in an atomic one.                                      *)
(*                                                                         *)
(* semaEvent is the event of WorkEvent, which WorkSema.tla implements.     *)
(***************************************************************************)
EXTENDS Integers, Sequences

CONSTANTS
  BufferSize,  \* words in the buffer (4 * 2^20 in the code)
  Sizes,       \* words of the packets that are sent, the tag included
  SafetyNet,   \* _4kb
  MaxAhead     \* environment: words the EE ever leaves for the VU thread to do

ASSUME MTVUAssumption ==
  /\ BufferSize \in Nat
  /\ Sizes # {} /\ Sizes \subseteq 1 .. BufferSize - 1
  /\ SafetyNet \in Nat
  /\ \A size \in Sizes : size + SafetyNet < BufferSize
  /\ MaxAhead \in Nat

VARIABLES
  m_ato_read_pos, m_ato_write_pos,  \* published positions
  m_read_pos, m_write_pos,          \* private ones
  buffer,
  notified, phase, waiter,          \* semaEvent
  epc, size,                        \* the EE thread, the packet it writes
  vpc,                              \* the VU thread
  pending,                          \* history: packets committed, not yet executed,
                                    \* and where each of them lies
  ahead                             \* history: the words of these packets

event    == <<notified, phase, waiter>>
readVars == <<m_ato_read_pos, m_read_pos, vpc>>
history  == <<pending, ahead>>
vars     == <<readVars, m_ato_write_pos, m_write_pos, buffer, event, epc, size,
              history>>

SemaEvent == INSTANCE WorkEvent

-----------------------------------------------------------------------------
(* Packets: a tag, the word that decides how far the reader goes, and data *)

Packet(n) == [tag |-> "PACKET", size |-> n]
NullPacket == [tag |-> "NULL_PACKET", size |-> 1]
Data == [tag |-> "DATA", size |-> 0]

Packets == { Packet(n) : n \in Sizes } \cup {NullPacket}

WriteAt(pos, packet) ==
  buffer' = [i \in 0 .. BufferSize - 1 |->
               IF i = pos THEN packet
               ELSE IF i \in pos + 1 .. pos + packet.size - 1 THEN Data
               ELSE buffer[i]]

-----------------------------------------------------------------------------
(* The EE thread *)

EEMoves(from, to) == epc = from /\ epc' = to

KickStart == SemaEvent!Notify

\* (With a bug: one word too late.)
ReserveSpaceLax ==
  /\ epc = "idle"
  /\ size' \in Sizes
  /\ ahead + size' <= MaxAhead
  /\ epc' = IF m_write_pos + size' > BufferSize THEN "waitNull" ELSE "waitSize"
  /\ UNCHANGED <<readVars, m_ato_write_pos, m_write_pos, buffer, event, history>>

\* A writer (ExecuteVU, VifUnpack, WriteMicroMem, ...) asks ReserveSpace for
\* its packet: before the end of the buffer, or else from its start.
ReserveSpace ==
  /\ epc = "idle"
  /\ size' \in Sizes
  /\ ahead + size' <= MaxAhead
  /\ epc' = IF m_write_pos + size' > BufferSize - 1 THEN "waitNull" ELSE "waitSize"
  /\ UNCHANGED <<readVars, m_ato_write_pos, m_write_pos, buffer, event, history>>

\* (With bugs: room for a packet of any size; only in front.)
HasRoomForOne(readPos, n) == readPos <= m_write_pos \/ readPos > m_write_pos + 1
HasRoomInFront(readPos, n) == readPos > m_write_pos + n + SafetyNet

\* WaitOnSize, one turn of its loop: the reader is behind the write position,
\* or far enough in front of it, or is kicked and looked at again.
HasRoom(readPos, n) ==
  \/ readPos <= m_write_pos
  \/ readPos > m_write_pos + n + SafetyNet

WaitOnSize(at, n, to) ==
  /\ epc = at
  /\ IF HasRoom(m_ato_read_pos, n)
     THEN epc' = to /\ UNCHANGED event
     ELSE epc' = at /\ KickStart
  /\ UNCHANGED <<readVars, m_ato_write_pos, m_write_pos, buffer, size, history>>

WaitOnSizeNull == WaitOnSize("waitNull", 1, "writeNull")
WaitOnSizePacket == WaitOnSize("waitSize", size, "write")

\* Write(MTVU_NULL_PACKET), m_write_pos = 0 ...
WriteNull ==
  /\ EEMoves("writeNull", "commitNull")
  /\ WriteAt(m_write_pos, NullPacket)
  /\ m_write_pos' = 0
  /\ UNCHANGED <<readVars, m_ato_write_pos, event, size, history>>

\* ... the packet itself ...
WritePacket ==
  /\ EEMoves("write", "commit")
  /\ WriteAt(m_write_pos, Packet(size))
  /\ m_write_pos' = m_write_pos + size
  /\ UNCHANGED <<readVars, m_ato_write_pos, event, size, history>>

\* ... and CommitWritePos after each of them.
CommitWritePos ==
  /\ EEMoves("commitNull", "waitSize") \/ EEMoves("commit", "kick")
  /\ m_ato_write_pos' = m_write_pos
  /\ LET packet == IF epc = "commit" THEN Packet(size) ELSE NullPacket
     IN /\ pending' = Append(pending, [packet |-> packet, at |-> m_ato_write_pos])
        /\ ahead' = ahead + packet.size
  /\ UNCHANGED <<readVars, m_write_pos, buffer, event, size>>

\* (With a bug: the VU thread is not kicked.)
KickNobody ==
  /\ EEMoves("kick", "idle")
  /\ UNCHANGED <<readVars, m_ato_write_pos, m_write_pos, buffer, event, size, history>>

KickVU ==
  /\ EEMoves("kick", "idle")
  /\ KickStart
  /\ UNCHANGED <<readVars, m_ato_write_pos, m_write_pos, buffer, size, history>>

\* WaitVU: WaitForEmptyWithSpin finds the VU thread idle, or sleeps until it is.
WaitVU ==
  /\ epc = "idle"
  /\ \/ SemaEvent!EmptyAtOnce /\ epc' = "done"
     \/ SemaEvent!EmptyWait /\ epc' = "waiting"
  /\ UNCHANGED <<readVars, m_ato_write_pos, m_write_pos, buffer, size, history>>

WaitVUReturns ==
  /\ EEMoves("waiting", "done")
  /\ SemaEvent!EmptyReturn
  /\ UNCHANGED <<readVars, m_ato_write_pos, m_write_pos, buffer, size, history>>

\* What the EE does once the VU thread is done, Reset among it.
Resume ==
  /\ EEMoves("done", "idle")
  /\ UNCHANGED <<readVars, m_ato_write_pos, m_write_pos, buffer, event, size, history>>

Reset ==
  /\ EEMoves("done", "idle")
  /\ m_ato_write_pos' = 0 /\ m_write_pos' = 0
  /\ m_ato_read_pos' = 0 /\ m_read_pos' = 0
  /\ pending' = <<>> /\ ahead' = 0
  /\ UNCHANGED <<buffer, event, size, vpc>>

EEContinues ==
  \/ WaitOnSizeNull \/ WriteNull \/ WaitOnSizePacket \/ WritePacket
  \/ CommitWritePos \/ KickVU
  \/ WaitVUReturns \/ Resume

EEBegins == ReserveSpace \/ WaitVU \/ Reset

-----------------------------------------------------------------------------
(* The VU thread: ExecuteRingBuffer *)

VUMoves(from, to) == vpc = from /\ vpc' = to

WaitForWork ==
  /\ vpc = "wait"
  /\ \/ (SemaEvent!GoOn \/ SemaEvent!WakeUp) /\ vpc' = "loop"
     \/ SemaEvent!GoIdle /\ UNCHANGED vpc
  /\ UNCHANGED <<m_ato_read_pos, m_read_pos, m_ato_write_pos, m_write_pos, buffer,
                 epc, size, history>>

\* The loop's condition, and Read() of a tag if there is one to read.
ReadTag ==
  /\ VUMoves("loop", "execute")
  /\ m_ato_read_pos # m_ato_write_pos
  /\ m_read_pos' = m_read_pos + 1
  /\ UNCHANGED <<m_ato_read_pos, m_ato_write_pos, m_write_pos, buffer, event, epc,
                 size, history>>

NothingLeft ==
  /\ VUMoves("loop", "wait")
  /\ m_ato_read_pos = m_ato_write_pos
  /\ UNCHANGED <<m_ato_read_pos, m_read_pos, m_ato_write_pos, m_write_pos, buffer,
                 event, epc, size, history>>

\* The switch: a packet is executed and passed, a null packet leads to the start.
Execute ==
  /\ VUMoves("execute", "commit")
  /\ LET packet == buffer[m_read_pos - 1]
     IN m_read_pos' = IF packet.tag = "NULL_PACKET" THEN 0
                      ELSE m_read_pos + packet.size - 1
  /\ UNCHANGED <<m_ato_read_pos, m_ato_write_pos, m_write_pos, buffer, event, epc,
                 size, history>>

CommitReadPos ==
  /\ VUMoves("commit", "loop")
  /\ m_ato_read_pos' = m_read_pos
  /\ pending' = Tail(pending)
  /\ ahead' = ahead - Head(pending).packet.size
  /\ UNCHANGED <<m_read_pos, m_ato_write_pos, m_write_pos, buffer, event, epc, size>>

VUThread == WaitForWork \/ ReadTag \/ NothingLeft \/ Execute \/ CommitReadPos

-----------------------------------------------------------------------------
Init ==
  /\ m_ato_read_pos = 0 /\ m_ato_write_pos = 0
  /\ m_read_pos = 0 /\ m_write_pos = 0
  /\ buffer = [i \in 0 .. BufferSize - 1 |-> Data]
  /\ SemaEvent!Init
  /\ epc = "idle" /\ size \in Sizes
  /\ vpc = "wait"
  /\ pending = <<>> /\ ahead = 0

Next == EEContinues \/ EEBegins \/ VUThread

Spec == Init /\ [][Next]_vars

\* Both threads are scheduled; the EE need not begin anything new.
FairSpec == Spec /\ WF_vars(EEContinues) /\ WF_vars(VUThread)

-----------------------------------------------------------------------------
(* What it promises *)

TypeOK ==
  /\ m_ato_read_pos \in 0 .. BufferSize - 1
  /\ m_ato_write_pos \in 0 .. BufferSize - 1
  /\ m_read_pos \in 0 .. BufferSize    \* on from a tag in the last word
  /\ m_write_pos \in 0 .. BufferSize - 1
  /\ buffer \in [0 .. BufferSize - 1 -> Packets \cup {Data}]
  /\ SemaEvent!TypeOK
  /\ epc \in {"idle", "waitNull", "writeNull", "commitNull", "waitSize", "write",
              "commit", "kick", "waiting", "done"}
  /\ size \in Sizes
  /\ vpc \in {"wait", "loop", "execute", "commit"}
  /\ pending \in Seq([packet : Packets, at : 0 .. BufferSize - 1])
  /\ ahead \in Nat

\* "ring-buffer has no complete pending packets when read_pos==write_pos"
\* (MTVU.h).  It fails when the EE gets a whole lap ahead: MaxAhead.
EmptyLooksEmpty == m_ato_read_pos = m_ato_write_pos => pending = <<>>

\* Where the packet after a pending one lies: behind it, or at the start.
After(p) == IF p.packet = NullPacket THEN 0 ELSE p.at + p.packet.size

\* No packet is overwritten before the VU thread has passed it, and the reader
\* finds them one after the other up to the published write position.
RingHoldsPending ==
  /\ \A k \in DOMAIN pending :
       LET p == pending[k] IN
       /\ p.at = IF k = 1 THEN m_ato_read_pos ELSE After(pending[k - 1])
       /\ buffer[p.at] = p.packet
       /\ \A i \in p.at + 1 .. p.at + p.packet.size - 1 : buffer[i] = Data
  /\ m_ato_write_pos =
       IF pending = <<>> THEN m_ato_read_pos ELSE After(pending[Len(pending)])

\* WaitVU returns only when every packet was executed, and the VU thread then
\* keeps out of the ring (IsDone is asserted, and Reset moves its positions).
WaitVUDrains ==
  epc = "done" => pending = <<>> /\ m_ato_read_pos = m_ato_write_pos /\ vpc = "wait"

\* The ring is the queue of CommandQueue: the VU thread takes each packet once, in
\* the order in which they were sent, and finds it in the buffer as it was written, from
\* the time it reads the tag until it passes the packet; it stops looking only when
\* all are done; and when WaitVU has returned it keeps out of the ring until the EE goes on.
PacketsOf(q) == [k \in DOMAIN q |-> q[k].packet]
Sent == PacketsOf(pending)
Taken == IF vpc \in {"execute", "commit"} THEN <<buffer[m_ato_read_pos]>> ELSE <<>>
Worker == IF vpc = "wait" THEN "asleep" ELSE "awake"
Client == IF epc = "done" THEN "drained" ELSE "sending"

Queue == INSTANCE CommandQueue WITH
  Commands <- Packets, queue <- Sent, taken <- Taken, worker <- Worker, client <- Client

ImplementsQueue == Queue!Spec

\* Neither thread is left behind by the other: while the VU thread sleeps, the EE is not
\* in WaitVU; what is in the ring waits only for a kick that the EE is on its way to;
\* and with nothing in the ring there is room for the packet the EE has in hand.
VUBlocked == vpc = "wait" /\ phase = "idle" /\ ~notified

NobodyIsStuck ==
  VUBlocked =>
    /\ epc = "waiting" => waiter = "released"
    /\ pending # <<>> => epc \in {"waitSize", "write", "commit", "kick"}
    /\ pending = <<>> /\ epc = "waitNull" => HasRoom(m_ato_read_pos, 1)
    /\ pending = <<>> /\ epc = "waitSize" => HasRoom(m_ato_read_pos, size)

\* The EE never waits for room forever, nor for the VU thread to be done.
WaitsEnd ==
  /\ (epc \in {"waitNull", "waitSize"}) ~> (epc = "write")
  /\ (epc = "waiting") ~> (epc = "done")
=============================================================================
