---------------------- MODULE ThreadedFileReaderProofs ----------------------
(***************************************************************************)
(* Proofs about ThreadedFileReader, for files, chunks, buffers and reads   *)
(* of every size, whichever chunks come short: reader and caller are never *)
(* in ReadChunk together, what the buffers say they hold they hold while   *)
(* the file is open, and a read that reports success delivered the data    *)
(* that was asked for.  The last of these assumes that no read begins      *)
(* while one is unfinished; the run file_reader_overlap shows it to be     *)
(* false otherwise.  Nothing is assumed of when the file is closed.        *)
(***************************************************************************)
EXTENDS ThreadedFileReader, TLAPS

-----------------------------------------------------------------------------
(* The inductive invariant *)

Busy == ReaderPCs \ {"check", "sleepy", "asleep", "exited"}
InDecompress == {"work", "fill", "copy", "direct"}
Closed == {"stopped", "closed", "quit", "notify", "join", "gone"}

\* m_running says where the reader is, and who relies on its being FALSE may.
Exclusion ==
  /\ m_running <=> pc["reader"] \in Busy
  /\ pc["caller"] \in InDecompress => ~m_running

\* Requests and jobs lie in the file and in the memory they are for.
RequestFits ==
  /\ m_requestOffset + m_requestSize <= FileSize
  /\ m_requestPtr # Null =>
       /\ m_requestSize > 0
       /\ m_requestPtr.pos >= 0
       /\ m_requestPtr.pos + m_requestSize <= MaxRead

JobFits(t) ==
  /\ job[t].done <= job[t].size
  /\ job[t].offset + job[t].size <= FileSize
  /\ pc[t] \in InDecompress =>
       /\ job[t].size > 0
       /\ job[t].ptr.pos >= 0
       /\ job[t].ptr.pos + job[t].size <= MaxRead
  /\ pc[t] \in {"fill", "copy", "direct"} => Remaining(t) > 0
  /\ pc[t] = "direct" => Remaining(t) >= ChunkSize

JobsFit == \A t \in Threads : JobFits(t)

\* The chunk that readahead appends fits behind what the buffer held, and still holds
\* unless the file was closed.
AppendFits ==
  LET b == m_buffer[ahead.buf] IN
  /\ HasChunk(ahead.offset) /\ ChunkOffset(ahead.offset) = ahead.offset
  /\ b.offset + b.size <= ahead.offset
  /\ ahead.offset - b.offset + ChunkSize <= BufferSize
  /\ FileOpen => b.offset + b.size = ahead.offset

AheadFits ==
  /\ pc["reader"] = "aheadFill" => HasChunk(ahead.offset)
  /\ pc["reader"] = "append" => AppendFits

\* A buffer that is copied from begins before what is wanted of it; one that is being
\* filled counts as empty.
HeldFits ==
  /\ \A t \in Threads : pc[t] = "copy" => m_buffer[job[t].buf].offset <= Here(t)
  /\ pc["reader"] \in {"fill", "aheadFill"} \/ pc["caller"] = "fill" =>
       m_buffer[m_nextBuffer].size = 0

\* What TryCachedRead has left to read, and that the buffer it has looked at still holds
\* what it held then: the reader takes no buffer without the mutex.
ReadFits ==
  pc["caller"] = "cache" =>
    /\ read.offset + read.size <= FileSize
    /\ read.pos + read.size <= MaxRead
    /\ read.offset + read.size > 0
    /\ read.end > 0 => read.size = 0
    /\ read.allDone => read.size = 0
    /\ read.step < 4 => read.bufsize <= m_buffer[read.step % 2].size

\* The read the caller waits for, or will: begun, or of the ReadSync it is in.
Reading == begun \/ op = "ReadSync"

CallStages ==
  /\ begun => op # "ReadSync"
  /\ pc["caller"] \in {"new", "idle", "stop", "stopAsleep"} \cup Closed => op = "none"
  /\ pc["caller"] \in InDecompress => op = "ReadSync" /\ m_requestPtr = Null
  /\ pc["caller"] = "cache" =>
       m_requestPtr = Null /\ (op = "ReadSync" \/ (op = "BeginRead" /\ begun))
  /\ op = "BeginRead" => pc["caller"] = "cache"
  /\ pc["caller"] \in {"finish", "lock", "holding", "asleep", "done"} => op # "none"
  /\ pc["caller"] = "done" => m_requestPtr = Null
  /\ ~Reading => m_requestPtr = Null

\* The reader works on the request there is, if it works for memory at all.
Serving == pc["reader"] \in InDecompress \cup {"publish"} /\ job["reader"].ptr # Null

ReaderServes ==
  Serving => /\ m_requestPtr = job["reader"].ptr
             /\ m_requestOffset = job["reader"].offset
             /\ m_requestSize = job["reader"].size

\* The first n blocks of the read are there ...
Holds(mem, offset, n) == \A k \in 0 .. n - 1 : mem[k] = offset + k
Delivered(n) == Holds(memory[Wanted], want[Wanted].offset, n)

\* ... and what is asked for at ptr is the rest of it.
IsRest(ptr, offset, size) ==
  /\ ptr.target = Wanted
  /\ offset = want[Wanted].offset + ptr.pos
  /\ ptr.pos + size = want[Wanted].size

Complete == m_amtRead = want[Wanted].size /\ Delivered(m_amtRead)

PendingProgress ==
  m_requestPtr # Null =>
    /\ IsRest(m_requestPtr, m_requestOffset, m_requestSize)
    /\ Delivered(m_requestPtr.pos)
    /\ ~(Serving /\ pc["reader"] = "publish") => m_amtRead = m_requestPtr.pos
    /\ pc["reader"] \in InDecompress => Delivered(m_requestPtr.pos + job["reader"].done)
    /\ Serving /\ pc["reader"] = "publish" =>
         IF job["reader"].ok THEN Complete
         ELSE erred /\ m_amtRead = m_requestPtr.pos

OwnProgress ==
  pc["caller"] \in InDecompress =>
    LET j == job["caller"] IN
    /\ IsRest(j.ptr, j.offset, j.size)
    /\ m_amtRead = j.ptr.pos
    /\ Delivered(j.ptr.pos + j.done)

CacheProgress ==
  pc["caller"] = "cache" =>
    /\ read.offset = want[Wanted].offset + read.pos
    /\ read.pos + read.size = want[Wanted].size
    /\ m_amtRead = read.pos
    /\ Delivered(read.pos)

DoneProgress ==
  m_requestPtr = Null /\ pc["caller"] \notin InDecompress \cup {"cache"} =>
    Complete \/ (erred /\ m_amtRead < want[Wanted].size)

Progress ==
  FileOpen /\ Reading =>
    PendingProgress /\ OwnProgress /\ CacheProgress /\ DoneProgress

RunInv == TypeOK /\ Exclusion
DataInv ==
  RunInv /\ RequestFits /\ JobsFit /\ AheadFits /\ HeldFits /\ ReadFits /\ BuffersTrue
IInv == DataInv /\ CallStages /\ ReaderServes /\ Progress

-----------------------------------------------------------------------------
(* Chunks *)

LEMMA DivMod ==
  ASSUME NEW o \in Nat, NEW c \in Nat \ {0}
  PROVE  /\ o \div c \in Nat
         /\ o = (o \div c) * c + (o % c)
         /\ c * (o \div c) <= o
         /\ o < c * (o \div c) + c
<1>1. o \div c \in Nat
    OBVIOUS
<1>2. o = (o \div c) * c + (o % c)
    BY SMTT(60)
<1>3. c * (o \div c) <= o
    BY SMTT(60)
<1>4. o < c * (o \div c) + c
    BY SMTT(60)
<1> QED
    BY <1>1, <1>2, <1>3, <1>4

LEMMA Multiples ==
  ASSUME NEW a \in Nat, NEW b \in Nat, NEW c \in Nat \ {0}, c * a < c * b
  PROVE  c * a + c <= c * b
<1>1. a + 1 <= b
    OBVIOUS
<1>2. c * (a + 1) <= c * b
    BY <1>1
<1>3. c * (a + 1) = c * a + c
    OBVIOUS
<1> QED
    BY <1>2, <1>3

\* The chunk of an offset contains it, and a chunk of the file ends in the file.
LEMMA ChunkFacts ==
  ASSUME NEW o \in Nat
  PROVE  /\ ChunkOffset(o) \in Nat
         /\ ChunkOffset(o) <= o
         /\ o < ChunkOffset(o) + ChunkSize
         /\ o < FileSize => ChunkOffset(o) + ChunkSize <= FileSize
<1> DEFINE q == o \div ChunkSize
           m == FileSize \div ChunkSize
<1>1. ChunkSize \in Nat \ {0} /\ FileSize \in Nat \ {0} /\ FileSize % ChunkSize = 0
    BY ThreadedFileReaderAssumption
<1>2. q \in Nat /\ ChunkSize * q <= o /\ o < ChunkSize * q + ChunkSize
    BY <1>1, DivMod
<1>3. m \in Nat /\ FileSize = m * ChunkSize + (FileSize % ChunkSize)
    BY <1>1, DivMod
<1> HIDE DEF q, m
<1>4. FileSize = ChunkSize * m
    BY <1>1, <1>3
<1>5. ChunkSize * q \in Nat
    BY <1>1, <1>2
<1>6. ASSUME o < FileSize PROVE ChunkSize * q + ChunkSize <= FileSize
  <2>1. ChunkSize * q < ChunkSize * m
    BY <1>1, <1>2, <1>4, <1>5, <1>6
  <2> QED
    BY <2>1, <1>1, <1>2, <1>3, <1>4, Multiples
<1> QED
    BY <1>1, <1>2, <1>5, <1>6 DEF ChunkOffset, q

LEMMA Sizes ==
  /\ FileSize \in Nat \ {0} /\ ChunkSize \in Nat \ {0} /\ MaxRead \in Nat \ {0}
  /\ BufferSize \in Nat /\ BufferSize >= ChunkSize
BY ThreadedFileReaderAssumption

-----------------------------------------------------------------------------
(* The parts of the type invariant *)

TypeFlags ==
  /\ m_running \in BOOLEAN /\ m_quit \in BOOLEAN /\ m_internalBlockSize \in BOOLEAN
  /\ begun \in BOOLEAN /\ erred \in BOOLEAN

TypePlaces ==
  /\ pc \in [Threads -> ReaderPCs \cup CallerPCs]
  /\ pc["reader"] \in ReaderPCs /\ pc["caller"] \in CallerPCs
  /\ op \in {"none", "BeginRead", "ReadSync", "FinishRead", "CancelRead"}

TypeRequest ==
  /\ m_requestPtr \in [target : Targets, pos : -1 .. MaxRead - 1]
  /\ m_requestOffset \in 0 .. FileSize - 1 /\ m_requestSize \in 0 .. MaxRead
  /\ m_amtRead \in Nat

TypeBuffers ==
  /\ m_buffer \in [0 .. 1 -> [offset : 0 .. FileSize - 1, size : 0 .. BufferSize,
                              data : [0 .. BufferSize - 1 -> Data]]]
  /\ m_nextBuffer \in 0 .. 1

TypeJob ==
  job \in [Threads -> [ptr : [target : Targets, pos : -1 .. MaxRead - 1],
                       offset : 0 .. FileSize - 1, size : 0 .. MaxRead,
                       done : 0 .. MaxRead, buf : 0 .. 1, ok : BOOLEAN]]

TypeAhead == ahead \in [offset : 0 .. FileSize, buf : 0 .. 1, filled : 0 .. 1]

TypeMemory ==
  /\ memory \in [Targets -> [0 .. MaxRead - 1 -> Data]]
  /\ want \in [Targets -> [offset : 0 .. FileSize - 1, size : 0 .. MaxRead]]

TypeRead ==
  read \in [offset : 0 .. FileSize, size : 0 .. MaxRead, pos : 0 .. MaxRead,
            end : Nat, allDone : BOOLEAN, step : 0 .. 4, bufsize : 0 .. BufferSize]

-----------------------------------------------------------------------------
(* Buffers and memory *)

\* BuffersTrue, if the file is open.
Contents ==
  \A i \in 0 .. 1 : \A k \in 0 .. m_buffer[i].size - 1 :
    m_buffer[i].data[k] = m_buffer[i].offset + k

LEMMA AmountFacts ==
  ASSUME NEW o, NEW n \in Amounts(o)
  PROVE  n \in Nat /\ n > 0 /\ n <= ChunkSize
BY Sizes DEF Amounts

LEMMA FileFacts ==
  ASSUME NEW o \in 0 .. FileSize - 1
  PROVE  File[o] \in Data /\ (FileOpen => File[o] = o)
BY DEF File, Data

\* What the three ways to change a buffer leave of it.
LEMMA TakeBufferFacts ==
  ASSUME TypeBuffers, TakeBuffer, m_nextBuffer' = m_nextBuffer
  PROVE  TypeBuffers' /\ (Contents => Contents')
<1> DEFINE b == m_buffer[m_nextBuffer]
           blank == [k \in 0 .. BufferSize - 1 |-> Junk]
           c == [offset |-> b.offset, size |-> 0, data |-> blank]
<1>1. m_buffer' = [m_buffer EXCEPT ![m_nextBuffer] = c]
    BY DEF TakeBuffer
<1>2. blank \in [0 .. BufferSize - 1 -> Data]
    BY DEF Data
<1>3. c \in [offset : 0 .. FileSize - 1, size : 0 .. BufferSize,
             data : [0 .. BufferSize - 1 -> Data]]
  <2>1. b.offset \in 0 .. FileSize - 1
    BY DEF TypeBuffers
  <2> QED
    BY <1>2, <2>1, Sizes
<1> HIDE DEF c
<1>4. TypeBuffers'
    BY <1>1, <1>3 DEF TypeBuffers
<1>5. c.size = 0
    BY DEF c
<1> QED
    BY <1>1, <1>4, <1>5 DEF TypeBuffers, Contents

LEMMA FilledFacts ==
  ASSUME TypeBuffers, NEW o \in Nat, o < FileSize,
         NEW n \in Amounts(ChunkOffset(o)), FilledWith(ChunkOffset(o), n)
  PROVE  TypeBuffers' /\ (FileOpen /\ Contents => Contents')
<1> DEFINE e == ChunkOffset(o)
           data == [k \in 0 .. BufferSize - 1 |-> IF k < n THEN File[e + k] ELSE Junk]
           c == [offset |-> e, size |-> n, data |-> data]
<1>1. e \in Nat /\ e + ChunkSize <= FileSize
    BY ChunkFacts
<1>2. n \in Nat /\ n > 0 /\ n <= ChunkSize
    BY AmountFacts
<1> HIDE DEF e
<1>3. m_buffer' = [m_buffer EXCEPT ![m_nextBuffer] = c] /\ m_nextBuffer' = 1 - m_nextBuffer
    BY DEF FilledWith, e
<1>4. \A k \in 0 .. n - 1 : File[e + k] \in Data /\ (FileOpen => File[e + k] = e + k)
  <2> TAKE k \in 0 .. n - 1
  <2>1. e + k \in 0 .. FileSize - 1
      BY <1>1, <1>2, Sizes
  <2> QED
      BY <2>1, FileFacts
<1>5. data \in [0 .. BufferSize - 1 -> Data]
    BY <1>2, <1>4 DEF Data
<1>6. c \in [offset : 0 .. FileSize - 1, size : 0 .. BufferSize,
             data : [0 .. BufferSize - 1 -> Data]]
    BY <1>1, <1>2, <1>5, Sizes
<1>7. FileOpen => \A k \in 0 .. c.size - 1 : c.data[k] = c.offset + k
    BY <1>2, <1>4, Sizes
<1> HIDE DEF c
<1>8. TypeBuffers'
    BY <1>3, <1>6 DEF TypeBuffers
<1> QED
    BY <1>3, <1>7, <1>8 DEF TypeBuffers, Contents

\* What EndAppend makes of the buffer, if it appends n blocks.
Appends(n, data) ==
  LET b == m_buffer[ahead.buf]
      bufsize == ahead.offset - b.offset
  IN /\ m_buffer' = [m_buffer EXCEPT ![ahead.buf] =
          [offset |-> b.offset, size |-> bufsize + n, data |-> data]]
     /\ \A k \in 0 .. BufferSize - 1 :
          data[k] = IF bufsize <= k /\ k < bufsize + n THEN File[b.offset + k] ELSE b.data[k]
     /\ bufsize \in Nat /\ b.offset \in Nat /\ b.size \in Nat
     /\ b.size <= bufsize /\ bufsize + n <= BufferSize
     /\ \A k \in 0 .. (bufsize + n) - 1 : b.offset + k \in 0 .. FileSize - 1

LEMMA AppendFacts ==
  ASSUME TypeBuffers, TypeAhead, AppendFits, EndAppend
  PROVE  \E n \in Amounts(ahead.offset), data \in [0 .. BufferSize - 1 -> Data] :
           Appends(n, data)
<1> DEFINE b == m_buffer[ahead.buf]
           bufsize == ahead.offset - b.offset
<1>1. PICK n \in Amounts(ahead.offset) :
        m_buffer' = [m_buffer EXCEPT ![ahead.buf] =
            [offset |-> b.offset, size |-> bufsize + n,
             data |-> [k \in 0 .. BufferSize - 1 |->
                         IF bufsize <= k /\ k < bufsize + n
                         THEN File[b.offset + k] ELSE b.data[k]]]]
    BY DEF EndAppend
<1> DEFINE data == [k \in 0 .. BufferSize - 1 |->
                      IF bufsize <= k /\ k < bufsize + n THEN File[b.offset + k] ELSE b.data[k]]
<1>2. n \in Nat /\ n > 0 /\ n <= ChunkSize
    BY AmountFacts
<1>3. /\ b.offset \in 0 .. FileSize - 1 /\ b.size \in 0 .. BufferSize
      /\ b.data \in [0 .. BufferSize - 1 -> Data]
    BY DEF TypeBuffers, TypeAhead
<1>4. /\ b.offset + b.size <= ahead.offset /\ ahead.offset \in Nat /\ ahead.offset < FileSize
      /\ ChunkOffset(ahead.offset) = ahead.offset /\ bufsize + ChunkSize <= BufferSize
    BY DEF AppendFits, HasChunk, TypeAhead
<1>5. ahead.offset + ChunkSize <= FileSize
    BY <1>4, ChunkFacts
<1> HIDE DEF b
<1>6. bufsize \in Nat /\ b.offset \in Nat /\ b.size \in Nat /\ b.size <= bufsize
    BY <1>3, <1>4, Sizes
<1>7. bufsize + n <= BufferSize /\ b.offset + bufsize = ahead.offset
    BY <1>2, <1>3, <1>4, <1>6, Sizes
<1>8. \A k \in 0 .. (bufsize + n) - 1 : b.offset + k \in 0 .. FileSize - 1
    BY <1>2, <1>5, <1>6, <1>7, Sizes
<1> HIDE DEF bufsize
<1>9. data \in [0 .. BufferSize - 1 -> Data]
  <2> SUFFICES ASSUME NEW k \in 0 .. BufferSize - 1
               PROVE  (IF bufsize <= k /\ k < bufsize + n THEN File[b.offset + k] ELSE b.data[k]) \in Data
      OBVIOUS
  <2>1. CASE bufsize <= k /\ k < bufsize + n
    <3>1. b.offset + k \in 0 .. FileSize - 1
        BY <2>1, <1>2, <1>6, <1>8
    <3> QED
        BY <2>1, <3>1, FileFacts
  <2>2. CASE ~(bufsize <= k /\ k < bufsize + n)
      BY <2>2, <1>3
  <2> QED
      BY <2>1, <2>2
<1>10. /\ m_buffer' = [m_buffer EXCEPT ![ahead.buf] =
                         [offset |-> b.offset, size |-> bufsize + n, data |-> data]]
       /\ \A k \in 0 .. BufferSize - 1 :
            data[k] = IF bufsize <= k /\ k < bufsize + n THEN File[b.offset + k] ELSE b.data[k]
    BY <1>1 DEF b, bufsize
<1> HIDE DEF data
<1>11. Appends(n, data)
    BY <1>6, <1>7, <1>8, <1>10 DEF Appends, b, bufsize
<1> QED
    BY <1>9, <1>11

LEMMA AppendTrue ==
  ASSUME TypeBuffers, TypeAhead, AppendFits, EndAppend
  PROVE  TypeBuffers' /\ (FileOpen /\ Contents => Contents')
<1> DEFINE b == m_buffer[ahead.buf]
           bufsize == ahead.offset - b.offset
<1>0. PICK n \in Amounts(ahead.offset), data \in [0 .. BufferSize - 1 -> Data] :
        Appends(n, data)
    BY AppendFacts
<1>1. /\ m_buffer' = [m_buffer EXCEPT ![ahead.buf] =
           [offset |-> b.offset, size |-> bufsize + n, data |-> data]]
      /\ \A k \in 0 .. BufferSize - 1 :
           data[k] = IF bufsize <= k /\ k < bufsize + n
                     THEN File[b.offset + k] ELSE b.data[k]
      /\ bufsize \in Nat /\ b.offset \in Nat /\ b.size \in Nat
      /\ b.size <= bufsize /\ bufsize + n <= BufferSize
      /\ \A k \in 0 .. (bufsize + n) - 1 : b.offset + k \in 0 .. FileSize - 1
    BY <1>0 DEF Appends
<1> DEFINE c == [offset |-> b.offset, size |-> bufsize + n, data |-> data]
<1>2. n \in Nat /\ ahead.buf \in 0 .. 1 /\ m_nextBuffer' = m_nextBuffer
    BY AmountFacts DEF TypeAhead, EndAppend
<1>3. b.offset \in 0 .. FileSize - 1
    BY <1>2 DEF TypeBuffers
<1>4. ahead.offset \in Nat /\ (FileOpen => b.offset + b.size = ahead.offset)
    BY DEF AppendFits, TypeAhead
<1>5. FileOpen => b.size = bufsize
    BY <1>1, <1>4
<1>6. Contents => \A k \in 0 .. b.size - 1 : b.data[k] = b.offset + k
    BY <1>2 DEF Contents
<1> HIDE DEF b, bufsize
<1>7. c \in [offset : 0 .. FileSize - 1, size : 0 .. BufferSize,
             data : [0 .. BufferSize - 1 -> Data]]
    BY <1>1, <1>2, <1>3, Sizes
<1>8. ASSUME FileOpen, Contents, NEW k \in 0 .. (bufsize + n) - 1
      PROVE  data[k] = b.offset + k
  <2>1. k \in 0 .. BufferSize - 1
      BY <1>1, <1>2, Sizes
  <2>2. CASE bufsize <= k
    <3>1. data[k] = File[b.offset + k]
        BY <2>1, <2>2, <1>1, <1>2
    <3> QED
        BY <3>1, <1>1, <1>8, FileFacts
  <2>3. CASE ~(bufsize <= k)
    <3>1. data[k] = b.data[k]
        BY <2>1, <2>3, <1>1
    <3>2. k \in 0 .. b.size - 1
        BY <2>1, <2>3, <1>1, <1>5, <1>8, Sizes
    <3> QED
        BY <3>1, <3>2, <1>6, <1>8
  <2> QED
      BY <2>2, <2>3
<1>9. FileOpen /\ Contents => \A k \in 0 .. c.size - 1 : c.data[k] = c.offset + k
    BY <1>8
<1>10. m_buffer' = [m_buffer EXCEPT ![ahead.buf] = c]
    BY <1>1
<1> HIDE DEF c
<1>11. TypeBuffers'
    BY <1>2, <1>7, <1>10 DEF TypeBuffers
<1> QED
    BY <1>2, <1>9, <1>10, <1>11 DEF TypeBuffers, Contents

\* What Overwrite puts where.
LEMMA OverwriteFacts ==
  ASSUME NEW mem \in [0 .. MaxRead - 1 -> Data], NEW pos \in Nat, NEW n \in Nat, NEW src,
         NEW at, \A k \in 0 .. n - 1 : src[at + k] \in Data
  PROVE  /\ Overwrite(mem, pos, n, src, at) \in [0 .. MaxRead - 1 -> Data]
         /\ \A k \in 0 .. MaxRead - 1 :
              Overwrite(mem, pos, n, src, at)[k] =
                IF pos <= k /\ k < pos + n THEN src[at + (k - pos)] ELSE mem[k]
<1>1. \A k \in 0 .. MaxRead - 1 : pos <= k /\ k < pos + n => src[at + (k - pos)] \in Data
  <2> TAKE k \in 0 .. MaxRead - 1
  <2> HAVE pos <= k /\ k < pos + n
  <2>1. k - pos \in 0 .. n - 1
    BY Sizes
  <2> QED
    BY <2>1
<1> QED
    BY <1>1 DEF Overwrite

-----------------------------------------------------------------------------
(* The steps, in groups *)

LEMMA TypeParts ==
  TypeOK <=> /\ TypeFlags /\ TypePlaces /\ TypeRequest /\ TypeBuffers
             /\ TypeJob /\ TypeAhead /\ TypeMemory /\ TypeRead
BY DEF TypeOK, TypeFlags, TypePlaces, TypeRequest, TypeBuffers, TypeJob, TypeAhead, TypeMemory,
       TypeRead

\* The steps that move a thread and change nothing but its place, op and m_quit.
Still == UNCHANGED <<request, m_running, m_amtRead, buffers, m_internalBlockSize,
                     job, ahead, memory, read, history>>

ReaderMoves == CheckSleep \/ Sleep \/ Exit \/ PublishFails \/ AheadStops \/ AheadFails

CallerMoves ==
  \/ SeeRequestDone \/ SeeRequestPending \/ WaitForRequest \/ FinishRead \/ CancelRead
  \/ Open \/ Close \/ WaitUntilStopped \/ SetQuit \/ PassMutex \/ NotifyQuit \/ Join
  \/ \E t \in Threads : SpuriousWakeUp(t)

\* The steps of Decompress, on either thread.
Decompressing(t) ==
  \/ FindBuffer(t) \/ StartFill(t) \/ EndFill(t) \/ CopyFromBuffer(t)
  \/ StartDirect(t) \/ EndDirect(t)

\* The steps that read ahead.
Ahead ==
  AheadCached \/ StartAheadFill \/ EndAheadFill \/ StartAppend \/ EndAppend \/ NextBlock

\* BeginRead and ReadSync begin, and end.
ReadCalls == \E r \in Reads : BeginRead(r.offset, r.size) \/ ReadSync(r.offset, r.size)
ReadEnds == EndBeginRead \/ EndReadSync

LEMMA Steps ==
  ASSUME [Next]_vars
  PROVE  \/ ReaderMoves \/ CallerMoves \/ Ahead
         \/ \E t \in Threads : Decompressing(t)
         \/ Take \/ Decompressed \/ DecompressFails \/ Publish \/ Finish
         \/ SyncDecompressed \/ SyncDecompressFails \/ Return \/ CloseFile
         \/ ReadCalls \/ CachedRead \/ ReadEnds
         \/ UNCHANGED vars
BY Zenon DEF Next, ReaderStep, CallerStep, Calls, Terminated, ReaderMoves, CallerMoves,
             Decompressing, Ahead, ReadCalls, ReadEnds, Threads

LEMMA StillSteps == ReaderMoves \/ CallerMoves => Still
BY DEF Still, ReaderMoves, CallerMoves, CheckSleep, Sleep, Exit, PublishFails,
       AheadStops, AheadFails, SeeRequestDone, SeeRequestPending, WaitForRequest,
       FinishRead, CancelRead, Open, Close, WaitUntilStopped, SetQuit, PassMutex,
       NotifyQuit, Join, SpuriousWakeUp, request, buffers, call, history

\* Where the steps take the other thread: a thread that is notified wakes.
LEMMA MoveFacts ==
  ASSUME TypePlaces
  PROVE  /\ \A from, to : Moves("reader", from, to) =>
              /\ pc["reader"] = from /\ pc'["reader"] = to
              /\ pc'["caller"] = pc["caller"]
         /\ \A from, to : Moves("caller", from, to) =>
              /\ pc["caller"] = from /\ pc'["caller"] = to
              /\ pc'["reader"] = pc["reader"]
BY DEF Moves, TypePlaces, Threads

LEMMA NotifyFacts ==
  ASSUME TypePlaces
  PROVE  /\ \A from, to : MovesAndNotifies("reader", from, to) =>
              /\ pc["reader"] = from /\ pc'["reader"] = to
              /\ pc'["caller"] = Notified(pc["caller"], "reader")
         /\ \A from, to : MovesAndNotifies("caller", from, to) =>
              /\ pc["caller"] = from /\ pc'["caller"] = to
              /\ pc'["reader"] = Notified(pc["reader"], "caller")
BY DEF MovesAndNotifies, TypePlaces, Threads, Other

Awaken ==
  \/ pc'["reader"] = pc["reader"]
  \/ pc["reader"] = "asleep" /\ pc'["reader"] = "check"

CallerAwakens ==
  \/ pc'["caller"] = pc["caller"]
  \/ pc["caller"] = "asleep" /\ pc'["caller"] = "lock"
  \/ pc["caller"] = "stopAsleep" /\ pc'["caller"] = "stop"

LEMMA ReaderIsLeft ==
  ASSUME TypePlaces,
         \/ CallerMoves \/ SyncDecompressed \/ SyncDecompressFails \/ Return \/ CloseFile
         \/ ReadCalls \/ CachedRead \/ ReadEnds \/ Decompressing("caller")
  PROVE  Awaken
<1> USE DEF TypePlaces, Threads, Moves, MovesAndNotifies, Notified, Other, Awaken
<1>1. CASE CallerMoves
    BY <1>1 DEF CallerMoves, SeeRequestDone, SeeRequestPending, WaitForRequest, FinishRead,
       CancelRead, Open, Close, WaitUntilStopped, SetQuit, PassMutex, NotifyQuit, Join,
       SpuriousWakeUp
<1>2. CASE SyncDecompressed \/ SyncDecompressFails \/ Return \/ CloseFile
    BY <1>2 DEF SyncDecompressed, SyncDecompressFails, Return, CloseFile
<1>3. CASE ReadCalls \/ CachedRead \/ ReadEnds
    BY <1>3 DEF ReadCalls, BeginRead, ReadSync, BeginCall, CachedRead, ReadEnds, EndBeginRead,
       EndReadSync
<1>4. CASE Decompressing("caller")
    BY <1>4 DEF Decompressing, FindBuffer, StartFill, EndFill, CopyFromBuffer, StartDirect,
       EndDirect
<1> QED
    BY <1>1, <1>2, <1>3, <1>4

LEMMA CallerIsLeft ==
  ASSUME TypePlaces,
         \/ ReaderMoves \/ Ahead \/ Decompressing("reader") \/ Take \/ Decompressed
         \/ DecompressFails \/ Publish \/ Finish
  PROVE  CallerAwakens
<1> USE DEF TypePlaces, Threads, Moves, MovesAndNotifies, Notified, Other, CallerAwakens
<1>1. CASE ReaderMoves
    BY <1>1 DEF ReaderMoves, CheckSleep, Sleep, Exit, PublishFails, AheadStops, AheadFails
<1>2. CASE Ahead
    BY <1>2 DEF Ahead, AheadCached, StartAheadFill, EndAheadFill, StartAppend, EndAppend,
       NextBlock
<1>3. CASE Decompressing("reader")
    BY <1>3 DEF Decompressing, FindBuffer, StartFill, EndFill, CopyFromBuffer, StartDirect,
       EndDirect
<1>4. CASE Take \/ Decompressed \/ DecompressFails \/ Publish \/ Finish
    BY <1>4 DEF Take, Decompressed, DecompressFails, Publish, Finish
<1> QED
    BY <1>1, <1>2, <1>3, <1>4

\* A file that was closed is not opened again.
LEMMA StaysClosed ==
  ASSUME TypePlaces, [Next]_vars
  PROVE  FileOpen' => FileOpen
<1> USE DEF FileOpen
<1>1. CASE \/ ReaderMoves \/ Ahead \/ Decompressing("reader") \/ Take \/ Decompressed
           \/ DecompressFails \/ Publish \/ Finish
    BY <1>1, CallerIsLeft DEF CallerAwakens
<1>2. CASE CallerMoves
    BY <1>2 DEF TypePlaces, Threads, Moves, MovesAndNotifies, Notified, Other, CallerMoves,
       SeeRequestDone, SeeRequestPending, WaitForRequest, FinishRead, CancelRead, Open, Close,
       WaitUntilStopped, SetQuit, PassMutex, NotifyQuit, Join, SpuriousWakeUp
<1>3. CASE Decompressing("caller")
    BY <1>3, MoveFacts DEF Decompressing, FindBuffer, StartFill, EndFill, CopyFromBuffer,
       StartDirect, EndDirect
<1>4. CASE SyncDecompressed \/ SyncDecompressFails
    BY <1>4, NotifyFacts DEF SyncDecompressed, SyncDecompressFails, BufferEnds
<1>5. CASE Return \/ CloseFile \/ ReadCalls
    BY <1>5, MoveFacts DEF Return, CloseFile, ReadCalls, BeginRead, ReadSync, BeginCall
<1>6. CASE CachedRead \/ ReadEnds
    BY <1>6 DEF CachedRead, ReadEnds, EndBeginRead, EndReadSync
<1>7. CASE UNCHANGED vars
    BY <1>7 DEF vars
<1> QED
    BY <1>1, <1>2, <1>3, <1>4, <1>5, <1>6, <1>7, Steps DEF Threads

LEMMA BlockPtrHolds == \A o : BlockPtr(o) \in 0 .. 1 /\ (Cached(o) => BlockPtr(o) \in Holding(o))
BY DEF BlockPtr, Cached, Holding

\* BuffersTrue needs only that who fills a buffer reads a chunk of the file.
LEMMA NextBuffersTrue ==
  ASSUME TypeOK, JobsFit, AheadFits, BuffersTrue, [Next]_vars
  PROVE  TypeBuffers' /\ BuffersTrue'
<1>1. TypeBuffers /\ TypeJob /\ TypeAhead /\ TypePlaces
    BY TypeParts
<1>2. FileOpen' => FileOpen /\ Contents
    BY <1>1, StaysClosed DEF BuffersTrue, Contents
<1>3. ASSUME TypeBuffers', FileOpen /\ Contents => Contents'
      PROVE  TypeBuffers' /\ BuffersTrue'
    BY <1>2, <1>3 DEF BuffersTrue, Contents
<1>4. ASSUME m_buffer' = m_buffer, m_nextBuffer' \in 0 .. 1
      PROVE  TypeBuffers' /\ BuffersTrue'
    BY <1>1, <1>3, <1>4 DEF TypeBuffers, Contents
<1>5. m_nextBuffer \in 0 .. 1
    BY <1>1 DEF TypeBuffers
<1>6. CASE ReaderMoves \/ CallerMoves
    BY <1>4, <1>5, <1>6, StillSteps DEF Still, buffers
<1>7. CASE Ahead
  <2>1. CASE AheadCached
    <3>1. ahead'.buf = BlockPtr(ChunkOffset(ahead.offset))
        BY <2>1, <1>1 DEF AheadCached, TypeAhead
    <3> QED
        BY <2>1, <3>1, <1>4, BlockPtrHolds DEF AheadCached
  <2>2. CASE StartAheadFill
      BY <2>2, <1>1, <1>3, TakeBufferFacts DEF StartAheadFill
  <2>3. CASE EndAheadFill
    <3>1. ahead.offset \in Nat /\ ahead.offset < FileSize
        BY <2>3, <1>1 DEF EndAheadFill, Moves, AheadFits, HasChunk, TypeAhead
    <3> QED
        BY <2>3, <3>1, <1>1, <1>3, FilledFacts DEF EndAheadFill
  <2>4. CASE EndAppend
    <3>1. AppendFits
        BY <2>4 DEF EndAppend, Moves, AheadFits
    <3> QED
        BY <2>4, <3>1, <1>1, <1>3, AppendTrue
  <2>5. CASE StartAppend \/ NextBlock
      BY <2>5, <1>4, <1>5 DEF StartAppend, NextBlock, buffers
  <2> QED
      BY <1>7, <2>1, <2>2, <2>3, <2>4, <2>5 DEF Ahead
<1>8. ASSUME NEW t \in Threads, Decompressing(t)
      PROVE  TypeBuffers' /\ BuffersTrue'
  <2>1. CASE FindBuffer(t)
      BY <2>1, <1>4, BlockPtrHolds DEF FindBuffer
  <2>2. CASE StartFill(t)
      BY <2>2, <1>1, <1>3, TakeBufferFacts DEF StartFill
  <2>3. CASE EndFill(t)
    <3>1. Here(t) \in Nat /\ Here(t) < FileSize
        BY <2>3, <1>1, Sizes DEF EndFill, Moves, JobsFit, JobFits, Here, Remaining, TypeJob
    <3> QED
        BY <2>3, <3>1, <1>1, <1>3, FilledFacts DEF EndFill
  <2>4. CASE CopyFromBuffer(t) \/ StartDirect(t) \/ EndDirect(t)
      BY <2>4, <1>4, <1>5 DEF CopyFromBuffer, StartDirect, EndDirect, buffers
  <2> QED
      BY <1>8, <2>1, <2>2, <2>3, <2>4 DEF Decompressing
<1>9. CASE CloseFile
  <2>1. ~FileOpen'
      BY <1>1, <1>9, MoveFacts DEF CloseFile, FileOpen
  <2>2. \A i \in 0 .. 1 : [m_buffer[i] EXCEPT !.size = 0] \in
          [offset : 0 .. FileSize - 1, size : 0 .. BufferSize, data : [0 .. BufferSize - 1 -> Data]]
    <3> TAKE i \in 0 .. 1
    <3> DEFINE b == m_buffer[i]
    <3>1. b \in [offset : 0 .. FileSize - 1, size : 0 .. BufferSize,
                 data : [0 .. BufferSize - 1 -> Data]]
        BY <1>1 DEF TypeBuffers
    <3> HIDE DEF b
    <3>2. [b EXCEPT !.size = 0] \in
            [offset : 0 .. FileSize - 1, size : 0 .. BufferSize,
             data : [0 .. BufferSize - 1 -> Data]]
        BY <3>1, Sizes
    <3> QED
        BY <3>2 DEF b
  <2>3. TypeBuffers'
      BY <2>2, <1>9, <1>1 DEF CloseFile, TypeBuffers
  <2> QED
      BY <2>1, <2>3 DEF BuffersTrue
<1>10. CASE \/ Take \/ Decompressed \/ DecompressFails \/ Publish \/ Finish
            \/ SyncDecompressed \/ SyncDecompressFails \/ Return
    BY <1>4, <1>5, <1>10 DEF Take, Decompressed, DecompressFails, Publish, Finish,
       SyncDecompressed, SyncDecompressFails, Return, buffers
<1>11. CASE ReadCalls \/ CachedRead \/ ReadEnds
    BY <1>4, <1>5, <1>11 DEF ReadCalls, BeginRead, ReadSync, BeginCall, CachedRead, ReadEnds,
       EndBeginRead, EndReadSync, buffers
<1>12. CASE UNCHANGED vars
    BY <1>4, <1>5, <1>12 DEF vars, buffers
<1> QED
    BY <1>6, <1>7, <1>8, <1>9, <1>10, <1>11, <1>12, Steps

-----------------------------------------------------------------------------
(* Control *)

LEMMA NextTypeFlags ==
  ASSUME TypeFlags, [Next]_vars
  PROVE  TypeFlags'
<1>1. TypeFlags
    OBVIOUS
<1>2. CASE ReaderMoves
    BY Zenon, <1>1, <1>2 DEF ReaderMoves, CheckSleep, Sleep, Exit, PublishFails,
                             AheadStops, AheadFails, TypeFlags, history
<1>3. CASE CallerMoves
    BY Zenon, <1>1, <1>3 DEF CallerMoves, SeeRequestDone, SeeRequestPending, WaitForRequest,
                             FinishRead, CancelRead, Open, Close, WaitUntilStopped, SetQuit,
                             PassMutex, NotifyQuit, Join, SpuriousWakeUp, TypeFlags, history
<1>4. CASE Ahead
    BY Zenon, <1>1, <1>4 DEF Ahead, AheadCached, StartAheadFill, EndAheadFill, StartAppend,
                             EndAppend, NextBlock, TypeFlags, history
<1>5. ASSUME NEW t \in Threads, Decompressing(t)
      PROVE  TypeFlags'
    BY Zenon, <1>1, <1>5 DEF Decompressing, FindBuffer, CopyFromBuffer, StartFill, EndFill,
                             StartDirect, EndDirect, TypeFlags, history
<1>6. CASE Take \/ Decompressed \/ DecompressFails \/ Publish \/ Finish
    BY Zenon, <1>1, <1>6 DEF Take, Decompressed, DecompressFails, Publish, Finish,
       TypeFlags, history
<1>7. CASE SyncDecompressed \/ SyncDecompressFails \/ CloseFile
    BY Zenon, <1>1, <1>7 DEF SyncDecompressed, SyncDecompressFails, CloseFile, TypeFlags, history
<1>8. CASE Return
  <2>1. (begun /\ op = "ReadSync") \in BOOLEAN
      OBVIOUS
  <2> QED
      BY Zenon, <1>1, <1>8, <2>1 DEF Return, TypeFlags
<1>9. CASE ReadCalls
  <2>1. PICK name : /\ begun' = (begun \/ name = "BeginRead") /\ erred' = FALSE
                    /\ UNCHANGED <<m_running, m_quit, m_internalBlockSize>>
      BY Zenon, <1>9 DEF ReadCalls, BeginRead, ReadSync, BeginCall
  <2>2. (begun \/ name = "BeginRead") \in BOOLEAN
      OBVIOUS
  <2> QED
      BY Zenon, <1>1, <2>1, <2>2 DEF TypeFlags
<1>10. CASE CachedRead \/ ReadEnds
    BY Zenon, <1>1, <1>10 DEF CachedRead, ReadEnds, EndBeginRead, EndReadSync, TypeFlags, history
<1>11. CASE UNCHANGED vars
    BY Zenon, <1>1, <1>11 DEF vars, TypeFlags, history
<1> QED
    BY <1>2, <1>3, <1>4, <1>5, <1>6, <1>7, <1>8, <1>9, <1>10, <1>11, Steps

LEMMA NextTypePlaces ==
  ASSUME TypePlaces, [Next]_vars
  PROVE  TypePlaces'
<1>1. TypePlaces
    OBVIOUS
<1> USE <1>1 DEF TypePlaces, Threads, ReaderPCs, CallerPCs, InReadChunk, Moves,
                 MovesAndNotifies, Notified, Other, call
<1>2. CASE ReaderMoves
    BY <1>2 DEF ReaderMoves, CheckSleep, Sleep, Exit, PublishFails, AheadStops, AheadFails
<1>3. CASE CallerMoves
    BY <1>3 DEF CallerMoves, SeeRequestDone, SeeRequestPending, WaitForRequest, FinishRead,
                CancelRead, Open, Close, WaitUntilStopped, SetQuit, PassMutex, NotifyQuit,
                Join, SpuriousWakeUp
<1>4. CASE Ahead
    BY <1>4 DEF Ahead, AheadCached, StartAheadFill, EndAheadFill, StartAppend, EndAppend,
                NextBlock
<1>5. ASSUME NEW t \in Threads, Decompressing(t)
      PROVE  TypePlaces'
    BY <1>5 DEF Decompressing, FindBuffer, CopyFromBuffer, StartFill, EndFill, StartDirect,
                EndDirect
<1>6. CASE Take \/ Decompressed \/ DecompressFails \/ Publish \/ Finish
    BY <1>6 DEF Take, Decompressed, DecompressFails, Publish, Finish
<1>7. CASE SyncDecompressed \/ SyncDecompressFails \/ Return \/ CloseFile
    BY <1>7 DEF SyncDecompressed, SyncDecompressFails, Return, CloseFile
<1>8. CASE ReadCalls
    BY <1>8 DEF ReadCalls, BeginRead, ReadSync, BeginCall
<1>9. CASE CachedRead \/ ReadEnds
    BY <1>9 DEF CachedRead, ReadEnds, EndBeginRead, EndReadSync
<1>10. CASE UNCHANGED vars
    BY <1>10 DEF vars
<1> QED
    BY <1>2, <1>3, <1>4, <1>5, <1>6, <1>7, <1>8, <1>9, <1>10, Steps

LEMMA NextExclusion ==
  ASSUME TypeOK, Exclusion, [Next]_vars
  PROVE  Exclusion'
<1>1. TypePlaces /\ TypeFlags
    BY TypeParts
<1> USE <1>1 DEF TypePlaces, Threads, ReaderPCs, CallerPCs, InReadChunk, Moves,
                 MovesAndNotifies, Notified, Other, Exclusion, Busy, InDecompress,
                 MutexFreeFor, HoldsMutex
<1>3. CASE ReaderMoves
    BY <1>3 DEF ReaderMoves, CheckSleep, Sleep, Exit, PublishFails, AheadStops, AheadFails
<1>4. CASE CallerMoves
    BY <1>4 DEF CallerMoves, SeeRequestDone, SeeRequestPending, WaitForRequest, FinishRead,
                CancelRead, Open, Close, WaitUntilStopped, SetQuit, PassMutex, NotifyQuit,
                Join, SpuriousWakeUp
<1>5. CASE Ahead
    BY <1>5 DEF Ahead, AheadCached, StartAheadFill, EndAheadFill, StartAppend, EndAppend,
                NextBlock
<1>6. ASSUME NEW t \in Threads, Decompressing(t)
      PROVE  Exclusion'
    BY <1>6 DEF Decompressing, FindBuffer, CopyFromBuffer, StartFill, EndFill, StartDirect,
                EndDirect
<1>7. CASE Take
  <2>1. m_running' = TRUE /\ pc'["reader"] \in {"publish", "work"} /\ pc'["caller"] = pc["caller"]
      BY <1>7 DEF Take
  <2>2. pc["caller"] \notin InDecompress
      BY <1>7 DEF Take
  <2> QED
      BY <2>1, <2>2
<1>8. CASE Decompressed \/ DecompressFails \/ Publish \/ Finish
    BY <1>8 DEF Decompressed, DecompressFails, Publish, Finish, BufferEnds
<1>9. CASE SyncDecompressed \/ SyncDecompressFails \/ Return \/ CloseFile
    BY <1>9 DEF SyncDecompressed, SyncDecompressFails, Return, CloseFile, BufferEnds
<1>10. CASE ReadCalls \/ CachedRead
    BY <1>10 DEF ReadCalls, BeginRead, ReadSync, BeginCall, CachedRead
<1>11. CASE EndBeginRead
    BY <1>11 DEF EndBeginRead
<1>12. CASE EndReadSync
  <2>1. m_running' = m_running /\ Awaken
      BY <1>12, ReaderIsLeft DEF EndReadSync, ReadEnds
  <2>2. pc'["caller"] \in {"done", "finish"} \/ (pc'["caller"] = "work" /\ ~m_running)
      BY <1>12 DEF EndReadSync
  <2> QED
      BY <2>1, <2>2 DEF Awaken
<1>13. CASE UNCHANGED vars
    BY <1>13 DEF vars
<1> QED
    BY <1>3, <1>4, <1>5, <1>6, <1>7, <1>8, <1>9, <1>10, <1>11, <1>12, <1>13, Steps DEF ReadEnds

-----------------------------------------------------------------------------
(* TryCachedRead *)

\* The buffer that a step copies from, what it copies, and from where.
LookedAt == m_buffer[read.step % 2]
CachedSize == CopySize(LookedAt)
CachedFrom == read.offset - LookedAt.offset

LEMMA ReadFacts ==
  ASSUME TypeOK
  PROVE  /\ read.offset \in Nat /\ read.size \in Nat /\ read.pos \in Nat /\ read.end \in Nat
         /\ read.bufsize \in Nat /\ read.step \in 0 .. 4 /\ read.allDone \in BOOLEAN
         /\ read.bufsize <= BufferSize
         /\ read.step % 2 \in 0 .. 1
<1>1. read \in [offset : 0 .. FileSize, size : 0 .. MaxRead, pos : 0 .. MaxRead,
                end : Nat, allDone : BOOLEAN, step : 0 .. 4, bufsize : 0 .. BufferSize]
    BY DEF TypeOK
<1> QED
    BY <1>1, Sizes

LEMMA CachedFacts ==
  ASSUME TypeOK, ReadFits, CachedRead
  PROVE  /\ CachedSize \in Nat /\ CachedSize <= read.size
         /\ Write(At(Wanted, read.pos), CachedSize, LookedAt.data, CachedFrom)
         /\ m_amtRead' = m_amtRead + CachedSize
         /\ read' \in [offset : 0 .. FileSize, size : 0 .. MaxRead, pos : 0 .. MaxRead,
                       end : Nat, allDone : BOOLEAN, step : 0 .. 4, bufsize : 0 .. BufferSize]
         /\ read'.offset = read.offset + CachedSize /\ read'.size = read.size - CachedSize
         /\ read'.pos = read.pos + CachedSize
         /\ read'.end > 0 => read'.size = 0
         /\ read'.allDone => read'.size = 0
         /\ read'.step \in 0 .. 4 /\ read'.bufsize = m_buffer[read'.step % 2].size
         /\ \A k \in 0 .. CachedSize - 1 : LookedAt.data[CachedFrom + k] \in Data
         /\ BuffersTrue => \A k \in 0 .. CachedSize - 1 :
                             LookedAt.data[CachedFrom + k] = read.offset + k
<1> DEFINE b == LookedAt
           n == CachedSize
           end == CopyEnd(b)
           done == read.allDone \/ (read.bufsize > 0 /\ end > 0 /\ b.offset = end)
           next == (read.step + 1) % 2
<1>1. /\ read.offset \in Nat /\ read.size \in Nat /\ read.pos \in Nat /\ read.end \in Nat
      /\ read.bufsize \in Nat /\ read.step \in 0 .. 3 /\ read.allDone \in BOOLEAN
      /\ read.step % 2 \in 0 .. 1 /\ next \in 0 .. 1
    BY ReadFacts DEF CachedRead
<1>2. /\ read.offset + read.size <= FileSize /\ read.pos + read.size <= MaxRead
      /\ read.end > 0 => read.size = 0
      /\ read.allDone => read.size = 0
      /\ read.bufsize <= b.size
    BY <1>1 DEF ReadFits, CachedRead, LookedAt
<1>3. b \in [offset : 0 .. FileSize - 1, size : 0 .. BufferSize, data : [0 .. BufferSize - 1 -> Data]]
      /\ m_buffer[next].size \in 0 .. BufferSize
    BY <1>1 DEF TypeOK, LookedAt
<1>4. BuffersTrue => \A k \in 0 .. b.size - 1 : b.data[k] = b.offset + k
    BY <1>1 DEF BuffersTrue, FileOpen, CachedRead, LookedAt
<1>5. /\ Write(At(Wanted, read.pos), n, b.data, read.offset - b.offset)
      /\ m_amtRead' = m_amtRead + n
      /\ read' = [offset |-> read.offset + n, size |-> read.size - n, pos |-> read.pos + n,
                  end |-> end, allDone |-> done, step |-> read.step + 1,
                  bufsize |-> m_buffer[next].size]
    BY DEF CachedRead, LookedAt, CachedSize
<1>6. b.offset \in Nat /\ b.size \in Nat /\ b.size <= BufferSize
      /\ b.data \in [0 .. BufferSize - 1 -> Data]
    BY <1>3, Sizes
<1> HIDE DEF b
<1>7. /\ n \in Nat /\ n <= read.size
      /\ n > 0 => b.offset <= read.offset /\ read.offset + n <= b.offset + b.size
    BY SMTT(90), <1>1, <1>2, <1>6 DEF CachedSize, CopySize, InBuffer, Least, b
<1>8. end \in Nat /\ (end > 0 => read.size - n = 0)
    BY <1>1, <1>2, <1>6, <1>7 DEF CopyEnd, CachedSize, b
<1> HIDE DEF n, end
<1>9. done \in BOOLEAN /\ (done => read.size - n = 0)
    BY <1>1, <1>2, <1>7, <1>8
<1> HIDE DEF done
<1>10. \A k \in 0 .. n - 1 : (read.offset - b.offset) + k \in 0 .. b.size - 1
                             /\ b.offset + ((read.offset - b.offset) + k) = read.offset + k
    BY <1>1, <1>6, <1>7
<1>11. \A k \in 0 .. n - 1 : b.data[(read.offset - b.offset) + k] \in Data
  <2> TAKE k \in 0 .. n - 1
  <2>1. (read.offset - b.offset) + k \in 0 .. BufferSize - 1
      BY <1>6, <1>10, Sizes
  <2> QED
      BY <2>1, <1>6
<1>12. ASSUME BuffersTrue, NEW k \in 0 .. n - 1
       PROVE  b.data[(read.offset - b.offset) + k] = read.offset + k
  <2> DEFINE at == (read.offset - b.offset) + k
  <2>1. at \in 0 .. b.size - 1 /\ b.offset + at = read.offset + k
      BY <1>10
  <2> HIDE DEF at
  <2>2. b.data[at] = read.offset + k
      BY <2>1, <1>4, <1>12
  <2> QED
      BY <2>2 DEF at
<1>13. /\ read'.offset = read.offset + n /\ read'.size = read.size - n
       /\ read'.pos = read.pos + n /\ read'.end = end /\ read'.allDone = done
       /\ read'.step = read.step + 1 /\ read'.bufsize = m_buffer[next].size
    BY <1>5
<1>14. /\ read.offset + n \in 0 .. FileSize /\ read.size - n \in 0 .. MaxRead
       /\ read.pos + n \in 0 .. MaxRead /\ read.step + 1 \in 0 .. 4
    BY <1>1, <1>2, <1>7, Sizes
<1>15. read' \in [offset : 0 .. FileSize, size : 0 .. MaxRead, pos : 0 .. MaxRead,
                  end : Nat, allDone : BOOLEAN, step : 0 .. 4, bufsize : 0 .. BufferSize]
    BY <1>3, <1>5, <1>8, <1>9, <1>14
<1>16. next = read'.step % 2
    BY <1>13
<1> HIDE DEF next
<1> QED
    BY <1>5, <1>7, <1>8, <1>9, <1>11, <1>12, <1>13, <1>14, <1>15, <1>16
       DEF b, n, CachedFrom

\* While the caller is in TryCachedRead, with the mutex, the buffers only grow.
LEMMA BuffersGrow ==
  ASSUME TypeOK, AheadFits, HeldFits, pc["caller"] = "cache", Ahead \/ Decompressing("reader")
  PROVE  \A i \in 0 .. 1 : m_buffer'[i].size >= m_buffer[i].size
<1>1. TypeBuffers /\ TypeAhead
    BY TypeParts
<1>2. \A i \in 0 .. 1 : m_buffer[i].size \in Nat
    BY <1>1, Sizes DEF TypeBuffers
<1>3. ~MutexFreeFor("reader")
    BY DEF MutexFreeFor, HoldsMutex, Threads
<1>4. ASSUME m_buffer' = m_buffer
      PROVE  \A i \in 0 .. 1 : m_buffer'[i].size >= m_buffer[i].size
    BY <1>2, <1>4
<1>5. ASSUME NEW o, NEW n \in Amounts(o), FilledWith(o, n), m_buffer[m_nextBuffer].size = 0
      PROVE  \A i \in 0 .. 1 : m_buffer'[i].size >= m_buffer[i].size
  <2>1. n \in Nat
      BY AmountFacts
  <2> QED
      BY <2>1, <1>1, <1>2, <1>5 DEF FilledWith, TypeBuffers
<1>6. CASE AheadCached \/ StartAppend \/ NextBlock
    BY <1>4, <1>6 DEF AheadCached, StartAppend, NextBlock, buffers
<1>7. CASE StartAheadFill
    BY <1>3, <1>7 DEF StartAheadFill
<1>8. CASE EndAheadFill
  <2>1. m_buffer[m_nextBuffer].size = 0
      BY <1>8 DEF EndAheadFill, Moves, HeldFits
  <2> QED
      BY <2>1, <1>5, <1>8 DEF EndAheadFill
<1>9. CASE EndAppend
  <2>1. AppendFits
      BY <1>9 DEF EndAppend, Moves, AheadFits
  <2>2. PICK n \in Amounts(ahead.offset), data \in [0 .. BufferSize - 1 -> Data] :
          Appends(n, data)
      BY <2>1, <1>1, <1>9, AppendFacts
  <2>3. n \in Nat
      BY AmountFacts
  <2> DEFINE size == (ahead.offset - m_buffer[ahead.buf].offset) + n
             c == [offset |-> m_buffer[ahead.buf].offset, size |-> size, data |-> data]
  <2>4. m_buffer' = [m_buffer EXCEPT ![ahead.buf] = c] /\ size >= m_buffer[ahead.buf].size
      BY <2>2, <2>3 DEF Appends
  <2>5. c.size = size
      OBVIOUS
  <2> HIDE DEF c, size
  <2> QED
      BY <2>4, <2>5, <1>1, <1>2 DEF TypeBuffers, TypeAhead
<1>10. CASE FindBuffer("reader") \/ CopyFromBuffer("reader") \/ StartDirect("reader")
            \/ EndDirect("reader")
    BY <1>4, <1>10 DEF FindBuffer, CopyFromBuffer, StartDirect, EndDirect, buffers
<1>11. CASE StartFill("reader")
    BY <1>3, <1>11 DEF StartFill
<1>12. CASE EndFill("reader")
  <2>1. m_buffer[m_nextBuffer].size = 0
      BY <1>12 DEF EndFill, Moves, HeldFits
  <2> QED
      BY <2>1, <1>5, <1>12 DEF EndFill
<1> QED
    BY <1>6, <1>7, <1>8, <1>9, <1>10, <1>11, <1>12 DEF Ahead, Decompressing

LEMMA ReadCallFacts ==
  ASSUME NEW r \in Reads
  PROVE  /\ r.offset \in 0 .. FileSize - 1 /\ r.size \in 1 .. MaxRead
         /\ r.offset \in Nat /\ r.size \in Nat
         /\ r.offset + r.size <= FileSize
<1>1. r \in [offset : 0 .. FileSize - 1, size : 1 .. MaxRead] /\ r.offset + r.size <= FileSize
    BY ThreadedFileReaderAssumption
<1>2. r.offset \in 0 .. FileSize - 1 /\ r.size \in 1 .. MaxRead
    BY <1>1
<1> QED
    BY <1>1, <1>2, Sizes

LEMMA NextRead ==
  ASSUME TypeOK, AheadFits, HeldFits, ReadFits, TypeBuffers', [Next]_vars
  PROVE  TypeRead' /\ ReadFits'
<1>1. TypeRead /\ TypePlaces /\ TypeBuffers
    BY TypeParts
<1>2. ASSUME read' = read, pc'["caller"] # "cache"
      PROVE  TypeRead' /\ ReadFits'
    BY <1>1, <1>2 DEF TypeRead, ReadFits
<1>3. ASSUME read' = read, pc'["caller"] = pc["caller"],
             pc["caller"] = "cache" =>
               \A i \in 0 .. 1 : m_buffer'[i].size >= m_buffer[i].size
      PROVE  TypeRead' /\ ReadFits'
  <2>1. CASE pc["caller"] = "cache"
    <3>1. /\ read.step % 2 \in 0 .. 1 /\ read.bufsize \in Nat
          /\ \A i \in 0 .. 1 : m_buffer[i].size \in Nat /\ m_buffer'[i].size \in Nat
        BY <1>1, ReadFacts, Sizes DEF TypeBuffers
    <3>2. read.step < 4 => read.bufsize <= m_buffer'[read.step % 2].size
        BY <3>1, <1>3, <2>1 DEF ReadFits
    <3> QED
        BY <3>2, <2>1, <1>1, <1>3 DEF TypeRead, ReadFits
  <2>2. CASE pc["caller"] # "cache"
      BY <2>2, <1>2, <1>3
  <2> QED
      BY <2>1, <2>2
<1>4. ASSUME UNCHANGED <<read, m_buffer>>, CallerAwakens
      PROVE  TypeRead' /\ ReadFits'
  <2>1. \A i \in 0 .. 1 : m_buffer[i].size \in Nat
      BY <1>1, Sizes DEF TypeBuffers
  <2> QED
      BY <2>1, <1>2, <1>3, <1>4 DEF CallerAwakens
<1>5. CASE ReaderMoves
    BY <1>1, <1>4, <1>5, StillSteps, CallerIsLeft DEF Still, buffers
<1>6. CASE CallerMoves
  <2>1. UNCHANGED <<read, m_buffer>>
      BY <1>6, StillSteps DEF Still, buffers
  <2>2. pc'["caller"] # "cache" \/ CallerAwakens
      BY <1>1, <1>6 DEF CallerMoves, SeeRequestDone, SeeRequestPending, WaitForRequest,
         FinishRead, CancelRead, Open, Close, WaitUntilStopped, SetQuit, PassMutex, NotifyQuit,
         Join, SpuriousWakeUp, Moves, MovesAndNotifies, Notified, Other, TypePlaces, Threads,
         CallerAwakens
  <2> QED
      BY <2>1, <2>2, <1>2, <1>4
<1>7. CASE Ahead \/ Decompressing("reader")
  <2>1. read' = read
      BY <1>7 DEF Ahead, AheadCached, StartAheadFill, EndAheadFill, StartAppend, EndAppend,
         NextBlock, Decompressing, FindBuffer, StartFill, EndFill, CopyFromBuffer,
         StartDirect, EndDirect, call
  <2>2. pc'["caller"] = pc["caller"]
      BY <1>1, <1>7, MoveFacts DEF Ahead, AheadCached, StartAheadFill, EndAheadFill, StartAppend,
         EndAppend, NextBlock, Decompressing, FindBuffer, StartFill, EndFill, CopyFromBuffer,
         StartDirect, EndDirect
  <2>3. pc["caller"] = "cache" => \A i \in 0 .. 1 : m_buffer'[i].size >= m_buffer[i].size
      BY <1>7, BuffersGrow
  <2> QED
      BY <2>1, <2>2, <2>3, <1>3
<1>8. CASE Take \/ Decompressed \/ DecompressFails \/ Publish \/ Finish
  <2>1. UNCHANGED <<read, m_buffer>>
      BY <1>8 DEF Take, Decompressed, DecompressFails, Publish, Finish, buffers, call
  <2> QED
      BY <2>1, <1>1, <1>4, <1>8, CallerIsLeft
<1>9. CASE \/ Decompressing("caller") \/ SyncDecompressed \/ SyncDecompressFails \/ Return
           \/ CloseFile
  <2>1. read' = read
      BY <1>9 DEF Decompressing, FindBuffer, StartFill, EndFill, CopyFromBuffer, StartDirect,
         EndDirect, SyncDecompressed, SyncDecompressFails, Return, CloseFile, call
  <2>2. pc'["caller"] # "cache"
      BY <1>1, <1>9, MoveFacts, NotifyFacts DEF Decompressing, FindBuffer, StartFill, EndFill,
         CopyFromBuffer, StartDirect, EndDirect, SyncDecompressed, SyncDecompressFails, Return,
         CloseFile
  <2> QED
      BY <2>1, <2>2, <1>2
<1>10. ASSUME NEW r \in Reads, BeginRead(r.offset, r.size) \/ ReadSync(r.offset, r.size)
       PROVE  TypeRead' /\ ReadFits'
  <2>1. /\ read' = [offset |-> r.offset, size |-> r.size, pos |-> 0, end |-> 0,
                    allDone |-> FALSE, step |-> 0, bufsize |-> m_buffer[0].size]
        /\ m_buffer' = m_buffer
      BY <1>10 DEF BeginRead, ReadSync, BeginCall, buffers
  <2>2. m_buffer[0].size \in 0 .. BufferSize /\ m_buffer[0].size \in Nat
      BY <1>1, Sizes DEF TypeBuffers
  <2>3. r.offset \in 0 .. FileSize /\ r.size \in 0 .. MaxRead /\ r.size > 0
        /\ r.offset + r.size <= FileSize
      BY ReadCallFacts, Sizes
  <2>4. TypeRead'
      BY <2>1, <2>2, <2>3, Sizes DEF TypeRead
  <2>5. ReadFits'
      BY <2>1, <2>2, <2>3, Sizes DEF ReadFits
  <2> QED
      BY <2>4, <2>5
<1>11. CASE CachedRead
  <2>1. pc["caller"] = "cache" /\ m_buffer' = m_buffer
      BY <1>11 DEF CachedRead, buffers
  <2>2. TypeRead'
      BY <1>11, CachedFacts DEF TypeRead
  <2>3. /\ read.offset + read.size <= FileSize /\ read.pos + read.size <= MaxRead
        /\ read.offset + read.size > 0
        /\ read.offset \in Nat /\ read.size \in Nat /\ read.pos \in Nat
      BY <2>1, ReadFacts DEF ReadFits
  <2>4. /\ read'.offset + read'.size = read.offset + read.size
        /\ read'.pos + read'.size = read.pos + read.size
      BY <2>3, <1>11, CachedFacts
  <2>5. /\ read'.end > 0 => read'.size = 0
        /\ read'.allDone => read'.size = 0
        /\ read'.bufsize = m_buffer[read'.step % 2].size /\ read'.bufsize \in Nat
      BY <2>2, <1>11, CachedFacts DEF TypeRead
  <2>6. read'.step < 4 => read'.bufsize <= m_buffer'[read'.step % 2].size
      BY <2>1, <2>5
  <2> QED
      BY <2>2, <2>3, <2>4, <2>5, <2>6 DEF ReadFits
<1>12. CASE ReadEnds
  <2>1. read' = NoRead /\ pc'["caller"] # "cache"
      BY <1>1, <1>12, MoveFacts, NotifyFacts DEF ReadEnds, EndBeginRead, EndReadSync
  <2> QED
      BY <2>1, Sizes DEF NoRead, TypeRead, ReadFits
<1>13. CASE UNCHANGED vars
    BY <1>4, <1>13 DEF vars, buffers, call, CallerAwakens
<1> QED
    BY <1>5, <1>6, <1>7, <1>8, <1>9, <1>10, <1>11, <1>12, <1>13, Steps DEF ReadCalls, Threads

-----------------------------------------------------------------------------
(* The request *)

RequestOK ==
  /\ m_requestPtr \in [target : Targets, pos : -1 .. MaxRead - 1]
  /\ m_requestOffset \in 0 .. FileSize - 1 /\ m_requestSize \in 0 .. MaxRead
  /\ RequestFits

LEMMA NullFacts ==
  /\ Null \in [target : Targets, pos : -1 .. MaxRead - 1] /\ Null.pos = -1
  /\ Null.target = "stack"
BY Sizes DEF Null, Targets

LEMMA PostFacts ==
  ASSUME NEW ptr, NEW offset \in Nat, NEW size \in Nat,
         offset + size <= FileSize, size = 0 => offset > 0,
         size > 0 => /\ ptr \in [target : Targets, pos : -1 .. MaxRead - 1]
                     /\ ptr.pos >= 0 /\ ptr.pos + size <= MaxRead,
         Post(ptr, offset, size)
  PROVE  /\ RequestOK'
         /\ m_requestPtr' = IF size = 0 THEN Null ELSE ptr
         /\ size > 0 => m_requestOffset' = offset /\ m_requestSize' = size
<1>1. CASE size = 0
  <2>1. /\ m_requestPtr' = Null /\ m_requestOffset' = offset - 1 /\ m_requestSize' = 1
      BY <1>1 DEF Post
  <2> QED
      BY <1>1, <2>1, NullFacts, Sizes DEF RequestOK, RequestFits
<1>2. CASE size > 0
  <2>1. ptr \in [target : Targets, pos : -1 .. MaxRead - 1] /\ ptr.pos \in Nat
      BY <1>2, Sizes
  <2>2. /\ m_requestPtr' = ptr /\ m_requestOffset' = offset /\ m_requestSize' = size
      BY <1>2 DEF Post
  <2> QED
      BY <1>2, <2>1, <2>2, Sizes DEF RequestOK, RequestFits
<1> QED
    BY <1>1, <1>2

LEMMA AtFacts ==
  ASSUME NEW target \in Targets, NEW pos \in 0 .. MaxRead - 1
  PROVE  /\ At(target, pos) \in [target : Targets, pos : -1 .. MaxRead - 1]
         /\ At(target, pos).pos = pos /\ At(target, pos).target = target
         /\ At(target, pos) # Null
BY Sizes DEF At, Null

\* What the job of a thread is, while it decompresses.
LEMMA JobFacts ==
  ASSUME TypeOK, JobsFit, NEW t \in Threads
  PROVE  /\ job[t].ptr \in [target : Targets, pos : -1 .. MaxRead - 1]
         /\ job[t].offset \in 0 .. FileSize - 1
         /\ job[t].size \in Nat /\ job[t].done \in Nat /\ job[t].ok \in BOOLEAN
         /\ job[t].ptr.target \in Targets /\ job[t].buf \in 0 .. 1
         /\ job[t].done <= job[t].size /\ job[t].size <= MaxRead
         /\ job[t].offset + job[t].size <= FileSize
         /\ Here(t) \in Nat /\ Here(t) = job[t].offset + job[t].done
         /\ Remaining(t) \in Nat /\ Remaining(t) = job[t].size - job[t].done
         /\ pc[t] \in InDecompress =>
              /\ job[t].size > 0 /\ job[t].ptr.pos \in Nat
              /\ job[t].ptr.pos + job[t].size <= MaxRead
<1>1. job[t] \in [ptr : [target : Targets, pos : -1 .. MaxRead - 1],
                  offset : 0 .. FileSize - 1, size : 0 .. MaxRead,
                  done : 0 .. MaxRead, buf : 0 .. 1, ok : BOOLEAN]
    BY DEF TypeOK
<1>2. JobFits(t)
    BY DEF JobsFit
<1>3. /\ job[t].ptr \in [target : Targets, pos : -1 .. MaxRead - 1]
      /\ job[t].offset \in 0 .. FileSize - 1 /\ job[t].size \in 0 .. MaxRead
      /\ job[t].done \in 0 .. MaxRead /\ job[t].buf \in 0 .. 1 /\ job[t].ok \in BOOLEAN
    BY <1>1
<1>4. job[t].ptr.target \in Targets /\ job[t].ptr.pos \in -1 .. MaxRead - 1
    BY <1>3
<1> QED
    BY <1>2, <1>3, <1>4, Sizes DEF JobFits, Here, Remaining

\* What TryCachedRead has left.
LEMMA RestFacts ==
  ASSUME TypeOK, ReadFits, pc["caller"] = "cache", NEW target \in Targets
  PROVE  /\ read.offset + read.size <= FileSize
         /\ read.size = 0 => read.offset > 0
         /\ read.size > 0 =>
              /\ read.offset \in 0 .. FileSize - 1 /\ read.size \in 0 .. MaxRead
              /\ At(target, read.pos) \in [target : Targets, pos : -1 .. MaxRead - 1]
              /\ At(target, read.pos).pos = read.pos /\ At(target, read.pos).target = target
              /\ At(target, read.pos) # Null
              /\ At(target, read.pos).pos >= 0
              /\ At(target, read.pos).pos + read.size <= MaxRead
<1>1. /\ read.offset \in Nat /\ read.size \in Nat /\ read.pos \in Nat
      /\ read.offset + read.size <= FileSize /\ read.pos + read.size <= MaxRead
      /\ read.offset + read.size > 0
    BY ReadFacts DEF ReadFits
<1>2. read.size > 0 => read.pos \in 0 .. MaxRead - 1
    BY <1>1, Sizes
<1>3. read.size > 0 => read.offset \in 0 .. FileSize - 1 /\ read.size \in 0 .. MaxRead
    BY <1>1, Sizes
<1> QED
    BY <1>1, <1>2, <1>3, AtFacts

LEMMA NextRequest ==
  ASSUME TypeOK, JobsFit, RequestFits, ReadFits, [Next]_vars
  PROVE  TypeRequest' /\ RequestFits'
<1>1. TypeRequest
    BY TypeParts
<1>2. ASSUME UNCHANGED request, m_amtRead' \in Nat
      PROVE  TypeRequest' /\ RequestFits'
    BY <1>1, <1>2 DEF TypeRequest, RequestFits, request
<1>3. m_amtRead \in Nat
    BY <1>1 DEF TypeRequest
<1>4. ASSUME RequestOK', m_amtRead' \in Nat
      PROVE  TypeRequest' /\ RequestFits'
    BY <1>4 DEF RequestOK, TypeRequest
<1>5. RequestOK
    BY <1>1 DEF RequestOK, TypeRequest
<1>6. "reader" \in Threads /\ "caller" \in Threads
    BY DEF Threads
<1>7. CASE ReaderMoves \/ CallerMoves
    BY <1>2, <1>3, <1>7, StillSteps DEF Still
<1>8. CASE Ahead
    BY <1>2, <1>3, <1>8 DEF Ahead, AheadCached, StartAheadFill, EndAheadFill, StartAppend,
                          EndAppend, NextBlock
<1>9. ASSUME NEW t \in Threads, Decompressing(t)
      PROVE  TypeRequest' /\ RequestFits'
    BY <1>2, <1>3, <1>9 DEF Decompressing, FindBuffer, CopyFromBuffer, StartFill, EndFill,
                          StartDirect, EndDirect
<1>10. CASE Take \/ DecompressFails \/ Return \/ CloseFile
    BY <1>2, <1>3, <1>10 DEF Take, DecompressFails, Return, CloseFile
<1>11. CASE Decompressed
    BY <1>2, <1>3, <1>6, <1>11, JobFacts DEF Decompressed
<1>12. CASE Publish
  <2>1. /\ m_requestPtr' = Null /\ m_requestOffset' = m_requestOffset
        /\ m_requestSize' = m_requestSize /\ m_amtRead' = m_amtRead
      BY <1>12 DEF Publish
  <2> QED
      BY <2>1, <1>3, <1>4, <1>5, NullFacts DEF RequestOK, RequestFits
<1>13. CASE Finish
  <2>1. /\ m_requestPtr' = m_requestPtr /\ m_requestOffset' = m_requestOffset
        /\ m_requestSize' = m_requestSize \/ (m_requestSize' = 0 /\ m_requestPtr = Null)
        /\ m_amtRead' = m_amtRead
      BY <1>13 DEF Finish
  <2> QED
      BY <2>1, <1>3, <1>4, <1>5, Sizes DEF RequestOK, RequestFits
<1>14. CASE SyncDecompressed
  <2>1. /\ Post(Null, Here("caller"), 0) /\ Remaining("caller") = 0
        /\ pc["caller"] = "work"
        /\ m_amtRead' = m_amtRead + job["caller"].size
      BY <1>14 DEF SyncDecompressed, MovesAndNotifies
  <2>2. Here("caller") \in Nat /\ Here("caller") <= FileSize /\ Here("caller") > 0
        /\ job["caller"].size \in Nat
      BY <2>1, <1>6, JobFacts, Sizes DEF InDecompress
  <2> DEFINE h == Here("caller")
  <2>3. h \in Nat /\ h + 0 <= FileSize /\ h > 0 /\ 0 \in Nat /\ ~(0 > 0) /\ Post(Null, h, 0)
      BY <2>1, <2>2, Sizes
  <2> HIDE DEF h
  <2>4. RequestOK'
      BY <2>3, PostFacts
  <2> QED
      BY <2>1, <2>2, <2>4, <1>3, <1>4
<1>15. CASE SyncDecompressFails
  <2>1. /\ Post(job["caller"].ptr, job["caller"].offset, job["caller"].size)
        /\ pc["caller"] \in InDecompress /\ m_amtRead' = m_amtRead
      BY <1>15 DEF SyncDecompressFails, InDecompress, BufferEnds
  <2>2. RequestOK'
      BY <2>1, <1>6, JobFacts, PostFacts
  <2> QED
      BY <2>1, <2>2, <1>3, <1>4
<1>16. CASE ReadCalls
    BY <1>2, <1>16 DEF ReadCalls, BeginRead, ReadSync, BeginCall
<1>17. CASE CachedRead
  <2>1. UNCHANGED request /\ m_amtRead' = m_amtRead + CachedSize /\ CachedSize \in Nat
      BY <1>17, CachedFacts DEF CachedRead
  <2> QED
      BY <2>1, <1>2, <1>3
<1>18. CASE ReadEnds
  <2>1. /\ pc["caller"] = "cache" /\ m_amtRead' = m_amtRead
        /\ \/ UNCHANGED request
           \/ \E target \in Targets : Post(At(target, read.pos), read.offset, read.size)
      BY <1>18 DEF ReadEnds, EndBeginRead, EndReadSync, Targets
  <2>2. ASSUME NEW target \in Targets, Post(At(target, read.pos), read.offset, read.size)
        PROVE  RequestOK'
      BY <2>1, <2>2, RestFacts, PostFacts, ReadFacts
  <2> QED
      BY <2>1, <2>2, <1>2, <1>3, <1>4
<1>19. CASE UNCHANGED vars
    BY <1>2, <1>3, <1>19 DEF vars
<1> QED
    BY <1>7, <1>8, <1>9, <1>10, <1>11, <1>12, <1>13, <1>14, <1>15, <1>16, <1>17, <1>18, <1>19,
       Steps

-----------------------------------------------------------------------------
(* The jobs *)

JobType == [ptr : [target : Targets, pos : -1 .. MaxRead - 1],
            offset : 0 .. FileSize - 1, size : 0 .. MaxRead,
            done : 0 .. MaxRead, buf : 0 .. 1, ok : BOOLEAN]

\* What CopyFromBuffer copies.
CopyBuffer(t) == m_buffer[job[t].buf]
CopyLength(t) == Least(CopyBuffer(t).size - Offset(t), Remaining(t))

LEMMA CopyFacts ==
  ASSUME TypeOK, JobsFit, HeldFits, NEW t \in Threads, CopyFromBuffer(t)
  PROVE  /\ Offset(t) \in Nat /\ CopyLength(t) \in Nat /\ CopyLength(t) <= Remaining(t)
         /\ Write(Ptr(t), CopyLength(t), CopyBuffer(t).data, Offset(t))
         /\ job' = [job EXCEPT ![t].done = @ + CopyLength(t), ![t].buf = 0]
         /\ \A k \in 0 .. CopyLength(t) - 1 : CopyBuffer(t).data[Offset(t) + k] \in Data
         /\ BuffersTrue /\ FileOpen =>
              \A k \in 0 .. CopyLength(t) - 1 : CopyBuffer(t).data[Offset(t) + k] = Here(t) + k
<1> DEFINE b == CopyBuffer(t)
           n == CopyLength(t)
<1>1. /\ Here(t) \in Nat /\ Remaining(t) \in Nat /\ job[t].buf \in 0 .. 1
    BY JobFacts
<1>2. pc[t] = "copy" /\ ~(b.size <= Offset(t)) /\ Offset(t) = Here(t) - b.offset
    BY DEF CopyFromBuffer, Moves, BufferEnds, Offset, CopyBuffer
<1>3. b \in [offset : 0 .. FileSize - 1, size : 0 .. BufferSize, data : [0 .. BufferSize - 1 -> Data]]
    BY <1>1 DEF TypeOK, CopyBuffer
<1>4. BuffersTrue /\ FileOpen => \A k \in 0 .. b.size - 1 : b.data[k] = b.offset + k
    BY <1>1 DEF BuffersTrue, CopyBuffer
<1>5. b.offset <= Here(t)
    BY <1>2 DEF HeldFits, CopyBuffer
<1>6. /\ Write(Ptr(t), n, b.data, Offset(t))
      /\ job' = [job EXCEPT ![t].done = @ + n, ![t].buf = 0]
    BY DEF CopyFromBuffer, CopyBuffer, CopyLength
<1>7. n = Least(b.size - Offset(t), Remaining(t))
    BY DEF CopyLength
<1> HIDE DEF b, n
<1>8. /\ b.offset \in Nat /\ b.size \in Nat /\ b.size <= BufferSize
      /\ b.data \in [0 .. BufferSize - 1 -> Data]
    BY <1>3, Sizes
<1>9. Offset(t) \in Nat /\ b.size - Offset(t) \in Nat
    BY <1>1, <1>2, <1>5, <1>8
<1>10. n \in Nat /\ n <= Remaining(t) /\ Offset(t) + n <= b.size
    BY <1>1, <1>7, <1>8, <1>9 DEF Least
<1>11. \A k \in 0 .. n - 1 : Offset(t) + k \in 0 .. b.size - 1
                             /\ b.offset + (Offset(t) + k) = Here(t) + k
  <2> TAKE k \in 0 .. n - 1
  <2>1. Offset(t) + k \in 0 .. b.size - 1
      BY <1>8, <1>9, <1>10
  <2>2. b.offset + (Offset(t) + k) = Here(t) + k
      BY <1>1, <1>2, <1>8, <1>9, <1>10
  <2> QED
      BY <2>1, <2>2
<1>12. \A k \in 0 .. n - 1 : b.data[Offset(t) + k] \in Data
  <2> TAKE k \in 0 .. n - 1
  <2>1. Offset(t) + k \in 0 .. BufferSize - 1
      BY <1>8, <1>11, Sizes
  <2> QED
      BY <2>1, <1>8
<1>13. ASSUME BuffersTrue, FileOpen, NEW k \in 0 .. n - 1
       PROVE  b.data[Offset(t) + k] = Here(t) + k
  <2> DEFINE at == Offset(t) + k
  <2>1. at \in 0 .. b.size - 1 /\ b.offset + at = Here(t) + k
      BY <1>11
  <2> HIDE DEF at
  <2>2. b.data[at] = Here(t) + k
      BY <2>1, <1>4, <1>13
  <2> QED
      BY <2>2 DEF at
<1> QED
    BY <1>6, <1>9, <1>10, <1>12, <1>13 DEF b, n

\* A thread that keeps its job, and does not begin to decompress it.
LEMMA KeptJob ==
  ASSUME NEW t \in Threads, JobFits(t), job'[t] = job[t],
         pc'[t] = pc[t] \/ pc'[t] \notin InDecompress
  PROVE  JobFits(t)'
BY DEF JobFits, Remaining, InDecompress

LEMMA NoJobFacts == NoJob \in JobType /\ NoJob.done = 0 /\ NoJob.size = 0 /\ NoJob.offset = 0
BY NullFacts, Sizes DEF NoJob, JobType

\* A step of Decompress, on the thread that takes it: n blocks more are done.
Advances(t, n, j) ==
  /\ j \in JobType /\ j.done = job[t].done + n /\ j.size = job[t].size
  /\ j.offset = job[t].offset /\ j.ptr = job[t].ptr
  /\ job' = [job EXCEPT ![t] = j]

LEMMA AdvancedJob ==
  ASSUME TypeOK, JobsFit, NEW t \in Threads, NEW n \in Nat, n <= Remaining(t),
         NEW j, Advances(t, n, j), pc[t] \in InDecompress,
         pc'[t] = "work" \/ (pc'[t] = "copy" /\ n < Remaining(t))
  PROVE  JobFits(t)'
<1>1. /\ job[t].size \in Nat /\ job[t].done \in Nat
      /\ job[t].done <= job[t].size
      /\ Remaining(t) \in Nat /\ Remaining(t) = job[t].size - job[t].done
    BY JobFacts
<1>2. JobFits(t)
    BY DEF JobsFit
<1>3. job[t].done + n <= job[t].size /\ (pc'[t] = "copy" => job[t].size - (job[t].done + n) > 0)
    BY <1>1
<1>4. job'[t] = j
    BY DEF Advances, TypeOK
<1> QED
    BY <1>2, <1>3, <1>4 DEF Advances, JobFits, Remaining, InDecompress

\* What the steps of Decompress make of the job.
LEMMA DecompressJob ==
  ASSUME TypeOK, JobsFit, HeldFits, NEW t \in Threads
  PROVE  /\ FindBuffer(t) \/ EndFill(t) => \E j : Advances(t, 0, j)
         /\ CopyFromBuffer(t) => \E j : Advances(t, CopyLength(t), j)
         /\ EndDirect(t) => \E j : Advances(t, ChunkSize, j)
<1>1. /\ job \in [Threads -> JobType] /\ job[t] \in JobType /\ m_nextBuffer \in 0 .. 1
    BY DEF TypeOK, JobType
<1>2. /\ job[t].size \in Nat /\ job[t].done \in Nat /\ job[t].size <= MaxRead
      /\ job[t].done <= job[t].size
      /\ Remaining(t) \in Nat /\ Remaining(t) = job[t].size - job[t].done
    BY JobFacts
<1>3. \A n \in Nat : n <= Remaining(t) => job[t].done + n \in 0 .. MaxRead
    BY <1>2, Sizes
<1>4. ASSUME FindBuffer(t) \/ EndFill(t)
      PROVE  \E j : Advances(t, 0, j)
  <2>1. PICK buf \in 0 .. 1 : job' = [job EXCEPT ![t].buf = buf]
      BY <1>1, <1>4, BlockPtrHolds DEF FindBuffer, EndFill
  <2> DEFINE j == [job[t] EXCEPT !.buf = buf]
  <2>2. /\ j \in JobType /\ j.done = job[t].done /\ j.size = job[t].size
        /\ j.offset = job[t].offset /\ j.ptr = job[t].ptr /\ job' = [job EXCEPT ![t] = j]
      BY <1>1, <2>1 DEF JobType
  <2> HIDE DEF j
  <2>3. Advances(t, 0, j)
      BY <1>2, <2>2 DEF Advances
  <2> QED
      BY <2>3
<1>5. ASSUME CopyFromBuffer(t)
      PROVE  \E j : Advances(t, CopyLength(t), j)
  <2> DEFINE n == CopyLength(t)
             j == [job[t] EXCEPT !.done = @ + n, !.buf = 0]
  <2>1. n \in Nat /\ n <= Remaining(t) /\ job' = [job EXCEPT ![t].done = @ + n, ![t].buf = 0]
      BY <1>5, CopyFacts
  <2>2. job[t].done + n \in 0 .. MaxRead
      BY <1>3, <2>1
  <2> HIDE DEF n
  <2> DEFINE i == [job[t] EXCEPT !.done = @ + n]
  <2>5. i \in JobType /\ j = [i EXCEPT !.buf = 0]
      BY <1>1, <2>2 DEF JobType
  <2>6. i.done = job[t].done + n /\ i.size = job[t].size /\ i.offset = job[t].offset
        /\ i.ptr = job[t].ptr
      BY <1>1 DEF JobType
  <2>7. job' = [job EXCEPT ![t] = j]
      BY <1>1, <2>1
  <2> HIDE DEF i, j
  <2>3. /\ j \in JobType /\ j.done = job[t].done + n /\ j.size = job[t].size
        /\ j.offset = job[t].offset /\ j.ptr = job[t].ptr /\ job' = [job EXCEPT ![t] = j]
      BY <2>5, <2>6, <2>7 DEF JobType
  <2>4. Advances(t, n, j)
      BY <2>3 DEF Advances
  <2> QED
      BY <2>4 DEF n
<1>6. ASSUME EndDirect(t)
      PROVE  \E j : Advances(t, ChunkSize, j)
  <2> DEFINE j == [job[t] EXCEPT !.done = @ + ChunkSize]
  <2>1. JobFits(t) /\ pc[t] = "direct" /\ job' = [job EXCEPT ![t].done = @ + ChunkSize]
      BY <1>6 DEF EndDirect, Moves, JobsFit
  <2>2. ChunkSize \in Nat /\ ChunkSize <= Remaining(t)
      BY <1>2, <2>1, Sizes DEF JobFits
  <2>3. job[t].done + ChunkSize \in 0 .. MaxRead
      BY <1>3, <2>2
  <2>4. /\ j \in JobType /\ j.done = job[t].done + ChunkSize /\ j.size = job[t].size
        /\ j.offset = job[t].offset /\ j.ptr = job[t].ptr /\ job' = [job EXCEPT ![t] = j]
      BY <1>1, <2>1, <2>3 DEF JobType
  <2> HIDE DEF j
  <2>5. Advances(t, ChunkSize, j)
      BY <2>4 DEF Advances
  <2> QED
      BY <2>5
<1> QED
    BY <1>4, <1>5, <1>6

LEMMA NextJob ==
  ASSUME TypeOK, JobsFit, HeldFits, RequestFits, ReadFits, [Next]_vars
  PROVE  TypeJob' /\ JobsFit'
<1>1. /\ job \in [Threads -> JobType] /\ pc \in [Threads -> ReaderPCs \cup CallerPCs]
      /\ TypePlaces /\ m_nextBuffer \in 0 .. 1
    BY TypeParts DEF TypeOK, JobType
<1>2. Threads = {"reader", "caller"}
    BY DEF Threads
<1>3. ASSUME job' = job, \A t \in Threads : pc'[t] = pc[t] \/ pc'[t] \notin InDecompress
      PROVE  TypeJob' /\ JobsFit'
    BY <1>1, <1>3, KeptJob DEF JobsFit, TypeJob, JobType
<1>4. ASSUME NEW t \in Threads, NEW j \in JobType, job' = [job EXCEPT ![t] = j],
             JobFits(t)', \A u \in Threads \ {t} : pc'[u] = pc[u] \/ pc'[u] \notin InDecompress
      PROVE  TypeJob' /\ JobsFit'
  <2>1. TypeJob'
      BY <1>1, <1>4 DEF TypeJob, JobType
  <2>2. \A u \in Threads \ {t} : JobFits(u)'
    <3>1. \A u \in Threads \ {t} : job'[u] = job[u]
        BY <1>1, <1>4
    <3> QED
        BY <3>1, <1>4, KeptJob DEF JobsFit
  <2> QED
      BY <2>1, <2>2, <1>4 DEF JobsFit
<1>5. ASSUME NEW t \in Threads, job' = [job EXCEPT ![t] = NoJob],
             \A u \in Threads : pc'[u] = pc[u] \/ pc'[u] \notin InDecompress,
             pc'[t] \notin InDecompress
      PROVE  TypeJob' /\ JobsFit'
  <2>1. job'[t] = NoJob
      BY <1>1, <1>5
  <2>2. JobFits(t)'
      BY <2>1, <1>5, NoJobFacts, Sizes DEF JobFits, Remaining, InDecompress
  <2> QED
      BY <2>2, <1>4, <1>5, NoJobFacts
<1>6. ASSUME Awaken \/ CallerAwakens
      PROVE  /\ Awaken => pc'["reader"] = pc["reader"] \/ pc'["reader"] \notin InDecompress
             /\ CallerAwakens => pc'["caller"] = pc["caller"] \/ pc'["caller"] \notin InDecompress
    BY DEF Awaken, CallerAwakens, InDecompress
<1>7. CASE ReaderMoves \/ Ahead
  <2>1. pc'["reader"] \notin InDecompress
      BY <1>1, <1>2, <1>7 DEF ReaderMoves, CheckSleep, Sleep, Exit, PublishFails, AheadStops,
         AheadFails, Ahead, AheadCached, StartAheadFill, EndAheadFill, StartAppend, EndAppend,
         NextBlock, Moves, InDecompress
  <2>2. job' = job
      BY <1>7, StillSteps DEF Still, Ahead, AheadCached, StartAheadFill, EndAheadFill,
         StartAppend, EndAppend, NextBlock
  <2> QED
      BY <2>1, <2>2, <1>1, <1>2, <1>3, <1>6, <1>7, CallerIsLeft
<1>8. CASE CallerMoves
  <2>1. \A t \in Threads : pc'[t] = pc[t] \/ pc'[t] \notin InDecompress
      BY <1>1, <1>2, <1>8 DEF CallerMoves, SeeRequestDone, SeeRequestPending, WaitForRequest,
         FinishRead, CancelRead, Open, Close, WaitUntilStopped, SetQuit, PassMutex,
         NotifyQuit, Join, SpuriousWakeUp, Moves, MovesAndNotifies, Notified, Other,
         InDecompress
  <2> QED
      BY <2>1, <1>3, <1>8, StillSteps DEF Still
<1>9. ASSUME NEW t \in Threads, Decompressing(t)
      PROVE  TypeJob' /\ JobsFit'
  <2>1. \A u \in Threads \ {t} : pc'[u] = pc[u]
      BY <1>1, <1>9 DEF Decompressing, FindBuffer, CopyFromBuffer, StartFill, EndFill, StartDirect,
         EndDirect, Moves
  <2>2. /\ Remaining(t) \in Nat /\ job[t].done \in Nat /\ job[t] \in JobType /\ job[t].buf \in 0 .. 1
      BY <1>1, JobFacts
  <2>3. JobFits(t)
      BY DEF JobsFit
  <2>4. ASSUME NEW n \in Nat, n <= Remaining(t), NEW j, Advances(t, n, j),
               pc[t] \in InDecompress, pc'[t] = "work" \/ (pc'[t] = "copy" /\ n < Remaining(t))
        PROVE  TypeJob' /\ JobsFit'
      BY <2>1, <2>4, <1>4, AdvancedJob DEF Advances
  <2>5. CASE FindBuffer(t) \/ EndFill(t)
    <3>1. pc[t] \in {"work", "fill"} /\ pc'[t] = "copy" /\ (pc[t] = "work" => Remaining(t) > 0)
        BY <1>1, <2>5 DEF FindBuffer, EndFill, Moves
    <3>2. pc[t] \in InDecompress /\ 0 < Remaining(t)
        BY <3>1, <2>3 DEF JobFits, InDecompress
    <3>3. PICK j : Advances(t, 0, j)
        BY <2>5, DecompressJob
    <3> QED
        BY <2>2, <2>4, <3>1, <3>2, <3>3
  <2>6. CASE CopyFromBuffer(t)
    <3>1. PICK j : Advances(t, CopyLength(t), j)
        BY <2>6, DecompressJob
    <3>2. pc[t] \in InDecompress /\ pc'[t] = "work"
        BY <1>1, <2>6 DEF CopyFromBuffer, Moves, InDecompress
    <3> QED
        BY <2>4, <2>6, <3>1, <3>2, CopyFacts
  <2>7. CASE EndDirect(t)
    <3>1. PICK j : Advances(t, ChunkSize, j)
        BY <2>7, DecompressJob
    <3>2. pc[t] = "direct" /\ pc'[t] = "work"
        BY <1>1, <2>7 DEF EndDirect, Moves
    <3>3. pc[t] \in InDecompress /\ ChunkSize <= Remaining(t) /\ ChunkSize \in Nat
        BY <3>2, <2>3, <2>2, Sizes DEF JobFits, InDecompress
    <3> QED
        BY <3>1, <3>2, <3>3, <2>4
  <2>8. CASE StartFill(t) \/ StartDirect(t)
    <3>1. job' = job
        BY <2>8 DEF StartFill, StartDirect
    <3>2. pc[t] \in InDecompress /\ pc'[t] \in {"fill", "direct"}
        BY <1>1, <2>8 DEF StartFill, StartDirect, Moves, InDecompress
    <3>3. /\ Remaining(t) > 0
          /\ pc'[t] = "direct" => Remaining(t) >= ChunkSize
        BY <1>1, <2>2, <2>8, Sizes DEF StartFill, StartDirect, Moves, ThroughBuffer
    <3>4. JobFits(t)'
        BY <3>1, <3>2, <3>3, <2>3 DEF JobFits, Remaining
    <3>5. \A u \in Threads \ {t} : JobFits(u)'
        BY <3>1, <2>1, KeptJob DEF JobsFit
    <3> QED
        BY <3>1, <3>4, <3>5, <1>1 DEF JobsFit, TypeJob, JobType
  <2> QED
      BY <1>9, <2>5, <2>6, <2>7, <2>8 DEF Decompressing
<1>10. CASE Take
  <2> DEFINE j == [ptr |-> m_requestPtr, offset |-> m_requestOffset, size |-> m_requestSize,
                   done |-> 0, buf |-> 0, ok |-> job["reader"].ok]
  <2>1. /\ m_requestPtr \in [target : Targets, pos : -1 .. MaxRead - 1]
        /\ m_requestOffset \in 0 .. FileSize - 1 /\ m_requestSize \in 0 .. MaxRead
      BY DEF TypeOK
  <2>2. j \in JobType
      BY <2>1, <1>1, <1>2, Sizes DEF JobType
  <2>3. /\ job' = [job EXCEPT !["reader"] = j]
        /\ pc'["reader"] = IF m_requestPtr = Null THEN "publish" ELSE "work"
        /\ pc'["caller"] = pc["caller"]
      BY <1>1, <1>2, <1>10 DEF Take
  <2>4. /\ j.ptr = m_requestPtr /\ j.offset = m_requestOffset /\ j.size = m_requestSize
        /\ j.done = 0
      OBVIOUS
  <2> HIDE DEF j
  <2>5. job'["reader"] = j
      BY <1>1, <1>2, <2>3
  <2>6. JobFits("reader")'
      BY <2>1, <2>3, <2>4, <2>5 DEF JobFits, Remaining, InDecompress, RequestFits
  <2> QED
      BY <1>2, <1>4, <2>2, <2>3, <2>6
<1>11. CASE Decompressed \/ DecompressFails
  <2> PICK ok \in BOOLEAN : job' = [job EXCEPT !["reader"].ok = ok]
      BY <1>11 DEF Decompressed, DecompressFails
  <2> DEFINE j == [job["reader"] EXCEPT !.ok = ok]
  <2>1. j \in JobType /\ job' = [job EXCEPT !["reader"] = j]
      BY <1>1, <1>2 DEF JobType
  <2>2. pc'["reader"] = "publish" /\ pc'["caller"] = pc["caller"]
      BY <1>1, <1>2, <1>11 DEF Decompressed, DecompressFails, Moves
  <2>3. j.done = job["reader"].done /\ j.size = job["reader"].size /\ j.offset = job["reader"].offset
      BY <1>1, <1>2 DEF JobType
  <2> HIDE DEF j
  <2>4. job'["reader"] = j
      BY <1>1, <1>2, <2>1
  <2>5. JobFits("reader")
      BY <1>2 DEF JobsFit
  <2>6. JobFits("reader")'
      BY <2>2, <2>3, <2>4, <2>5 DEF JobFits, InDecompress
  <2> QED
      BY <1>2, <1>4, <2>1, <2>2, <2>6
<1>12. CASE Publish \/ Return \/ CloseFile
  <2>1. \A t \in Threads : pc'[t] = pc[t] \/ pc'[t] \notin InDecompress
      BY <1>1, <1>2, <1>12 DEF Publish, Return, CloseFile, Moves, Notified, InDecompress
  <2> QED
      BY <2>1, <1>3, <1>12 DEF Publish, Return, CloseFile
<1>13. CASE Finish
  <2>1. pc'["reader"] = "check" /\ CallerAwakens
      BY <1>1, <1>13, NotifyFacts, CallerIsLeft DEF Finish
  <2>2. /\ \A t \in Threads : pc'[t] = pc[t] \/ pc'[t] \notin InDecompress
        /\ pc'["reader"] \notin InDecompress
      BY <1>2, <2>1 DEF InDecompress, CallerAwakens
  <2> QED
      BY <2>2, <1>2, <1>5, <1>13 DEF Finish
<1>14. CASE SyncDecompressed \/ SyncDecompressFails
  <2>1. pc'["caller"] \in {"done", "finish"} /\ Awaken
      BY <1>1, <1>14, NotifyFacts, ReaderIsLeft DEF SyncDecompressed, SyncDecompressFails
  <2>2. /\ \A t \in Threads : pc'[t] = pc[t] \/ pc'[t] \notin InDecompress
        /\ pc'["caller"] \notin InDecompress
      BY <1>2, <2>1 DEF InDecompress, Awaken
  <2> QED
      BY <2>2, <1>2, <1>5, <1>14 DEF SyncDecompressed, SyncDecompressFails
<1>15. CASE ReadCalls \/ CachedRead \/ EndBeginRead
  <2>1. Awaken /\ job' = job /\ pc'["caller"] \in {"cache", "idle"}
      BY <1>1, <1>15, ReaderIsLeft, MoveFacts, NotifyFacts DEF ReadCalls, BeginRead, ReadSync,
         BeginCall, CachedRead, EndBeginRead, ReadEnds
  <2> QED
      BY <2>1, <1>2, <1>3 DEF Awaken, InDecompress
<1>16. CASE EndReadSync
  <2> DEFINE p == At("stack", read.pos)
             j == [ptr |-> p, offset |-> read.offset, size |-> read.size, done |-> 0,
                   buf |-> 0, ok |-> TRUE]
  <2>1. /\ pc["caller"] = "cache" /\ Awaken
        /\ \/ job' = job /\ pc'["caller"] \in {"done", "finish"}
           \/ job' = [job EXCEPT !["caller"] = j] /\ pc'["caller"] = "work" /\ read.size > 0
      BY <1>1, <1>16, ReaderIsLeft, MoveFacts, NotifyFacts DEF EndReadSync, ReadEnds
  <2>2. CASE job' = job /\ pc'["caller"] \in {"done", "finish"}
      BY <2>1, <2>2, <1>2, <1>3 DEF Awaken, InDecompress
  <2>3. CASE job' = [job EXCEPT !["caller"] = j] /\ pc'["caller"] = "work" /\ read.size > 0
    <3>1. /\ read.offset \in 0 .. FileSize - 1 /\ read.size \in 0 .. MaxRead
          /\ read.offset + read.size <= FileSize
          /\ p \in [target : Targets, pos : -1 .. MaxRead - 1]
          /\ p.pos >= 0 /\ p.pos + read.size <= MaxRead
        BY <2>1, <2>3, RestFacts DEF Targets
    <3> HIDE DEF p
    <3>2. /\ j \in JobType /\ j.done = 0 /\ j.size = read.size /\ j.offset = read.offset
          /\ j.ptr = p
        BY <3>1, Sizes DEF JobType
    <3> HIDE DEF j
    <3>3. job'["caller"] = j
        BY <1>1, <1>2, <2>3
    <3>4. JobFits("caller")'
        BY <3>1, <3>2, <3>3, <2>3 DEF JobFits, InDecompress
    <3> QED
        BY <2>1, <2>3, <3>2, <3>4, <1>2, <1>4 DEF Awaken, InDecompress
  <2> QED
      BY <2>1, <2>2, <2>3
<1>17. CASE UNCHANGED vars
    BY <1>3, <1>17 DEF vars
<1> QED
    BY <1>7, <1>8, <1>9, <1>10, <1>11, <1>12, <1>13, <1>14, <1>15, <1>16, <1>17, Steps
       DEF ReadEnds

-----------------------------------------------------------------------------
(* The buffers that a thread is at *)

LEMMA NextHeld ==
  ASSUME TypeOK, Exclusion, JobsFit, HeldFits, [Next]_vars
  PROVE  HeldFits'
<1>1. TypePlaces /\ TypeBuffers /\ job \in [Threads -> JobType]
    BY TypeParts DEF TypeJob, JobType
<1>2. Threads = {"reader", "caller"}
    BY DEF Threads
<1> DEFINE AtBuffer(t) == pc'[t] \in {"copy", "fill", "aheadFill"}
<1>3. ASSUME UNCHANGED <<m_buffer, m_nextBuffer>>,
             \A t \in Threads : (pc'[t] = pc[t] /\ job'[t] = job[t]) \/ ~AtBuffer(t)
      PROVE  HeldFits'
    BY <1>2, <1>3 DEF HeldFits, Here
<1>4. ASSUME \A t \in Threads : ~AtBuffer(t)
      PROVE  HeldFits'
    BY <1>2, <1>4 DEF HeldFits
<1>5. /\ pc["reader"] \in Busy => pc["caller"] \notin InDecompress
      /\ pc["reader"] \in InDecompress \cup {"aheadFill"} => pc["reader"] \in Busy
    BY DEF Exclusion, Busy, InDecompress, ReaderPCs, InReadChunk
<1>6. CASE ReaderMoves
  <2>1. pc'["reader"] \notin {"copy", "fill", "aheadFill"}
      BY <1>1, <1>2, <1>6 DEF ReaderMoves, CheckSleep, Sleep, Exit, PublishFails, AheadStops,
         AheadFails, Moves, TypePlaces
  <2> QED
      BY <2>1, <1>1, <1>2, <1>3, <1>6, StillSteps, CallerIsLeft DEF Still, buffers, CallerAwakens
<1>7. CASE CallerMoves
  <2>1. \A t \in Threads : pc'[t] = pc[t] \/ ~AtBuffer(t)
      BY <1>1, <1>2, <1>7 DEF CallerMoves, SeeRequestDone, SeeRequestPending, WaitForRequest,
         FinishRead, CancelRead, Open, Close, WaitUntilStopped, SetQuit, PassMutex,
         NotifyQuit, Join, SpuriousWakeUp, Moves, MovesAndNotifies, Notified, Other, TypePlaces
  <2> QED
      BY <2>1, <1>3, <1>7, StillSteps DEF Still, buffers
<1>8. CASE Ahead
  <2>1. pc["reader"] \in Busy /\ pc'["caller"] = pc["caller"]
      BY <1>1, <1>8, MoveFacts DEF Ahead, AheadCached, StartAheadFill, EndAheadFill, StartAppend,
         EndAppend, NextBlock, Busy, ReaderPCs, InReadChunk
  <2>2. ~AtBuffer("caller")
      BY <2>1, <1>1, <1>5 DEF InDecompress, TypePlaces, CallerPCs
  <2>3. CASE StartAheadFill
    <3>1. m_buffer'[m_nextBuffer'].size = 0
        BY <2>3, <1>1 DEF StartAheadFill, TakeBuffer, TypeBuffers
    <3>2. pc'["reader"] = "aheadFill"
        BY <2>3, <1>1, MoveFacts DEF StartAheadFill
    <3> QED
        BY <2>2, <3>1, <3>2, <1>2 DEF HeldFits
  <2>4. CASE ~StartAheadFill
    <3>1. ~AtBuffer("reader")
        BY <2>4, <1>1, <1>8, MoveFacts DEF Ahead, AheadCached, EndAheadFill, StartAppend,
           EndAppend, NextBlock
    <3> QED
        BY <2>2, <3>1, <1>2, <1>4
  <2> QED
      BY <2>3, <2>4
<1>9. ASSUME NEW t \in Threads, Decompressing(t)
      PROVE  HeldFits'
  <2>1. /\ pc[t] \in InDecompress /\ \A u \in Threads \ {t} : pc'[u] = pc[u]
      BY <1>1, <1>9 DEF Decompressing, FindBuffer, CopyFromBuffer, StartFill, EndFill, StartDirect,
         EndDirect, Moves, InDecompress, TypePlaces
  <2>2. \A u \in Threads \ {t} : ~AtBuffer(u)
    <3>1. CASE t = "reader"
        BY <2>1, <3>1, <1>1, <1>2, <1>5 DEF InDecompress, TypePlaces, CallerPCs
    <3>2. CASE t = "caller"
        BY <2>1, <3>2, <1>1, <1>2, <1>5 DEF InDecompress
    <3> QED
        BY <3>1, <3>2, <1>2
  <2>3. CASE StartFill(t)
    <3>1. m_buffer'[m_nextBuffer'].size = 0 /\ pc'[t] = "fill"
        BY <2>3, <1>1 DEF StartFill, TakeBuffer, TypeBuffers, Moves, TypePlaces
    <3> QED
        BY <2>2, <3>1, <1>2 DEF HeldFits
  <2>4. ASSUME NEW buf \in 0 .. 1, job' = [job EXCEPT ![t].buf = buf], pc'[t] = "copy",
               m_buffer'[buf].offset <= Here(t)
        PROVE  HeldFits'
    <3>1. job'[t].buf = buf /\ Here(t)' = Here(t)
        BY <2>4, <1>1 DEF Here, JobType
    <3>2. m_buffer'[job'[t].buf].offset <= Here(t)'
        BY <3>1, <2>4
    <3> QED
        BY <2>2, <2>4, <3>2, <1>2 DEF HeldFits
  <2>5. Here(t) \in Nat /\ ChunkOffset(Here(t)) \in Nat /\ ChunkOffset(Here(t)) <= Here(t)
      BY JobFacts, ChunkFacts
  <2>6. CASE FindBuffer(t)
    <3> DEFINE o == ChunkOffset(Here(t))
               buf == BlockPtr(o)
    <3>1. buf \in Holding(o) /\ buf \in 0 .. 1
        BY <2>6, BlockPtrHolds DEF FindBuffer
    <3>2. m_buffer[buf].offset <= o /\ m_buffer[buf].offset \in Nat
        BY <3>1, <1>1, Sizes DEF Holding, TypeBuffers
    <3>3. job' = [job EXCEPT ![t].buf = buf] /\ pc'[t] = "copy" /\ m_buffer' = m_buffer
        BY <2>6, <1>1 DEF FindBuffer, Moves, TypePlaces
    <3>4. o \in Nat /\ o <= Here(t)
        BY <2>5
    <3> HIDE DEF o, buf
    <3>5. m_buffer'[buf].offset <= Here(t)
        BY <3>2, <3>3, <3>4, <2>5
    <3> QED
        BY <3>1, <3>3, <3>5, <2>4
  <2>7. CASE EndFill(t)
    <3>1. /\ job' = [job EXCEPT ![t].buf = m_nextBuffer] /\ pc'[t] = "copy"
          /\ m_nextBuffer \in 0 .. 1
          /\ \E n : FilledWith(ChunkOffset(Here(t)), n)
        BY <2>7, <1>1 DEF EndFill, Moves, TypePlaces, TypeBuffers
    <3>2. m_buffer'[m_nextBuffer].offset = ChunkOffset(Here(t))
        BY <3>1, <1>1 DEF FilledWith, TypeBuffers
    <3> QED
        BY <3>1, <3>2, <2>4, <2>5
  <2>8. CASE CopyFromBuffer(t) \/ StartDirect(t) \/ EndDirect(t)
    <3>1. ~AtBuffer(t)
        BY <2>8, <1>1 DEF CopyFromBuffer, StartDirect, EndDirect, Moves, TypePlaces
    <3> QED
        BY <3>1, <2>2, <1>4
  <2> QED
      BY <1>9, <2>3, <2>6, <2>7, <2>8 DEF Decompressing
<1>10. CASE Take \/ Decompressed \/ DecompressFails \/ Publish \/ Finish
  <2>1. ~AtBuffer("reader")
      BY <1>1, <1>2, <1>10 DEF Take, Decompressed, DecompressFails, Publish, Finish, Moves,
         MovesAndNotifies, Other, TypePlaces
  <2>2. pc["caller"] \notin InDecompress
    <3>1. CASE pc["reader"] \in Busy
        BY <3>1, <1>5
    <3>2. CASE pc["reader"] \notin Busy
      <4>1. MutexFreeFor("reader")
          BY <3>2, <1>1, <1>10, MoveFacts, NotifyFacts DEF Take, Decompressed, DecompressFails,
             Publish, Finish, BufferEnds, Busy, ReaderPCs, InReadChunk
      <4> QED
          BY <4>1 DEF MutexFreeFor, HoldsMutex, Threads, InDecompress
    <3> QED
        BY <3>1, <3>2
  <2>3. ~AtBuffer("caller")
      BY <2>2, <1>1, <1>10, CallerIsLeft DEF CallerAwakens, InDecompress, TypePlaces, CallerPCs
  <2> QED
      BY <2>1, <2>3, <1>2, <1>4
<1>11. CASE SyncDecompressed \/ SyncDecompressFails
  <2>1. pc["caller"] \in InDecompress /\ pc'["caller"] \in {"done", "finish"}
      BY <1>1, <1>11, NotifyFacts DEF SyncDecompressed, SyncDecompressFails,
         InDecompress, BufferEnds
  <2>2. pc["reader"] \notin {"copy", "fill", "aheadFill"}
      BY <2>1, <1>5 DEF InDecompress
  <2> QED
      BY <2>1, <2>2, <1>1, <1>2, <1>4, <1>11, ReaderIsLeft DEF Awaken
<1>12. CASE Return \/ ReadCalls \/ CachedRead \/ ReadEnds
  <2>1. /\ UNCHANGED <<m_buffer, m_nextBuffer>> /\ Awaken
        /\ job'["reader"] = job["reader"]
      BY <1>1, <1>2, <1>12, ReaderIsLeft DEF Return, ReadCalls, BeginRead, ReadSync, BeginCall,
         CachedRead, ReadEnds, EndBeginRead, EndReadSync, buffers
  <2>2. ~AtBuffer("caller")
      BY <1>1, <1>12, MoveFacts, NotifyFacts DEF Return, ReadCalls, BeginRead, ReadSync, BeginCall,
         CachedRead, ReadEnds, EndBeginRead, EndReadSync
  <2> QED
      BY <2>1, <2>2, <1>2, <1>3 DEF Awaken
<1>13. CASE CloseFile
  <2>1. /\ pc'["reader"] = pc["reader"] /\ pc'["caller"] = "closed"
        /\ job' = job /\ m_nextBuffer' = m_nextBuffer
      BY <1>1, <1>13, MoveFacts DEF CloseFile
  <2>2. \A i \in 0 .. 1 : m_buffer'[i].offset = m_buffer[i].offset /\ m_buffer'[i].size = 0
      BY <1>1, <1>13 DEF CloseFile, TypeBuffers
  <2>3. job["reader"].buf \in 0 .. 1 /\ m_nextBuffer \in 0 .. 1
      BY <1>1, <1>2, JobFacts DEF TypeBuffers
  <2> QED
      BY <2>1, <2>2, <2>3, <1>2 DEF HeldFits, Here
<1>14. CASE UNCHANGED vars
    BY <1>3, <1>14 DEF vars, buffers
<1> QED
    BY <1>6, <1>7, <1>8, <1>9, <1>10, <1>11, <1>12, <1>13, <1>14, Steps

-----------------------------------------------------------------------------
(* Readahead *)

LEMMA NextAhead ==
  ASSUME TypeOK, Exclusion, JobsFit, AheadFits, [Next]_vars
  PROVE  TypeAhead' /\ AheadFits'
<1>1. TypeAhead /\ TypePlaces /\ TypeBuffers /\ (FileOpen' => FileOpen)
    BY TypeParts, StaysClosed
<1>2. ahead.buf \in 0 .. 1 /\ m_buffer[ahead.buf].offset \in Nat /\ m_buffer[ahead.buf].size \in Nat
  <2>1. ahead.buf \in 0 .. 1
      BY <1>1 DEF TypeAhead
  <2> QED
      BY <2>1, <1>1, Sizes DEF TypeBuffers
<1>3. ASSUME pc'["reader"] \notin {"aheadFill", "append"}, TypeAhead'
      PROVE  TypeAhead' /\ AheadFits'
    BY <1>3 DEF AheadFits
<1>4. ASSUME ahead' = ahead, m_buffer' = m_buffer, Awaken
      PROVE  TypeAhead' /\ AheadFits'
    BY <1>1, <1>4 DEF AheadFits, AppendFits, TypeAhead, Awaken
<1>5. ahead' = ahead => TypeAhead'
    BY <1>1 DEF TypeAhead
<1>6. CASE ReaderMoves
  <2>1. ahead' = ahead /\ pc'["reader"] \notin {"aheadFill", "append"}
      BY <1>1, <1>6, StillSteps DEF Still, ReaderMoves, CheckSleep, Sleep, Exit, PublishFails,
         AheadStops, AheadFails, Moves, TypePlaces, Threads
  <2> QED
      BY <2>1, <1>3, <1>5
<1>7. CASE CallerMoves
    BY <1>1, <1>4, <1>7, StillSteps, ReaderIsLeft DEF Still, buffers
<1>8. CASE AheadCached
  <2>1. BlockPtr(ChunkOffset(ahead.offset)) \in 0 .. 1
      BY BlockPtrHolds
  <2>2. TypeAhead'
      BY <1>1, <1>8, <2>1 DEF AheadCached, TypeAhead
  <2>3. pc'["reader"] = "loop"
      BY <1>1, <1>8, MoveFacts DEF AheadCached
  <2> QED
      BY <2>2, <2>3, <1>3
<1>9. CASE StartAheadFill
    BY <1>1, <1>5, <1>9, MoveFacts DEF StartAheadFill, AheadFits
<1>10. CASE EndAheadFill \/ EndAppend
  <2>1. pc'["reader"] = "loop"
      BY <1>1, <1>10, MoveFacts DEF EndAheadFill, EndAppend
  <2>2. TypeAhead'
      BY <1>1, <1>10 DEF EndAheadFill, EndAppend, TypeAhead, TypeBuffers
  <2> QED
      BY <2>1, <2>2, <1>3
<1>11. HasChunk(AheadEnd) => AheadEnd \in 0 .. FileSize
    BY <1>2, Sizes DEF HasChunk, AheadEnd
<1>12. CASE NextBlock
  <2>1. TypeAhead'
      BY <1>11, <1>12 DEF NextBlock, TypeAhead
  <2>2. pc'["reader"] = "ahead"
      BY <1>1, <1>12, MoveFacts DEF NextBlock
  <2> QED
      BY <2>1, <2>2, <1>3
<1>13. CASE StartAppend
  <2>1. /\ HasChunk(AheadEnd) /\ ChunkOffset(AheadEnd) = AheadEnd
        /\ m_buffer[ahead.buf].size + ChunkSize <= BufferSize
        /\ ahead' = [ahead EXCEPT !.offset = AheadEnd] /\ m_buffer' = m_buffer
      BY <1>13 DEF StartAppend, FitsBehind, buffers
  <2>2. TypeAhead' /\ ahead'.offset = AheadEnd /\ ahead'.buf = ahead.buf
      BY <2>1, <1>1, <1>11 DEF TypeAhead
  <2>3. pc'["reader"] = "append"
      BY <1>1, <1>13, MoveFacts DEF StartAppend
  <2>4. /\ AheadEnd = m_buffer[ahead.buf].offset + m_buffer[ahead.buf].size
        /\ (AheadEnd - m_buffer[ahead.buf].offset) + ChunkSize <= BufferSize
      BY <2>1, <1>2, Sizes DEF AheadEnd
  <2> DEFINE b == m_buffer[ahead.buf]
             o == ahead'.offset
             c == m_buffer'[ahead'.buf]
  <2>5. /\ o = AheadEnd /\ c = b
      BY <2>1, <2>2
  <2>6. /\ HasChunk(o) /\ ChunkOffset(o) = o /\ c.offset + c.size <= o /\ c.offset + c.size = o
        /\ o - c.offset + ChunkSize <= BufferSize
      BY <2>1, <2>4, <2>5, <1>2, <1>11, Sizes
  <2> HIDE DEF b, c, o
  <2>7. AppendFits'
      BY <2>6 DEF AppendFits, HasChunk, ChunkOffset, c, o
  <2> QED
      BY <2>2, <2>3, <2>7 DEF AheadFits
<1>14. CASE Decompressing("reader") \/ Take \/ Decompressed \/ DecompressFails
  <2>1. pc'["reader"] \notin {"aheadFill", "append"} /\ ahead' = ahead
      BY <1>1, <1>14 DEF Decompressing, FindBuffer, CopyFromBuffer, StartFill, EndFill, StartDirect,
         EndDirect, Take, Decompressed, DecompressFails, Moves, TypePlaces, Threads
  <2> QED
      BY <2>1, <1>3, <1>5
<1>15. CASE Decompressing("caller")
  <2>1. ahead' = ahead /\ pc["caller"] \in InDecompress
      BY <1>1, <1>15, MoveFacts DEF Decompressing, FindBuffer, CopyFromBuffer, StartFill, EndFill,
         StartDirect, EndDirect, InDecompress
  <2>2. pc["reader"] \notin {"aheadFill", "append"}
      BY <2>1 DEF Exclusion, Busy, ReaderPCs, InReadChunk
  <2>3. pc'["reader"] \notin {"aheadFill", "append"}
      BY <2>2, <1>1, <1>15, ReaderIsLeft DEF Awaken
  <2> QED
      BY <2>1, <2>3, <1>3, <1>5
<1>16. CASE Publish
  <2>1. job["reader"].offset + job["reader"].size \in 0 .. FileSize
    <3>1. "reader" \in Threads
        BY DEF Threads
    <3>2. job["reader"].offset \in Nat
        BY <3>1, JobFacts, Sizes
    <3> QED
        BY <3>1, <3>2, JobFacts, Sizes
  <2>2. TypeAhead'
      BY <1>1, <1>16, <2>1 DEF Publish, TypeAhead
  <2>3. pc'["reader"] \in {"ahead", "finish"}
      BY <1>1, <1>16 DEF Publish, TypePlaces, Threads
  <2> QED
      BY <2>2, <2>3, <1>3
<1>17. CASE Finish
  <2>1. TypeAhead'
      BY <1>17, Sizes DEF Finish, TypeAhead
  <2>2. pc'["reader"] = "check"
      BY <1>1, <1>17, NotifyFacts DEF Finish
  <2> QED
      BY <2>1, <2>2, <1>3
<1>18. CASE SyncDecompressed \/ SyncDecompressFails \/ Return
    BY <1>1, <1>4, <1>18, ReaderIsLeft DEF SyncDecompressed, SyncDecompressFails, Return, buffers
<1>19. CASE CloseFile
  <2>1. ahead' = ahead /\ Awaken /\ ~FileOpen'
      BY <1>1, <1>19, ReaderIsLeft, MoveFacts DEF CloseFile, FileOpen
  <2>2. /\ m_buffer'[ahead.buf].offset = m_buffer[ahead.buf].offset
        /\ m_buffer'[ahead.buf].size = 0
      BY <1>1, <1>2, <1>19 DEF CloseFile, TypeBuffers
  <2>3. AppendFits => AppendFits'
    <3>1. ahead.offset \in Nat
        BY <1>1 DEF TypeAhead
    <3> QED
        BY <2>1, <2>2, <3>1, <1>2 DEF AppendFits
  <2> QED
      BY <2>1, <2>3, <1>5 DEF AheadFits, Awaken
<1>20. CASE ReadCalls \/ CachedRead \/ ReadEnds
    BY <1>1, <1>4, <1>20, ReaderIsLeft DEF ReadCalls, BeginRead, ReadSync, BeginCall, CachedRead,
       ReadEnds, EndBeginRead, EndReadSync, buffers
<1>21. CASE UNCHANGED vars
    BY <1>4, <1>21 DEF vars, buffers, Awaken
<1> QED
    BY <1>6, <1>7, <1>8, <1>9, <1>10, <1>12, <1>13, <1>14, <1>15, <1>16, <1>17, <1>18,
       <1>19, <1>20, <1>21, Steps DEF Ahead, Threads

-----------------------------------------------------------------------------
(* The memory *)

MemoryType == [0 .. MaxRead - 1 -> Data]

LEMMA WriteFacts ==
  ASSUME memory \in [Targets -> MemoryType], NEW ptr, ptr.target \in Targets, ptr.pos \in Nat,
         NEW n \in Nat, NEW src, NEW at, \A k \in 0 .. n - 1 : src[at + k] \in Data,
         Write(ptr, n, src, at)
  PROVE  /\ memory' \in [Targets -> MemoryType]
         /\ \A target \in Targets \ {ptr.target} : memory'[target] = memory[target]
         /\ \A k \in 0 .. MaxRead - 1 :
              memory'[ptr.target][k] =
                IF ptr.pos <= k /\ k < ptr.pos + n THEN src[at + (k - ptr.pos)]
                ELSE memory[ptr.target][k]
<1> DEFINE m == Overwrite(memory[ptr.target], ptr.pos, n, src, at)
<1>1. memory' = [memory EXCEPT ![ptr.target] = m]
    BY DEF Write
<1>2. /\ m \in MemoryType
      /\ \A k \in 0 .. MaxRead - 1 :
           m[k] = IF ptr.pos <= k /\ k < ptr.pos + n THEN src[at + (k - ptr.pos)]
                  ELSE memory[ptr.target][k]
    BY OverwriteFacts DEF MemoryType
<1> HIDE DEF m
<1>3. memory'[ptr.target] = m
    BY <1>1
<1> QED
    BY <1>1, <1>2, <1>3

\* What a thread that decompresses writes at Ptr(t).
LEMMA PtrFacts ==
  ASSUME TypeOK, JobsFit, NEW t \in Threads, pc[t] \in InDecompress
  PROVE  /\ Ptr(t).target \in Targets /\ Ptr(t).target = job[t].ptr.target
         /\ Ptr(t).pos \in Nat /\ Ptr(t).pos = job[t].ptr.pos + job[t].done
BY JobFacts DEF Ptr, At

LEMMA HereFacts ==
  ASSUME TypeOK, JobsFit, NEW t \in Threads, NEW n \in Nat, n <= Remaining(t)
  PROVE  \A k \in 0 .. n - 1 : Here(t) + k \in 0 .. FileSize - 1
<1>1. /\ job[t].offset \in Nat /\ job[t].done \in Nat /\ job[t].size \in Nat
      /\ job[t].offset + job[t].size <= FileSize
      /\ Here(t) = job[t].offset + job[t].done /\ Remaining(t) = job[t].size - job[t].done
    BY JobFacts, Sizes
<1> QED
    BY <1>1, Sizes

\* A chunk that goes straight to where it is wanted.
LEMMA DirectFits ==
  ASSUME TypeOK, JobsFit, NEW t \in Threads, StartDirect(t) \/ EndDirect(t)
  PROVE  /\ pc[t] \in InDecompress /\ ChunkSize <= Remaining(t)
         /\ \A k \in 0 .. ChunkSize - 1 :
              /\ Undefined[Here(t) + k] \in Data
              /\ File[Here(t) + k] \in Data
              /\ FileOpen => File[Here(t) + k] = Here(t) + k
<1>1. pc[t] \in InDecompress
    BY DEF StartDirect, EndDirect, Moves, InDecompress
<1>2. Remaining(t) \in Nat /\ JobFits(t)
    BY JobFacts DEF JobsFit
<1>3. ChunkSize <= Remaining(t)
    BY <1>2, Sizes DEF StartDirect, EndDirect, Moves, ThroughBuffer, JobFits
<1>4. \A k \in 0 .. ChunkSize - 1 : Here(t) + k \in 0 .. FileSize - 1
    BY <1>3, HereFacts, Sizes
<1>5. \A k \in 0 .. ChunkSize - 1 : Undefined[Here(t) + k] \in Data
    BY <1>4 DEF Undefined, Data
<1> QED
    BY <1>1, <1>3, <1>4, <1>5, FileFacts

LEMMA NextMemory ==
  ASSUME TypeOK, JobsFit, HeldFits, ReadFits, [Next]_vars
  PROVE  TypeMemory'
<1>1. memory \in [Targets -> MemoryType]
      /\ want \in [Targets -> [offset : 0 .. FileSize - 1, size : 0 .. MaxRead]]
    BY DEF TypeOK, MemoryType
<1>2. ASSUME memory' \in [Targets -> MemoryType], want' = want
      PROVE  TypeMemory'
    BY <1>1, <1>2 DEF TypeMemory, MemoryType
<1>3. ASSUME UNCHANGED <<memory, want>>
      PROVE  TypeMemory'
    BY <1>1, <1>3 DEF TypeMemory, MemoryType
<1>4. CASE ReaderMoves \/ CallerMoves
    BY <1>3, <1>4, StillSteps DEF Still, history
<1>5. CASE Ahead
    BY <1>3, <1>5 DEF Ahead, AheadCached, StartAheadFill, EndAheadFill, StartAppend, EndAppend,
       NextBlock, history
<1>6. ASSUME NEW t \in Threads, Decompressing(t)
      PROVE  TypeMemory'
  <2>1. CASE CopyFromBuffer(t)
    <3>1. pc[t] \in InDecompress /\ want' = want
        BY <2>1 DEF CopyFromBuffer, Moves, InDecompress, history
    <3>2. memory' \in [Targets -> MemoryType]
        BY <3>1, <2>1, <1>1, PtrFacts, CopyFacts, WriteFacts
    <3> QED
        BY <3>1, <3>2, <1>2
  <2>2. CASE StartDirect(t)
    <3>1. Write(Ptr(t), ChunkSize, Undefined, Here(t)) /\ want' = want
        BY <2>2 DEF StartDirect, history
    <3>2. memory' \in [Targets -> MemoryType]
        BY <3>1, <2>2, <1>1, PtrFacts, DirectFits, WriteFacts, Sizes
    <3> QED
        BY <3>1, <3>2, <1>2
  <2>3. CASE EndDirect(t)
    <3>1. Write(Ptr(t), ChunkSize, File, Here(t)) /\ want' = want
        BY <2>3 DEF EndDirect, history
    <3>2. memory' \in [Targets -> MemoryType]
        BY <3>1, <2>3, <1>1, PtrFacts, DirectFits, WriteFacts, Sizes
    <3> QED
        BY <3>1, <3>2, <1>2
  <2>4. CASE FindBuffer(t) \/ StartFill(t) \/ EndFill(t)
      BY <2>4, <1>3 DEF FindBuffer, StartFill, EndFill, history
  <2> QED
      BY <1>6, <2>1, <2>2, <2>3, <2>4 DEF Decompressing
<1>7. CASE \/ Take \/ Decompressed \/ DecompressFails \/ Publish \/ Finish
           \/ SyncDecompressed \/ SyncDecompressFails \/ CloseFile \/ ReadEnds
    BY <1>3, <1>7 DEF Take, Decompressed, DecompressFails, Publish, Finish, SyncDecompressed,
       SyncDecompressFails, CloseFile, ReadEnds, EndBeginRead, EndReadSync, history
<1>8. CASE Return
  <2>1. Wanted \in Targets /\ Blank \in MemoryType
      BY DEF Wanted, Targets, Blank, MemoryType, Data
  <2>2. NoWant \in [offset : 0 .. FileSize - 1, size : 0 .. MaxRead]
      BY Sizes DEF NoWant
  <2>3. memory' = [memory EXCEPT ![Wanted] = Blank] /\ want' = [want EXCEPT ![Wanted] = NoWant]
      BY <1>8 DEF Return
  <2> QED
      BY <2>1, <2>2, <2>3, <1>1 DEF TypeMemory, MemoryType
<1>9. ASSUME NEW r \in Reads, BeginRead(r.offset, r.size) \/ ReadSync(r.offset, r.size)
      PROVE  TypeMemory'
  <2> DEFINE w == [offset |-> r.offset, size |-> r.size]
  <2>1. PICK target \in Targets : memory' = memory /\ want' = [want EXCEPT ![target] = w]
      BY <1>9 DEF BeginRead, ReadSync, BeginCall, Targets
  <2>2. w \in [offset : 0 .. FileSize - 1, size : 0 .. MaxRead]
      BY ReadCallFacts, Sizes
  <2> HIDE DEF w
  <2> QED
      BY <2>1, <2>2, <1>1 DEF TypeMemory, MemoryType
<1>10. CASE CachedRead
  <2>1. At(Wanted, read.pos).target \in Targets /\ At(Wanted, read.pos).pos \in Nat
      BY ReadFacts DEF At, Wanted, Targets
  <2>2. want' = want
      BY <1>10 DEF CachedRead, history
  <2> DEFINE ptr == At(Wanted, read.pos)
  <2>3. /\ ptr.target \in Targets /\ ptr.pos \in Nat
        /\ Write(ptr, CachedSize, LookedAt.data, CachedFrom) /\ CachedSize \in Nat
        /\ \A k \in 0 .. CachedSize - 1 : LookedAt.data[CachedFrom + k] \in Data
      BY <2>1, <1>10, CachedFacts
  <2> HIDE DEF ptr
  <2>4. memory' \in [Targets -> MemoryType]
      BY <2>3, <1>1, WriteFacts
  <2> QED
      BY <2>2, <2>4, <1>2
<1>11. CASE UNCHANGED vars
    BY <1>3, <1>11 DEF vars, history
<1> QED
    BY <1>4, <1>5, <1>6, <1>7, <1>8, <1>9, <1>10, <1>11, Steps DEF ReadCalls

-----------------------------------------------------------------------------
(* The calls and the request *)

LEMMA NextCallStages ==
  ASSUME Overlapping = {}, TypeOK, ReadFits, CallStages, [Next]_vars
  PROVE  CallStages'
<1>1. TypePlaces /\ TypeFlags
    BY TypeParts
<1> USE <1>1 DEF TypePlaces, Threads, Moves, MovesAndNotifies, Notified, Other, InDecompress,
                 Closed, CallStages, Reading, call
<1>2. CASE ReaderMoves
    BY <1>2 DEF ReaderMoves, CheckSleep, Sleep, Exit, PublishFails, AheadStops, AheadFails,
                request, history
<1>3. CASE CallerMoves
    BY <1>3 DEF CallerMoves, SeeRequestDone, SeeRequestPending, WaitForRequest, FinishRead,
                CancelRead, Open, Close, WaitUntilStopped, SetQuit, PassMutex, NotifyQuit,
                Join, SpuriousWakeUp, request, history
<1>4. CASE Ahead
    BY <1>4 DEF Ahead, AheadCached, StartAheadFill, EndAheadFill, StartAppend, EndAppend,
                NextBlock, request, history
<1>5. ASSUME NEW t \in Threads, Decompressing(t)
      PROVE  CallStages'
    BY <1>5 DEF Decompressing, FindBuffer, CopyFromBuffer, StartFill, EndFill, StartDirect,
                EndDirect, request, history
<1>6. CASE Take \/ Decompressed \/ DecompressFails \/ Publish \/ Finish
    BY <1>6 DEF Take, Decompressed, DecompressFails, Publish, Finish, BufferEnds, request, history
<1>7. CASE SyncDecompressed
    BY <1>7 DEF SyncDecompressed, Post, history
<1>8. CASE SyncDecompressFails \/ Return \/ CloseFile
    BY <1>8 DEF SyncDecompressFails, Return, CloseFile, BufferEnds, request, history
<1>9. ASSUME NEW r \in Reads, BeginRead(r.offset, r.size) \/ ReadSync(r.offset, r.size)
      PROVE  CallStages'
  <2>1. PICK name \in {"BeginRead", "ReadSync"} :
          /\ pc["caller"] = "idle" /\ pc'["caller"] = "cache" /\ ~begun
          /\ op' = name /\ begun' = (begun \/ name = "BeginRead") /\ UNCHANGED request
      BY <1>9 DEF BeginRead, ReadSync, BeginCall
  <2>2. m_requestPtr = Null
      BY <2>1
  <2> QED
      BY <2>1, <2>2 DEF request
<1>10. CASE CachedRead
    BY <1>10 DEF CachedRead, request, history
<1>11. CASE EndBeginRead
  <2>1. /\ pc["caller"] = "cache" /\ pc'["caller"] = "idle" /\ op' = "none" /\ begun' = begun
        /\ op = "BeginRead"
      BY <1>11 DEF EndBeginRead, history
  <2> QED
      BY <2>1
<1>12. CASE EndReadSync
  <2>1. /\ pc["caller"] = "cache" /\ op' = op /\ op = "ReadSync" /\ begun' = begun
        /\ m_requestPtr = Null
      BY <1>12 DEF EndReadSync, history
  <2>2. \/ pc'["caller"] \in {"done", "work"} /\ m_requestPtr' = Null
        \/ pc'["caller"] = "finish"
      BY <2>1, <1>12 DEF EndReadSync, Post, request
  <2> QED
      BY <2>1, <2>2
<1>13. CASE UNCHANGED vars
    BY <1>13 DEF vars, request, history
<1> QED
    BY <1>2, <1>3, <1>4, <1>5, <1>6, <1>7, <1>8, <1>9, <1>10, <1>11, <1>12, <1>13, Steps
       DEF ReadCalls, ReadEnds

\* Who decompresses on the reader does so for memory.
LEMMA DecompressServes ==
  ASSUME JobsFit, pc["reader"] \in InDecompress
  PROVE  Serving
BY NullFacts DEF JobsFit, JobFits, Serving, Threads

\* While there is nothing to read, the reader is not reading it.
LEMMA NothingServed ==
  ASSUME JobsFit, ReaderServes, m_requestPtr = Null
  PROVE  ~Serving /\ pc["reader"] \notin InDecompress
BY DecompressServes DEF ReaderServes, Serving

LEMMA NextReaderServes ==
  ASSUME Overlapping = {}, TypeOK, JobsFit, CallStages, ReaderServes, [Next]_vars
  PROVE  ReaderServes'
<1>1. TypePlaces /\ job \in [Threads -> JobType]
    BY TypeParts DEF TypeJob, JobType
<1>2. Threads = {"reader", "caller"}
    BY DEF Threads
<1>3. ASSUME ~Serving'
      PROVE  ReaderServes'
    BY <1>3 DEF ReaderServes
<1>4. ASSUME UNCHANGED request, pc'["reader"] = pc["reader"], job'["reader"] = job["reader"]
      PROVE  ReaderServes'
    BY <1>4 DEF ReaderServes, Serving, request
<1>5. pc'["reader"] \notin InDecompress \cup {"publish"} => ~Serving'
    BY DEF Serving
<1>6. CASE ReaderMoves
  <2>1. pc'["reader"] \notin InDecompress \cup {"publish"}
      BY <1>1, <1>2, <1>6 DEF ReaderMoves, CheckSleep, Sleep, Exit, PublishFails, AheadStops,
         AheadFails, Moves, TypePlaces, InDecompress
  <2> QED
      BY <2>1, <1>3, <1>5
<1>7. CASE CallerMoves
  <2>1. UNCHANGED request /\ job' = job
      BY <1>7, StillSteps DEF Still
  <2>2. pc'["reader"] \in {pc["reader"], "check"}
      BY <1>1, <1>2, <1>7 DEF CallerMoves, SeeRequestDone, SeeRequestPending, WaitForRequest,
         FinishRead, CancelRead, Open, Close, WaitUntilStopped, SetQuit, PassMutex,
         NotifyQuit, Join, SpuriousWakeUp, Moves, MovesAndNotifies, Notified, Other, TypePlaces
  <2>3. "check" \notin InDecompress \cup {"publish"}
      BY DEF InDecompress
  <2> QED
      BY <2>1, <2>2, <2>3, <1>3, <1>4, <1>5
<1>8. CASE Ahead
  <2>1. pc'["reader"] \notin InDecompress \cup {"publish"}
      BY <1>1, <1>2, <1>8 DEF Ahead, AheadCached, StartAheadFill, EndAheadFill, StartAppend,
         EndAppend, NextBlock, Moves, TypePlaces, InDecompress
  <2> QED
      BY <2>1, <1>3, <1>5
<1>9. ASSUME NEW t \in Threads, Decompressing(t)
      PROVE  ReaderServes'
  <2>1. /\ UNCHANGED request /\ pc[t] \in InDecompress /\ pc'[t] \in InDecompress
        /\ \A u \in Threads \ {t} : pc'[u] = pc[u] /\ job'[u] = job[u]
      BY <1>1, <1>9 DEF Decompressing, FindBuffer, CopyFromBuffer, StartFill, EndFill,
         StartDirect, EndDirect, Moves, InDecompress, TypePlaces
  <2>2. CASE t = "caller"
      BY <2>1, <2>2, <1>2, <1>4
  <2>3. CASE t = "reader"
    <3>1. /\ job'["reader"].ptr = job["reader"].ptr /\ job'["reader"].offset = job["reader"].offset
          /\ job'["reader"].size = job["reader"].size
        BY <2>3, <1>1, <1>9 DEF Decompressing, FindBuffer, CopyFromBuffer, StartFill, EndFill,
           StartDirect, EndDirect, JobType
    <3>2. Serving
        BY <2>1, <2>3, DecompressServes
    <3> QED
        BY <2>1, <3>1, <3>2 DEF ReaderServes, request
  <2> QED
      BY <1>2, <2>2, <2>3
<1>10. CASE Take
  <2>1. /\ job'["reader"].ptr = m_requestPtr /\ job'["reader"].offset = m_requestOffset
        /\ job'["reader"].size = m_requestSize /\ UNCHANGED request
      BY <1>1, <1>2, <1>10 DEF Take
  <2> QED
      BY <2>1 DEF ReaderServes, request
<1>11. CASE Decompressed \/ DecompressFails
  <2>1. /\ job'["reader"].ptr = job["reader"].ptr /\ job'["reader"].offset = job["reader"].offset
        /\ job'["reader"].size = job["reader"].size /\ UNCHANGED request
        /\ pc["reader"] \in InDecompress
      BY <1>1, <1>2, <1>11 DEF Decompressed, DecompressFails, BufferEnds, Moves,
         InDecompress, JobType
  <2>2. Serving
      BY <2>1, DecompressServes
  <2> QED
      BY <2>1, <2>2 DEF ReaderServes, request
<1>12. CASE Publish \/ Finish
  <2>1. pc'["reader"] \in {"ahead", "finish", "check"}
      BY <1>1, <1>2, <1>12 DEF Publish, Finish, MovesAndNotifies, Other, TypePlaces
  <2> QED
      BY <2>1, <1>3, <1>5 DEF InDecompress
<1>13. ASSUME m_requestPtr = Null, pc'["reader"] \in {pc["reader"], "check"},
              job'["reader"] = job["reader"]
       PROVE  ReaderServes'
  <2>1. ~Serving
      BY <1>13, NothingServed
  <2> QED
      BY <2>1, <1>3, <1>13 DEF Serving, InDecompress
<1>14. CASE SyncDecompressed \/ SyncDecompressFails
  <2>1. /\ pc'["reader"] \in {pc["reader"], "check"} /\ job'["reader"] = job["reader"]
        /\ pc["caller"] \in InDecompress
      BY <1>1, <1>2, <1>14 DEF SyncDecompressed, SyncDecompressFails, BufferEnds,
         MovesAndNotifies, Notified, Other, TypePlaces, InDecompress
  <2> QED
      BY <2>1, <1>13 DEF CallStages
<1>15. CASE ReadCalls \/ CachedRead
  <2>1. /\ UNCHANGED request /\ pc'["reader"] = pc["reader"] /\ job' = job
      BY <1>1, <1>15, MoveFacts DEF ReadCalls, BeginRead, ReadSync, BeginCall, CachedRead
  <2> QED
      BY <2>1, <1>4
<1>16. CASE ReadEnds
  <2>1. Awaken /\ pc["caller"] = "cache"
      BY <1>1, <1>16, ReaderIsLeft DEF ReadEnds, EndBeginRead, EndReadSync
  <2>2. job'["reader"] = job["reader"]
      BY <1>1, <1>2, <1>16 DEF ReadEnds, EndBeginRead, EndReadSync
  <2> QED
      BY <2>1, <2>2, <1>13 DEF CallStages, Awaken
<1>17. CASE Return \/ CloseFile \/ UNCHANGED vars
    BY <1>1, <1>2, <1>4, <1>17 DEF Return, CloseFile, vars, Moves, TypePlaces
<1> QED
    BY <1>6, <1>7, <1>8, <1>9, <1>10, <1>11, <1>12, <1>14, <1>15, <1>16, <1>17, Steps

-----------------------------------------------------------------------------
(* The progress of a read *)

LEMMA WantedFacts ==
  ASSUME TypeOK
  PROVE  /\ Wanted \in Targets
         /\ want[Wanted].offset \in Nat /\ want[Wanted].size \in Nat
         /\ memory \in [Targets -> MemoryType] /\ m_amtRead \in Nat
<1>1. Wanted \in Targets
    BY DEF Wanted, Targets
<1>2. want[Wanted].offset \in 0 .. FileSize - 1 /\ want[Wanted].size \in 0 .. MaxRead
    BY <1>1 DEF TypeOK
<1>3. want[Wanted].offset \in Nat /\ want[Wanted].size \in Nat
    BY <1>2, Sizes
<1> QED
    BY <1>1, <1>3 DEF TypeOK, MemoryType

\* A step that leaves the read, the request and the work on it as they are.
Publishing == Serving /\ pc["reader"] = "publish"

SameWork(t) ==
  /\ job'[t].ptr = job[t].ptr /\ job'[t].offset = job[t].offset
  /\ job'[t].size = job[t].size /\ job'[t].done = job[t].done

LEMMA KeptProgress ==
  ASSUME Progress, FileOpen' => FileOpen,
         Reading' = Reading, Wanted' = Wanted,
         UNCHANGED <<m_requestPtr, m_amtRead, memory, want, erred, read>>,
         m_requestPtr # Null => UNCHANGED <<m_requestOffset, m_requestSize>>,
         pc'["reader"] \in InDecompress => pc["reader"] \in InDecompress /\ SameWork("reader"),
         m_requestPtr # Null => (Publishing' <=> Publishing),
         Publishing' => job'["reader"] = job["reader"],
         pc'["caller"] \in InDecompress <=> pc["caller"] \in InDecompress,
         pc'["caller"] \in InDecompress => SameWork("caller"),
         pc'["caller"] = "cache" <=> pc["caller"] = "cache"
  PROVE  Progress'
<1> SUFFICES ASSUME FileOpen', Reading
             PROVE  PendingProgress' /\ OwnProgress' /\ CacheProgress' /\ DoneProgress'
    BY DEF Progress
<1> PendingProgress /\ OwnProgress /\ CacheProgress /\ DoneProgress
    BY DEF Progress
<1>1. \A n : Delivered(n)' <=> Delivered(n)
    BY DEF Delivered
<1>2. PendingProgress'
    BY DEF PendingProgress, Publishing, IsRest, Delivered, Complete, SameWork
<1>3. OwnProgress'
    BY DEF OwnProgress, IsRest, Delivered, SameWork
<1>4. CacheProgress'
    BY DEF CacheProgress, Delivered
<1>5. DoneProgress'
    BY DEF DoneProgress, Complete, Delivered
<1> QED
    BY <1>2, <1>3, <1>4, <1>5

LEMMA HoldsLess ==
  ASSUME NEW mem, NEW offset, NEW n \in Nat, NEW m \in Nat, Holds(mem, offset, n + m)
  PROVE  Holds(mem, offset, n)
BY DEF Holds

\* What was delivered before the blocks that are written stays; with them, it is more.
LEMMA WriteHolds ==
  ASSUME memory \in [Targets -> MemoryType], NEW ptr, ptr.target \in Targets, ptr.pos \in Nat,
         NEW n \in Nat, ptr.pos + n <= MaxRead, NEW src, NEW at,
         \A k \in 0 .. n - 1 : src[at + k] \in Data,
         Write(ptr, n, src, at),
         NEW w \in Nat, Holds(memory[ptr.target], w, ptr.pos)
  PROVE  /\ Holds(memory'[ptr.target], w, ptr.pos)
         /\ (\A k \in 0 .. n - 1 : src[at + k] = (w + ptr.pos) + k) =>
              Holds(memory'[ptr.target], w, ptr.pos + n)
<1> DEFINE pos == ptr.pos
           mem == memory[ptr.target]
           new == memory'[ptr.target]
<1>1. pos \in Nat /\ pos + n <= MaxRead
    OBVIOUS
<1>2. \A k \in 0 .. MaxRead - 1 :
        new[k] = IF pos <= k /\ k < pos + n THEN src[at + (k - pos)] ELSE mem[k]
    BY WriteFacts
<1>3. \A k \in 0 .. pos - 1 : mem[k] = w + k
    BY DEF Holds
<1> HIDE DEF pos, mem, new
<1>4. ASSUME NEW k \in 0 .. pos - 1
      PROVE  new[k] = w + k
  <2>1. k \in 0 .. MaxRead - 1 /\ ~(pos <= k)
      BY <1>1, Sizes
  <2> QED
      BY <2>1, <1>2, <1>3
<1>5. ASSUME \A k \in 0 .. n - 1 : src[at + k] = (w + pos) + k, NEW k \in 0 .. (pos + n) - 1
      PROVE  new[k] = w + k
  <2>1. CASE k < pos
      BY <2>1, <1>1, <1>4
  <2>2. CASE pos <= k
    <3> DEFINE i == k - pos
    <3>1. i \in 0 .. n - 1 /\ (w + pos) + i = w + k
        BY <2>2, <1>1
    <3>2. k \in 0 .. MaxRead - 1 /\ k < pos + n
        BY <1>1, Sizes
    <3>3. new[k] = src[at + i]
        BY <3>2, <2>2, <1>2
    <3> HIDE DEF i
    <3> QED
        BY <3>1, <3>3, <1>5
  <2> QED
      BY <2>1, <2>2, <1>1
<1>6. Holds(new, w, pos)
    BY <1>4 DEF Holds
<1>7. (\A k \in 0 .. n - 1 : src[at + k] = (w + pos) + k) => Holds(new, w, pos + n)
    BY <1>5 DEF Holds
<1> QED
    BY <1>6, <1>7 DEF pos, new

\* A step of Decompress: what was delivered stays, and what comes after it is new.
LEMMA WriteDelivers ==
  ASSUME TypeOK, JobsFit, NEW t \in Threads, pc[t] \in InDecompress,
         IsRest(job[t].ptr, job[t].offset, job[t].size),
         Delivered(job[t].ptr.pos + job[t].done),
         Wanted' = Wanted, want' = want,
         NEW n \in Nat, n <= Remaining(t), NEW src, NEW at,
         \A k \in 0 .. n - 1 : src[at + k] \in Data,
         Write(Ptr(t), n, src, at)
  PROVE  /\ Holds(memory'[Wanted], want[Wanted].offset, job[t].ptr.pos + job[t].done)
         /\ (\A k \in 0 .. n - 1 : src[at + k] = Here(t) + k) =>
              Holds(memory'[Wanted], want[Wanted].offset, job[t].ptr.pos + (job[t].done + n))
<1> DEFINE w == want[Wanted].offset
<1>1. /\ Ptr(t).target = Wanted /\ Ptr(t).target \in Targets
      /\ Ptr(t).pos \in Nat /\ Ptr(t).pos = job[t].ptr.pos + job[t].done
    BY PtrFacts DEF IsRest
<1>2. w \in Nat /\ memory \in [Targets -> MemoryType]
    BY WantedFacts
<1>3. /\ job[t].offset \in Nat /\ job[t].done \in Nat /\ job[t].size \in Nat
      /\ Here(t) = job[t].offset + job[t].done
      /\ Remaining(t) = job[t].size - job[t].done
      /\ job[t].ptr.pos \in Nat /\ job[t].ptr.pos + job[t].size <= MaxRead
      /\ job[t].offset = w + job[t].ptr.pos
    BY JobFacts, Sizes DEF IsRest
<1>4. Holds(memory[Ptr(t).target], w, Ptr(t).pos)
    BY <1>1 DEF Delivered
<1> HIDE DEF w
<1>5. Ptr(t).pos + n <= MaxRead /\ Here(t) = w + Ptr(t).pos
    BY <1>1, <1>2, <1>3, Sizes
<1>6. /\ Holds(memory'[Ptr(t).target], w, Ptr(t).pos)
      /\ (\A k \in 0 .. n - 1 : src[at + k] = (w + Ptr(t).pos) + k) =>
           Holds(memory'[Ptr(t).target], w, Ptr(t).pos + n)
    BY <1>1, <1>2, <1>4, <1>5, WriteHolds
<1>7. job[t].ptr.pos + (job[t].done + n) = Ptr(t).pos + n
    BY <1>1, <1>3
<1> QED
    BY <1>1, <1>5, <1>6, <1>7 DEF w

\* t writes n blocks of src, from at on; they are the blocks of the file that belong there;
\* the other thread stays where it is.
Puts(t, n, src, at) ==
  /\ n \in Nat /\ n <= Remaining(t)
  /\ \A k \in 0 .. n - 1 : src[at + k] \in Data
  /\ Write(Ptr(t), n, src, at)
IsFile(t, n, src, at) == \A k \in 0 .. n - 1 : src[at + k] = Here(t) + k
OthersStay(t) == \A u \in Threads \ {t} : pc'[u] = pc[u] /\ job'[u] = job[u]

\* A step of Decompress that writes n blocks and counts the m of them that are data.
LEMMA DecompressProgress ==
  ASSUME TypeOK, JobsFit, CallStages, ReaderServes, Progress, FileOpen' => FileOpen,
         NEW t \in Threads, pc[t] \in InDecompress, pc'[t] \in InDecompress,
         OthersStay(t), NEW n, NEW src, NEW at, Puts(t, n, src, at),
         NEW j, NEW m \in {0, n}, Advances(t, m, j), FileOpen /\ m # 0 => IsFile(t, n, src, at),
         UNCHANGED <<request, m_amtRead, op, want, begun, erred>>
  PROVE  Progress'
<1>1. Wanted' = Wanted /\ Reading' = Reading
    BY DEF Wanted, Reading
<1> SUFFICES ASSUME FileOpen, Reading
             PROVE  PendingProgress' /\ OwnProgress' /\ CacheProgress' /\ DoneProgress'
    BY <1>1 DEF Progress
<1>2. /\ job'[t] = j /\ j.ptr = job[t].ptr /\ j.offset = job[t].offset
      /\ j.size = job[t].size /\ j.done = job[t].done + m
    BY DEF Advances, TypeOK
<1>3. PendingProgress /\ OwnProgress /\ CacheProgress /\ DoneProgress
    BY DEF Progress
<1>4. job[t].ptr.pos \in Nat /\ job[t].done \in Nat
    BY JobFacts
<1>5. ASSUME /\ IsRest(job[t].ptr, job[t].offset, job[t].size)
             /\ Delivered(job[t].ptr.pos + job[t].done)
      PROVE  Holds(memory'[Wanted], want[Wanted].offset, job[t].ptr.pos + j.done)
  <2>1. /\ Holds(memory'[Wanted], want[Wanted].offset, job[t].ptr.pos + job[t].done)
        /\ IsFile(t, n, src, at) =>
             Holds(memory'[Wanted], want[Wanted].offset, job[t].ptr.pos + (job[t].done + n))
      BY <1>1, <1>5, WriteDelivers DEF Puts, IsFile
  <2>2. m = 0 => j.done = job[t].done
      BY <1>2, <1>4
  <2>3. m # 0 => j.done = job[t].done + n
      BY <1>2
  <2> QED
      BY <2>1, <2>2, <2>3
<1>6. CASE t = "reader"
  <2>1. Serving
      BY <1>6, DecompressServes
  <2>2. m_requestPtr = job[t].ptr /\ m_requestPtr # Null /\ m_requestOffset = job[t].offset
        /\ m_requestSize = job[t].size
      BY <1>6, <2>1 DEF ReaderServes, Serving
  <2>3. pc["reader"] # "publish" /\ pc'["reader"] # "publish"
      BY <1>6 DEF InDecompress
  <2>4. /\ IsRest(job[t].ptr, job[t].offset, job[t].size)
        /\ Delivered(job[t].ptr.pos + job[t].done) /\ m_amtRead = m_requestPtr.pos
      BY <1>3, <1>6, <2>2, <2>3 DEF PendingProgress
  <2>5. /\ Holds(memory'[Wanted], want[Wanted].offset, job[t].ptr.pos + job[t].done)
        /\ Holds(memory'[Wanted], want[Wanted].offset, job[t].ptr.pos + j.done)
      BY <1>1, <1>5, <2>4, WriteDelivers DEF Puts
  <2>6. Holds(memory'[Wanted], want[Wanted].offset, job[t].ptr.pos)
      BY <1>4, <2>5, HoldsLess
  <2>7. PendingProgress'
    <3>1. IsRest(m_requestPtr, m_requestOffset, m_requestSize)'
        BY <1>1, <2>2, <2>4 DEF IsRest, request
    <3>2. Delivered(m_requestPtr.pos)'
        BY <1>1, <2>2, <2>6 DEF Delivered, request
    <3>3. Delivered(m_requestPtr.pos + job["reader"].done)'
      <4>1. m_requestPtr'.pos + job'["reader"].done = job[t].ptr.pos + j.done
          BY <1>2, <1>6, <2>2 DEF request
      <4>2. Wanted' = Wanted /\ want' = want
          BY <1>1
      <4> QED
          BY <4>1, <4>2, <2>5 DEF Delivered
    <3> QED
        BY <3>1, <3>2, <3>3, <2>3, <2>4 DEF PendingProgress, request
  <2>8. m_requestPtr' # Null /\ pc'["caller"] = pc["caller"]
      BY <1>6, <2>2 DEF request, Threads, OthersStay
  <2>9. pc'["caller"] \notin InDecompress \cup {"cache"}
      BY <2>2, <2>8 DEF CallStages
  <2> QED
      BY <2>7, <2>8, <2>9 DEF OwnProgress, CacheProgress, DoneProgress
<1>7. CASE t = "caller"
  <2>1. m_requestPtr = Null /\ m_requestPtr' = Null
      BY <1>7 DEF CallStages, request
  <2>2. /\ IsRest(job[t].ptr, job[t].offset, job[t].size)
        /\ Delivered(job[t].ptr.pos + job[t].done) /\ m_amtRead = job[t].ptr.pos
      BY <1>3, <1>7 DEF OwnProgress
  <2>3. Holds(memory'[Wanted], want[Wanted].offset, job[t].ptr.pos + j.done)
      BY <1>5, <2>2
  <2>4. OwnProgress'
    <3>1. job'["caller"] = j
        BY <1>2, <1>7
    <3>2. IsRest(j.ptr, j.offset, j.size)' /\ m_amtRead' = j.ptr.pos
        BY <1>1, <1>2, <2>2 DEF IsRest
    <3>3. Delivered(j.ptr.pos + j.done)'
        BY <1>1, <1>2, <2>3 DEF Delivered
    <3> QED
        BY <3>1, <3>2, <3>3 DEF OwnProgress, IsRest, Delivered
  <2> QED
      BY <2>1, <2>4, <1>7 DEF PendingProgress, CacheProgress, DoneProgress, InDecompress
<1> QED
    BY <1>6, <1>7 DEF Threads

LEMMA NextDecompress ==
  ASSUME TypeOK, JobsFit, HeldFits, BuffersTrue, CallStages, ReaderServes, Progress,
         FileOpen' => FileOpen,
         NEW t \in Threads, CopyFromBuffer(t) \/ StartDirect(t) \/ EndDirect(t)
  PROVE  Progress'
<1>1. job \in [Threads -> JobType] /\ pc \in [Threads -> ReaderPCs \cup CallerPCs]
    BY DEF TypeOK, JobType
<1>2. /\ pc[t] \in InDecompress /\ pc'[t] \in InDecompress /\ OthersStay(t)
      /\ UNCHANGED <<request, m_amtRead, op, want, begun, erred>>
    BY <1>1 DEF CopyFromBuffer, StartDirect, EndDirect, Moves, InDecompress, call, history,
       OthersStay
<1>3. job[t].done \in Nat /\ job[t] \in JobType
    BY <1>1, JobFacts
<1>4. CASE CopyFromBuffer(t)
  <2> DEFINE n == CopyLength(t)
  <2>1. PICK j : Advances(t, n, j)
      BY <1>4, DecompressJob
  <2>2. /\ Puts(t, n, CopyBuffer(t).data, Offset(t))
        /\ FileOpen => IsFile(t, n, CopyBuffer(t).data, Offset(t))
      BY <1>4, CopyFacts DEF Puts, IsFile
  <2> HIDE DEF n
  <2> QED
      BY <2>1, <2>2, <1>2, DecompressProgress
<1>5. CASE StartDirect(t)
  <2> DEFINE j == job[t]
  <2>1. Advances(t, 0, j)
      BY <1>1, <1>3, <1>5 DEF Advances, StartDirect
  <2>2. Puts(t, ChunkSize, Undefined, Here(t))
      BY <1>5, DirectFits, Sizes DEF Puts, StartDirect
  <2> HIDE DEF j
  <2> QED
      BY <2>1, <2>2, <1>2, DecompressProgress
<1>6. CASE EndDirect(t)
  <2>1. PICK j : Advances(t, ChunkSize, j)
      BY <1>6, DecompressJob
  <2>2. Puts(t, ChunkSize, File, Here(t)) /\ (FileOpen => IsFile(t, ChunkSize, File, Here(t)))
      BY <1>6, DirectFits, Sizes DEF Puts, IsFile, EndDirect
  <2> QED
      BY <2>1, <2>2, <1>2, DecompressProgress
<1> QED
    BY <1>4, <1>5, <1>6

\* The steps that leave the read as it is.
LEMMA NextKept ==
  ASSUME TypeOK, JobsFit, HeldFits, CallStages, ReaderServes, Progress, FileOpen' => FileOpen,
         \/ ReaderMoves \/ CallerMoves \/ Ahead \/ CloseFile \/ Finish
         \/ \E t \in Threads : FindBuffer(t) \/ StartFill(t) \/ EndFill(t)
         \/ UNCHANGED vars
  PROVE  Progress'
<1>1. TypePlaces /\ job \in [Threads -> JobType]
    BY TypeParts DEF TypeJob, JobType
<1>2. Threads = {"reader", "caller"}
    BY DEF Threads
<1>3. CASE ReaderMoves
  <2>1. /\ pc'["reader"] \notin InDecompress \cup {"publish"} /\ pc'["caller"] = pc["caller"]
        /\ op' = op
      BY <1>1, <1>2, <1>3 DEF call, ReaderMoves, CheckSleep, Sleep, Exit, PublishFails,
         AheadStops, AheadFails, Moves, TypePlaces, InDecompress
  <2>2. ~Publishing /\ ~Publishing'
    <3>1. CASE PublishFails
        BY <3>1, <2>1 DEF PublishFails, ReaderServes, Publishing, Serving
    <3>2. CASE CheckSleep \/ Sleep \/ Exit \/ AheadStops \/ AheadFails
        BY <3>2, <2>1 DEF CheckSleep, Sleep, Exit, AheadStops, AheadFails, Moves,
                          Publishing
    <3> QED
        BY <1>3, <3>1, <3>2 DEF ReaderMoves
  <2>3. Still
      BY <1>3, StillSteps
  <2>4. Reading' = Reading /\ Wanted' = Wanted
      BY <2>1, <2>3 DEF Reading, Wanted, Still, history
  <2> QED
      BY <2>1, <2>2, <2>3, <2>4, KeptProgress DEF Still, SameWork, request, history
<1>4. CASE CallerMoves
  <2>1. Still
      BY <1>4, StillSteps
  <2>2. /\ pc'["reader"] \in {pc["reader"], "check"}
        /\ pc'["reader"] = "check" => pc["reader"] \in {"asleep", "check"}
        /\ pc'["caller"] \in InDecompress <=> pc["caller"] \in InDecompress
        /\ pc'["caller"] = "cache" <=> pc["caller"] = "cache"
      BY <1>1, <1>2, <1>4 DEF CallerMoves, SeeRequestDone, SeeRequestPending, WaitForRequest,
         FinishRead, CancelRead, Open, Close, WaitUntilStopped, SetQuit, PassMutex,
         NotifyQuit, Join, SpuriousWakeUp, Moves, MovesAndNotifies, Notified, Other, TypePlaces,
         InDecompress
  <2>3. op' = op \/ (op = "none" /\ op' # "ReadSync")
      BY <1>4 DEF CallerMoves, SeeRequestDone, SeeRequestPending, WaitForRequest,
         FinishRead, CancelRead, Open, Close, WaitUntilStopped, SetQuit, PassMutex,
         NotifyQuit, Join, SpuriousWakeUp, Moves, CallStages, call
  <2>4. Reading' = Reading /\ Wanted' = Wanted
      BY <2>1, <2>3 DEF Reading, Wanted, Still, history
  <2>5. /\ Publishing' <=> Publishing
        /\ pc'["reader"] \in InDecompress => pc["reader"] \in InDecompress
      BY <2>1, <2>2 DEF Publishing, Serving, InDecompress, Still
  <2> QED
      BY <2>1, <2>2, <2>4, <2>5, KeptProgress DEF Still, SameWork, request, history
<1>5. CASE Ahead
  <2>1. /\ pc["reader"] \notin InDecompress \cup {"publish"}
        /\ pc'["reader"] \notin InDecompress \cup {"publish"}
        /\ pc'["caller"] = pc["caller"]
      BY <1>1, <1>2, <1>5 DEF Ahead, AheadCached, StartAheadFill, EndAheadFill, StartAppend,
         EndAppend, NextBlock, Moves, TypePlaces, InDecompress
  <2>2. UNCHANGED <<request, m_amtRead, job, memory, call, history>>
      BY <1>5 DEF Ahead, AheadCached, StartAheadFill, EndAheadFill, StartAppend,
         EndAppend, NextBlock
  <2>3. Reading' = Reading /\ Wanted' = Wanted
      BY <2>2 DEF Reading, Wanted, call, history
  <2> QED
      BY <2>1, <2>2, <2>3, KeptProgress DEF Publishing, SameWork, request, call, history
<1>6. CASE CloseFile \/ UNCHANGED vars
  <2>1. /\ pc'["reader"] = pc["reader"]
        /\ pc'["caller"] \in InDecompress <=> pc["caller"] \in InDecompress
        /\ pc'["caller"] = "cache" <=> pc["caller"] = "cache"
        /\ UNCHANGED <<request, m_amtRead, job, memory, call, history>>
      BY <1>1, <1>2, <1>6 DEF CloseFile, Moves, TypePlaces, InDecompress, vars
  <2>2. Reading' = Reading /\ Wanted' = Wanted /\ (Publishing' <=> Publishing)
      BY <2>1 DEF Reading, Wanted, Publishing, Serving, InDecompress, call, history
  <2> QED
      BY <2>1, <2>2, KeptProgress DEF SameWork, request, call, history
<1>7. CASE Finish
  <2>1. /\ pc["reader"] = "finish" /\ pc'["reader"] = "check"
        /\ pc'["caller"] \in InDecompress <=> pc["caller"] \in InDecompress
        /\ pc'["caller"] = "cache" <=> pc["caller"] = "cache"
      BY <1>1, <1>2, <1>7 DEF Finish, MovesAndNotifies, Notified, Other, TypePlaces, InDecompress
  <2>2. /\ UNCHANGED <<m_requestPtr, m_amtRead, memory, call, want, begun, erred>>
        /\ m_requestPtr # Null => UNCHANGED <<m_requestOffset, m_requestSize>>
        /\ job'["caller"] = job["caller"]
      BY <1>1, <1>2, <1>7 DEF Finish, history
  <2>3. Reading' = Reading /\ Wanted' = Wanted
      BY <2>2 DEF Reading, Wanted, call
  <2>4. /\ ~Publishing /\ ~Publishing' /\ pc'["reader"] \notin InDecompress
      BY <2>1 DEF Publishing, InDecompress
  <2> QED
      BY <2>1, <2>2, <2>3, <2>4, KeptProgress DEF SameWork, call
<1>8. ASSUME NEW t \in Threads, FindBuffer(t) \/ StartFill(t) \/ EndFill(t)
      PROVE  Progress'
  <2>1. /\ UNCHANGED <<request, m_amtRead, memory, call, history>>
        /\ pc[t] \in InDecompress /\ pc'[t] \in InDecompress
        /\ \A u \in Threads \ {t} : pc'[u] = pc[u] /\ job'[u] = job[u]
      BY <1>1, <1>8 DEF FindBuffer, StartFill, EndFill, Moves, TypePlaces, InDecompress
  <2>2. SameWork(t)
    <3>1. CASE StartFill(t)
        BY <3>1 DEF StartFill, SameWork
    <3>2. CASE FindBuffer(t) \/ EndFill(t)
      <4>1. PICK j : Advances(t, 0, j)
          BY <3>2, DecompressJob
      <4>2. job[t].done \in Nat /\ job'[t] = j
          BY <4>1, <1>1, JobFacts DEF Advances
      <4> QED
          BY <4>1, <4>2 DEF Advances, SameWork
    <3> QED
        BY <3>1, <3>2, <1>8
  <2>3. \A u \in Threads : SameWork(u)
      BY <2>1, <2>2 DEF SameWork
  <2>4. /\ pc'["reader"] \in InDecompress <=> pc["reader"] \in InDecompress
        /\ pc'["caller"] \in InDecompress <=> pc["caller"] \in InDecompress
        /\ pc'["reader"] = "publish" <=> pc["reader"] = "publish"
        /\ pc'["reader"] = "publish" => job'["reader"] = job["reader"]
        /\ pc'["caller"] = "cache" <=> pc["caller"] = "cache"
      BY <1>2, <2>1 DEF InDecompress
  <2>5. Reading' = Reading /\ Wanted' = Wanted /\ (Publishing' <=> Publishing)
    <3>1. job'["reader"].ptr = job["reader"].ptr
        BY <1>2, <2>3 DEF SameWork
    <3> QED
        BY <2>1, <2>4, <3>1 DEF Reading, Wanted, Publishing, Serving, call, history
  <2> QED
      BY <1>2, <2>1, <2>3, <2>4, <2>5, KeptProgress DEF Publishing, request, call, history
<1> QED
    BY <1>3, <1>4, <1>5, <1>6, <1>7, <1>8

\* The reader takes a request, works it off and says so.
LEMMA NextServed ==
  ASSUME TypeOK, JobsFit, RequestFits, CallStages, ReaderServes, Progress,
         FileOpen' => FileOpen,
         Take \/ Decompressed \/ DecompressFails \/ Publish
  PROVE  Progress'
<1>1. TypePlaces /\ job \in [Threads -> JobType]
    BY TypeParts DEF TypeJob, JobType
<1>2. Threads = {"reader", "caller"}
    BY DEF Threads
<1>3. /\ op' = op /\ memory' = memory /\ want' = want /\ begun' = begun
      /\ read' = read
    BY DEF Take, Decompressed, DecompressFails, Publish, call, history
<1>4. Reading' = Reading /\ Wanted' = Wanted
    BY <1>3 DEF Reading, Wanted
<1> SUFFICES ASSUME FileOpen, Reading
             PROVE  PendingProgress' /\ OwnProgress' /\ CacheProgress' /\ DoneProgress'
    BY <1>4 DEF Progress
<1>5. PendingProgress /\ OwnProgress /\ CacheProgress /\ DoneProgress
    BY DEF Progress
<1>6. \A n : Holds(memory'[Wanted'], want'[Wanted'].offset, n)
               <=> Holds(memory[Wanted], want[Wanted].offset, n)
    BY <1>3, <1>4
<1>7. m_requestPtr # Null =>
        /\ m_requestPtr.pos \in Nat /\ m_requestSize \in Nat /\ m_requestSize > 0
        /\ m_requestPtr.pos + m_requestSize = want[Wanted].size
  <2>1. m_requestPtr \in [target : Targets, pos : -1 .. MaxRead - 1] /\ m_requestSize \in 0 .. MaxRead
      BY DEF TypeOK
  <2>2. m_requestPtr.pos \in -1 .. MaxRead - 1
      BY <2>1
  <2> QED
      BY <1>5, <2>1, <2>2, Sizes DEF RequestFits, PendingProgress, IsRest
<1>8. m_requestPtr # Null => pc["caller"] \notin InDecompress \cup {"cache"}
    BY DEF CallStages
<1>9. CASE Take
  <2>1. /\ UNCHANGED <<m_requestPtr, m_requestOffset, m_requestSize, m_amtRead, erred>>
        /\ job'["reader"].done = 0 /\ job'["caller"] = job["caller"]
        /\ pc'["caller"] = pc["caller"] /\ pc'["reader"] \in {"work", "publish"}
        /\ pc'["reader"] = "publish" => job'["reader"].ptr = Null
        /\ pc["reader"] \in {"check", "retake"}
      BY <1>1, <1>2, <1>9 DEF Take, request, history, TypePlaces
  <2>4. ~Publishing /\ ~Publishing'
      BY <2>1 DEF Publishing, Serving
  <2>2. CASE m_requestPtr # Null
    <3>1. /\ IsRest(m_requestPtr, m_requestOffset, m_requestSize)
          /\ Delivered(m_requestPtr.pos) /\ m_amtRead = m_requestPtr.pos
        BY <1>5, <2>2, <2>4 DEF PendingProgress, Publishing
    <3>2. m_requestPtr'.pos + job'["reader"].done = m_requestPtr.pos
        BY <1>7, <2>1, <2>2
    <3>3. PendingProgress'
        BY <1>3, <1>4, <2>1, <2>4, <3>1, <3>2 DEF PendingProgress, Publishing, IsRest, Delivered
    <3> QED
        BY <3>3, <2>1, <2>2, <1>8 DEF OwnProgress, CacheProgress, DoneProgress
  <2>3. CASE m_requestPtr = Null
      BY <1>3, <1>4, <1>5, <2>1, <2>3
         DEF PendingProgress, OwnProgress, CacheProgress, DoneProgress, IsRest, Delivered, Complete
  <2> QED
      BY <2>2, <2>3
<1>10. CASE Decompressed \/ DecompressFails
  <2>1. /\ UNCHANGED <<m_requestPtr, m_requestOffset, m_requestSize>>
        /\ pc["reader"] \in InDecompress /\ pc'["reader"] = "publish"
        /\ pc'["caller"] = pc["caller"] /\ job'["reader"].ptr = job["reader"].ptr
      BY <1>1, <1>2, <1>10 DEF Decompressed, DecompressFails, BufferEnds, Moves,
         InDecompress, TypePlaces, request, JobType
  <2>2. Serving
      BY <2>1, DecompressServes
  <2>3. /\ m_requestPtr # Null /\ m_requestPtr = job["reader"].ptr
        /\ m_requestSize = job["reader"].size
      BY <2>2 DEF ReaderServes, Serving
  <2>4. /\ IsRest(m_requestPtr, m_requestOffset, m_requestSize)
        /\ Delivered(m_requestPtr.pos) /\ m_amtRead = m_requestPtr.pos
        /\ Delivered(m_requestPtr.pos + job["reader"].done)
      BY <1>5, <2>1, <2>3 DEF PendingProgress, InDecompress
  <2>5. Publishing'
      BY <2>1, <2>2 DEF Publishing, Serving
  <2>6. IF job'["reader"].ok THEN Complete' ELSE erred' /\ m_amtRead' = m_requestPtr'.pos
    <3>1. CASE Decompressed
      <4>1. m_amtRead' = m_amtRead + job["reader"].size /\ Remaining("reader") = 0
          BY <3>1 DEF Decompressed
      <4>2. job["reader"].done = job["reader"].size
        <5>1. /\ job["reader"].done \in Nat /\ job["reader"].size \in Nat
              /\ Remaining("reader") = job["reader"].size - job["reader"].done
            BY <1>2, JobFacts
        <5> QED
            BY <4>1, <5>1
      <4>3. m_amtRead' = want[Wanted].size /\ m_amtRead' = m_requestPtr.pos + job["reader"].done
          BY <4>1, <4>2, <1>7, <2>3, <2>4
      <4>4. job'["reader"].ok = TRUE
          BY <1>1, <1>2, <3>1 DEF Decompressed, JobType
      <4> QED
          BY <4>3, <4>4, <1>3, <1>4, <2>4 DEF Complete, Delivered
    <3>2. CASE DecompressFails
      <4>1. job'["reader"].ok = FALSE /\ erred' = TRUE /\ m_amtRead' = m_amtRead
          BY <1>1, <1>2, <3>2 DEF DecompressFails, JobType
      <4> QED
          BY <4>1, <2>1, <2>4
    <3> QED
        BY <1>10, <3>1, <3>2
  <2>7. PendingProgress'
      BY <1>3, <1>4, <2>1, <2>4, <2>5, <2>6
         DEF PendingProgress, Publishing, IsRest, Delivered, InDecompress
  <2> QED
      BY <2>1, <2>3, <2>7, <1>8 DEF OwnProgress, CacheProgress, DoneProgress
<1>11. CASE Publish
  <2>1. /\ m_requestPtr = job["reader"].ptr /\ m_requestPtr' = Null
        /\ pc["reader"] = "publish" /\ UNCHANGED <<m_amtRead, job, erred>>
        /\ pc'["caller"] \in InDecompress <=> pc["caller"] \in InDecompress
        /\ pc'["caller"] = "cache" <=> pc["caller"] = "cache"
      BY <1>1, <1>2, <1>11 DEF Publish, Notified, TypePlaces, InDecompress, history
  <2>2. OwnProgress'
      BY <1>3, <1>4, <1>5, <2>1 DEF OwnProgress, IsRest, Delivered
  <2>3. CacheProgress'
      BY <1>3, <1>4, <1>5, <2>1 DEF CacheProgress, Delivered
  <2>4. CASE m_requestPtr # Null
    <3>1. Publishing
        BY <2>1, <2>4 DEF Publishing, Serving
    <3>2. IF job["reader"].ok THEN Complete ELSE erred /\ m_amtRead = m_requestPtr.pos
        BY <1>5, <2>4, <3>1 DEF PendingProgress, Publishing
    <3>3. Complete \/ (erred /\ m_amtRead < want[Wanted].size)
        BY <1>7, <2>4, <3>2
    <3>4. DoneProgress'
        BY <1>3, <1>4, <2>1, <3>3 DEF DoneProgress, Complete, Delivered
    <3> QED
        BY <2>1, <2>2, <2>3, <3>4 DEF PendingProgress
  <2>5. CASE m_requestPtr = Null
      BY <1>3, <1>4, <1>5, <2>1, <2>2, <2>5, <2>3
         DEF PendingProgress, DoneProgress, Complete, Delivered
  <2> QED
      BY <2>4, <2>5
<1> QED
    BY <1>9, <1>10, <1>11

\* A read begins: nothing of it is there yet.
LEMMA NextReadCall ==
  ASSUME Overlapping = {}, TypeOK, CallStages,
         NEW r \in Reads, BeginRead(r.offset, r.size) \/ ReadSync(r.offset, r.size)
  PROVE  Progress'
<1>1. TypePlaces
    BY TypeParts
<1>2. PICK target \in Targets :
        /\ pc["caller"] = "idle" /\ pc'["caller"] = "cache" /\ ~begun
        /\ UNCHANGED request /\ m_amtRead' = 0
        /\ target = (IF op' = "ReadSync" THEN "stack" ELSE "m_readbuffer")
        /\ want' = [want EXCEPT ![target] = [offset |-> r.offset, size |-> r.size]]
        /\ read' = [offset |-> r.offset, size |-> r.size, pos |-> 0, end |-> 0,
                    allDone |-> FALSE, step |-> 0, bufsize |-> m_buffer[0].size]
    BY <1>1, MoveFacts DEF BeginRead, ReadSync, BeginCall, Targets
<1>3. m_requestPtr' = Null
    BY <1>1, <1>2 DEF CallStages, Reading, request
<1>4. /\ Wanted' = target /\ want'[Wanted'].offset = r.offset /\ want'[Wanted'].size = r.size
      /\ read'.offset = r.offset /\ read'.size = r.size /\ read'.pos = 0
    BY <1>2 DEF Wanted, TypeOK
<1>5. Delivered(0)'
    BY DEF Delivered, Holds
<1>6. r.offset = r.offset + 0 /\ 0 + r.size = r.size
    BY ReadCallFacts
<1>7. CacheProgress'
    BY <1>2, <1>4, <1>5, <1>6 DEF CacheProgress
<1> QED
    BY <1>2, <1>3, <1>7
       DEF Progress, PendingProgress, OwnProgress, DoneProgress, InDecompress

\* TryCachedRead copies from a buffer what comes next of the read.
LEMMA NextCached ==
  ASSUME TypeOK, ReadFits, BuffersTrue, CallStages, Progress, CachedRead
  PROVE  Progress'
<1> DEFINE ptr == At(Wanted, read.pos)
           n == CachedSize
           w == want[Wanted].offset
<1>1. /\ pc["caller"] = "cache" /\ pc' = pc /\ UNCHANGED <<request, op, history>>
    BY DEF CachedRead
<1>2. m_requestPtr = Null /\ m_requestPtr' = Null /\ Wanted' = Wanted /\ Reading' = Reading
    BY <1>1 DEF CallStages, Wanted, Reading, request, history
<1> SUFFICES ASSUME Reading
             PROVE  CacheProgress'
    BY <1>1, <1>2 DEF Progress, PendingProgress, OwnProgress, DoneProgress, InDecompress
<1>3. FileOpen
    BY <1>1 DEF FileOpen
<1>4. /\ read.offset = w + read.pos
      /\ read.pos + read.size = want[Wanted].size
      /\ m_amtRead = read.pos
      /\ Delivered(read.pos)
    BY <1>1, <1>3 DEF Progress, CacheProgress
<1>5. /\ read.offset \in Nat /\ read.size \in Nat /\ read.pos \in Nat
      /\ read.pos + read.size <= MaxRead
    BY <1>1, ReadFacts DEF ReadFits
<1>6. w \in Nat /\ memory \in [Targets -> MemoryType] /\ Wanted \in Targets
    BY WantedFacts
<1>7. ptr.target = Wanted /\ ptr.pos = read.pos
    BY DEF At
<1>8. /\ n \in Nat /\ n <= read.size
      /\ Write(ptr, n, LookedAt.data, CachedFrom)
      /\ m_amtRead' = m_amtRead + n
      /\ read'.offset = read.offset + n /\ read'.size = read.size - n /\ read'.pos = read.pos + n
      /\ \A k \in 0 .. n - 1 : LookedAt.data[CachedFrom + k] \in Data
      /\ \A k \in 0 .. n - 1 : LookedAt.data[CachedFrom + k] = read.offset + k
    BY CachedFacts
<1>9. Holds(memory[ptr.target], w, ptr.pos)
    BY <1>4, <1>7 DEF Delivered
<1>10. UNCHANGED want
    BY <1>1 DEF history
<1>11. want'[Wanted'].offset = w /\ want'[Wanted'].size = want[Wanted].size
    BY <1>2, <1>10
<1> HIDE DEF ptr, n, w
<1>12. ptr.pos + n <= MaxRead
    BY <1>5, <1>7, <1>8, Sizes
<1>13. Holds(memory'[ptr.target], w, ptr.pos + n)
    BY <1>4, <1>5, <1>6, <1>7, <1>8, <1>9, <1>12, WriteHolds
<1>14. Delivered(read.pos)'
    BY <1>2, <1>7, <1>8, <1>11, <1>13 DEF Delivered
<1>15. /\ read'.offset = w + read'.pos
       /\ read'.pos + read'.size = want[Wanted].size
       /\ m_amtRead' = read'.pos
    BY <1>4, <1>5, <1>6, <1>8
<1> QED
    BY <1>11, <1>14, <1>15 DEF CacheProgress

\* What is posted then, or what the caller will decompress itself, is the rest.
LEMMA NextReadEnds ==
  ASSUME TypeOK, JobsFit, ReadFits, CallStages, ReaderServes, Progress, ReadEnds
  PROVE  Progress'
<1>1. TypePlaces /\ Threads = {"reader", "caller"} /\ job \in [Threads -> JobType]
    BY TypeParts DEF Threads, TypeJob, JobType
<1>2. /\ pc["caller"] = "cache" /\ m_requestPtr = Null
      /\ UNCHANGED <<m_amtRead, memory, want, begun, erred>>
    BY DEF ReadEnds, EndBeginRead, EndReadSync, CallStages, history
<1>3. /\ op \in {"BeginRead", "ReadSync"} /\ Reading
      /\ Wanted' = Wanted /\ Reading' = Reading
    BY <1>2 DEF ReadEnds, EndBeginRead, EndReadSync, CallStages, Reading, Wanted
<1> DEFINE p == At(Wanted, read.pos)
<1>4. \/ /\ read.allDone /\ UNCHANGED request
         /\ pc'["caller"] \in {"idle", "done"} /\ job' = job
      \/ /\ read.size > 0 /\ UNCHANGED request
         /\ pc'["caller"] = "work"
         /\ job' = [job EXCEPT !["caller"] = [ptr |-> p, offset |-> read.offset,
                                              size |-> read.size, done |-> 0, buf |-> 0,
                                              ok |-> TRUE]]
      \/ /\ Post(p, read.offset, read.size)
         /\ pc'["caller"] \in {"idle", "done", "finish"} /\ job' = job
  <2>1. CASE EndBeginRead
    <3>1. Wanted = "m_readbuffer"
        BY <2>1 DEF EndBeginRead, Wanted
    <3> QED
        BY <2>1, <3>1, <1>1, MoveFacts, NotifyFacts DEF EndBeginRead
  <2>2. CASE EndReadSync
    <3>1. Wanted = "stack"
        BY <2>2 DEF EndReadSync, Wanted
    <3> QED
        BY <2>2, <3>1, <1>1, MoveFacts, NotifyFacts DEF EndReadSync
  <2> QED
      BY <2>1, <2>2 DEF ReadEnds
<1>5. pc'["reader"] \notin InDecompress /\ ~Publishing'
  <2>1. ~Serving /\ pc["reader"] \notin InDecompress
      BY <1>2, NothingServed
  <2>2. Awaken
      BY <1>1, ReaderIsLeft
  <2>3. job'["reader"] = job["reader"]
      BY <1>1, <1>4
  <2> QED
      BY <2>1, <2>2, <2>3 DEF Awaken, Publishing, Serving, InDecompress
<1>6. /\ read.offset = want[Wanted].offset + read.pos
      /\ read.pos + read.size = want[Wanted].size
      /\ m_amtRead = read.pos
      /\ Delivered(read.pos)
    BY <1>2, <1>3 DEF Progress, CacheProgress, FileOpen
<1>7. /\ read.offset \in Nat /\ read.size \in Nat /\ read.pos \in Nat
      /\ read.allDone => read.size = 0
    BY <1>2, ReadFacts DEF ReadFits
<1>8. Delivered(read.pos) <=> Holds(memory'[Wanted'], want'[Wanted'].offset, read.pos)
    BY <1>2, <1>3 DEF Delivered
<1>9. read.size > 0 => p.pos = read.pos /\ p.target = Wanted /\ p # Null
    BY <1>2, WantedFacts, RestFacts
<1> HIDE DEF p
<1>10. CASE read.size = 0 /\ m_requestPtr' = Null /\ pc'["caller"] \in {"idle", "done", "finish"}
  <2>1. m_amtRead' = want'[Wanted'].size
      BY <1>2, <1>3, <1>6, <1>7, <1>10
  <2>2. Complete'
      BY <2>1, <1>2, <1>3, <1>6, <1>8 DEF Complete, Delivered
  <2> QED
      BY <2>2, <1>10 DEF Progress, PendingProgress, OwnProgress, CacheProgress, DoneProgress,
                         InDecompress
<1>11. CASE /\ read.size > 0 /\ m_requestPtr' = Null /\ pc'["caller"] = "work"
            /\ job' = [job EXCEPT !["caller"] = [ptr |-> p, offset |-> read.offset,
                                                 size |-> read.size, done |-> 0, buf |-> 0,
                                                 ok |-> TRUE]]
  <2>1. /\ job'["caller"].ptr = p /\ job'["caller"].offset = read.offset
        /\ job'["caller"].size = read.size /\ job'["caller"].done = 0
      BY <1>1, <1>11
  <2>2. p.pos + 0 = read.pos
      BY <1>7, <1>9, <1>11
  <2>3. OwnProgress'
      BY <2>1, <2>2, <1>2, <1>3, <1>6, <1>8, <1>9, <1>11 DEF OwnProgress, IsRest, Delivered
  <2> QED
      BY <2>3, <1>11 DEF Progress, PendingProgress, CacheProgress, DoneProgress, InDecompress
<1>12. CASE /\ read.size > 0 /\ m_requestPtr' = p /\ m_requestOffset' = read.offset
            /\ m_requestSize' = read.size /\ pc'["caller"] \in {"idle", "done", "finish"}
  <2>1. IsRest(m_requestPtr, m_requestOffset, m_requestSize)'
      BY <1>2, <1>3, <1>6, <1>9, <1>12 DEF IsRest
  <2>2. Delivered(m_requestPtr.pos)' /\ m_amtRead' = m_requestPtr'.pos
      BY <1>2, <1>3, <1>6, <1>8, <1>9, <1>12 DEF Delivered
  <2>3. PendingProgress'
      BY <2>1, <2>2, <1>5, <1>12 DEF PendingProgress, Publishing
  <2> QED
      BY <2>3, <1>9, <1>12 DEF Progress, OwnProgress, CacheProgress, DoneProgress, InDecompress
<1>13. Post(p, read.offset, read.size) =>
         IF read.size = 0 THEN m_requestPtr' = Null
         ELSE m_requestPtr' = p /\ m_requestOffset' = read.offset /\ m_requestSize' = read.size
    BY DEF Post
<1>14. UNCHANGED request => m_requestPtr' = Null
    BY <1>2 DEF request
<1> QED
    BY <1>4, <1>7, <1>10, <1>11, <1>12, <1>13, <1>14

\* ReadSync's own Decompress is done, or failed.
LEMMA NextOwn ==
  ASSUME TypeOK, JobsFit, CallStages, ReaderServes, Progress,
         SyncDecompressed \/ SyncDecompressFails
  PROVE  Progress'
<1> DEFINE j == job["caller"]
<1>1. TypePlaces
    BY TypeParts
<1>2. Threads = {"reader", "caller"}
    BY DEF Threads
<1>3. /\ pc["caller"] \in InDecompress /\ pc'["caller"] \in {"done", "finish"}
      /\ pc'["reader"] \in {pc["reader"], "check"} /\ job'["reader"] = job["reader"]
      /\ op' = op /\ begun' = begun /\ memory' = memory /\ want' = want
    BY <1>1, <1>2 DEF SyncDecompressed, SyncDecompressFails, BufferEnds, MovesAndNotifies,
       Notified, Other, TypePlaces, InDecompress, call, history, TypeOK
<1>4. Reading /\ m_requestPtr = Null /\ Wanted' = Wanted
    BY <1>3 DEF CallStages, Reading, Wanted
<1>5. /\ IsRest(j.ptr, j.offset, j.size) /\ m_amtRead = j.ptr.pos
      /\ Holds(memory[Wanted], want[Wanted].offset, j.ptr.pos + j.done)
    BY <1>3, <1>4 DEF Progress, OwnProgress, Delivered, FileOpen, InDecompress
<1>6. /\ j.ptr.pos \in Nat /\ j.size \in Nat /\ j.size > 0 /\ j.done \in Nat
      /\ Remaining("caller") = j.size - j.done
    BY <1>2, <1>3, JobFacts
<1>7. pc'["reader"] \notin InDecompress /\ ~Publishing'
  <2>1. ~Serving /\ pc["reader"] \notin InDecompress
      BY <1>4, NothingServed
  <2> QED
      BY <1>3, <2>1 DEF Publishing, Serving, InDecompress
<1>8. pc'["caller"] \notin InDecompress \cup {"cache"}
    BY <1>3 DEF InDecompress
<1>9. CASE SyncDecompressed
  <2>1. m_amtRead' = m_amtRead + j.size /\ Remaining("caller") = 0 /\ m_requestPtr' = Null
      BY <1>9 DEF SyncDecompressed, Post
  <2>2. m_amtRead' = j.ptr.pos + j.done /\ m_amtRead' = want[Wanted].size
      BY <2>1, <1>5, <1>6 DEF IsRest
  <2>3. Complete'
      BY <2>2, <1>3, <1>4, <1>5 DEF Complete, Delivered
  <2> QED
      BY <2>1, <2>3, <1>8 DEF Progress, PendingProgress, OwnProgress, CacheProgress,
                               DoneProgress
<1>10. CASE SyncDecompressFails
  <2>1. /\ m_requestPtr' = j.ptr /\ m_requestOffset' = j.offset /\ m_requestSize' = j.size
        /\ m_amtRead' = m_amtRead
      BY <1>10, <1>6 DEF SyncDecompressFails, Post
  <2>2. Holds(memory[Wanted], want[Wanted].offset, j.ptr.pos)
      BY <1>5, <1>6, HoldsLess
  <2>3. j.ptr # Null
      BY <1>6, NullFacts
  <2> HIDE DEF j
  <2>4. PendingProgress'
      BY <2>1, <2>2, <1>3, <1>4, <1>5, <1>7
         DEF PendingProgress, Publishing, IsRest, Delivered
  <2> QED
      BY <2>1, <2>3, <2>4, <1>8 DEF Progress, OwnProgress, CacheProgress, DoneProgress
<1> QED
    BY <1>9, <1>10

LEMMA NextProgress ==
  ASSUME Overlapping = {}, TypeOK, RequestFits, JobsFit, HeldFits, ReadFits, BuffersTrue,
         CallStages, ReaderServes, Progress, [Next]_vars
  PROVE  Progress'
<1>1. FileOpen' => FileOpen
    BY TypeParts, StaysClosed
<1>2. CASE \/ ReaderMoves \/ CallerMoves \/ Ahead \/ CloseFile \/ Finish \/ UNCHANGED vars
           \/ \E t \in Threads : FindBuffer(t) \/ StartFill(t) \/ EndFill(t)
    BY <1>1, <1>2, NextKept
<1>3. CASE \E t \in Threads : CopyFromBuffer(t) \/ StartDirect(t) \/ EndDirect(t)
    BY <1>1, <1>3, NextDecompress
<1>4. CASE Take \/ Decompressed \/ DecompressFails \/ Publish
    BY <1>1, <1>4, NextServed
<1>5. CASE SyncDecompressed \/ SyncDecompressFails
    BY <1>5, NextOwn
<1>6. CASE ReadCalls
    BY <1>6, NextReadCall DEF ReadCalls
<1>7. CASE CachedRead
    BY <1>7, NextCached
<1>8. CASE ReadEnds
    BY <1>8, NextReadEnds
<1>9. CASE Return
  <2>1. ~Reading'
      BY <1>9 DEF Return, Reading, CallStages
  <2> QED
      BY <2>1 DEF Progress
<1> QED
    BY <1>2, <1>3, <1>4, <1>5, <1>6, <1>9, <1>7, <1>8, Steps DEF Decompressing

-----------------------------------------------------------------------------
(* The theorems *)

LEMMA InitData == Init => DataInv
<1> SUFFICES ASSUME Init
             PROVE  DataInv
    OBVIOUS
<1>1. m_requestPtr \in [target : Targets, pos : -1 .. MaxRead - 1]
    BY NullFacts DEF Init
<1>2. TypeOK
  <2>1. job \in [Threads -> JobType]
      BY NoJobFacts DEF Init
  <2>2. TypeBuffers /\ TypeMemory
      BY Sizes DEF Init, TypeBuffers, TypeMemory, Data, Blank, NoWant
  <2>3. TypeRequest /\ TypeAhead /\ TypeJob
      BY <1>1, <2>1, Sizes DEF Init, TypeRequest, TypeAhead, TypeJob, JobType
  <2>4. TypeRead
      BY Sizes DEF Init, NoRead, TypeRead
  <2>5. TypeFlags
      BY Zenon DEF Init, TypeFlags
  <2>6. TypePlaces
      BY DEF Init, TypePlaces, Threads, ReaderPCs, CallerPCs
  <2> QED
      BY <2>2, <2>3, <2>5, <2>6, <2>4, TypeParts
<1>3. Exclusion
    BY DEF Init, Exclusion, Busy, InDecompress, Closed, Threads
<1>4. RequestFits /\ AheadFits /\ HeldFits /\ ReadFits
    BY Sizes DEF Init, RequestFits, AheadFits, HeldFits, ReadFits, Threads
<1>5. JobsFit
    BY NoJobFacts, Sizes DEF Init, JobsFit, JobFits, Threads, InDecompress
<1>6. BuffersTrue
    BY DEF Init, BuffersTrue
<1> QED
    BY <1>2, <1>3, <1>4, <1>5, <1>6 DEF DataInv, RunInv

LEMMA NextData ==
  ASSUME DataInv, [Next]_vars
  PROVE  DataInv'
<1> USE DEF DataInv, RunInv
<1>1. TypeFlags' /\ TypePlaces'
    BY NextTypeFlags, NextTypePlaces, TypeParts
<1>2. TypeRequest' /\ RequestFits'
    BY NextRequest
<1>3. TypeBuffers' /\ BuffersTrue'
    BY NextBuffersTrue
<1>4. TypeRead' /\ ReadFits'
    BY <1>3, NextRead
<1>5. HeldFits'
    BY NextHeld
<1>6. TypeJob' /\ JobsFit'
    BY NextJob
<1>7. TypeAhead' /\ AheadFits'
    BY NextAhead
<1>8. TypeMemory'
    BY NextMemory
<1>9. Exclusion'
    BY NextExclusion
<1>10. TypeOK'
    BY <1>1, <1>2, <1>3, <1>6, <1>7, <1>8, <1>4 DEF TypeOK, TypeFlags, TypePlaces,
       TypeRequest, TypeBuffers, TypeJob, TypeAhead, TypeMemory, TypeRead
<1> QED
    BY <1>2, <1>3, <1>6, <1>7, <1>9, <1>10, <1>4, <1>5

LEMMA DataAlways == Spec => []DataInv
<1>1. DataInv /\ [Next]_vars => DataInv'
    BY NextData
<1> QED
    BY <1>1, InitData, PTL DEF Spec

\* Every variable stays in the range the code gives it: no request, job or readahead
\* reaches beyond the file or the memory it is for.
THEOREM TypeCorrect == Spec => []TypeOK
<1>1. DataInv => TypeOK
    BY DEF DataInv, RunInv
<1> QED
    BY <1>1, DataAlways, PTL

\* While the reader is in ReadChunk, the caller does not decompress: m_running is a
\* lock, although nothing but a condition variable guards it.
THEOREM ReaderIsAlone == Spec => []ReaderAlone
<1>1. DataInv => ReaderAlone
  <2> SUFFICES ASSUME DataInv, pc["reader"] \in InReadChunk
               PROVE  pc["caller"] \notin {"work", "copy"} \cup InReadChunk
      BY DEF ReaderAlone
  <2>1. TypeOK /\ Exclusion /\ pc["reader"] \in Busy
      BY DEF DataInv, RunInv, Busy, InReadChunk, ReaderPCs
  <2>2. pc["caller"] \notin InDecompress
      BY <2>1 DEF Exclusion
  <2> QED
      BY <2>1, <2>2 DEF TypeOK, CallerPCs, InReadChunk, InDecompress
<1> QED
    BY <1>1, DataAlways, PTL

\* What the size of a buffer counts is data of the file while it is open, whoever is
\* filling it.
THEOREM BuffersAreTrue == Spec => []BuffersTrue
<1>1. DataInv => BuffersTrue
    BY DEF DataInv
<1> QED
    BY <1>1, DataAlways, PTL

LEMMA InitProgress == Init => CallStages /\ ReaderServes /\ Progress
<1> SUFFICES ASSUME Init
             PROVE  CallStages /\ ReaderServes /\ Progress
    OBVIOUS
<1>1. /\ pc["reader"] = "check" /\ pc["caller"] = "new" /\ ~begun /\ op = "none"
      /\ m_requestPtr = Null
    BY DEF Init, Threads
<1> QED
    BY <1>1 DEF CallStages, ReaderServes, Serving, Progress, Reading, InDecompress, Closed

LEMMA NextIInv ==
  ASSUME Overlapping = {}, IInv, [Next]_vars
  PROVE  IInv'
<1> USE DEF IInv
<1>1. DataInv'
    BY NextData
<1>2. TypeOK /\ RequestFits /\ JobsFit /\ HeldFits /\ ReadFits /\ BuffersTrue
    BY DEF DataInv, RunInv
<1>3. CallStages'
    BY <1>2, NextCallStages
<1>4. ReaderServes'
    BY <1>2, NextReaderServes
<1>5. Progress'
    BY <1>2, NextProgress
<1> QED
    BY <1>1, <1>3, <1>4, <1>5

\* A call that finished a read delivered it, to the last block unless the reader could
\* not decompress it, whether it came from the buffers, from the reader or from both.
THEOREM ReadsAreDelivered ==
  ASSUME Overlapping = {}
  PROVE  Spec => []ReadsDeliver
<1>1. Init => IInv
    BY InitData, InitProgress DEF IInv
<1>2. IInv /\ [Next]_vars => IInv'
    BY NextIInv
<1>3. IInv => ReadsDeliver
  <2> SUFFICES ASSUME IInv, Collected
               PROVE  Intact /\ (erred \/ m_amtRead = want[Wanted].size)
      BY DEF ReadsDeliver
  <2>1. pc["caller"] = "done" /\ op # "CancelRead" /\ (op = "FinishRead" => begun)
      BY DEF Collected
  <2>2. TypeOK
      BY DEF IInv, DataInv, RunInv
  <2>3. Reading /\ m_requestPtr = Null
      BY <2>1, <2>2 DEF IInv, CallStages, Reading, TypeOK
  <2>4. Complete \/ (erred /\ m_amtRead < want[Wanted].size)
      BY <2>1, <2>3 DEF IInv, Progress, DoneProgress, InDecompress, FileOpen
  <2>5. CASE Complete
      BY <2>5 DEF Complete, Delivered, Holds, Intact
  <2>6. CASE erred /\ m_amtRead < want[Wanted].size
      BY <2>2, <2>6, WantedFacts DEF Intact
  <2> QED
      BY <2>4, <2>5, <2>6
<1> QED
    BY <1>1, <1>2, <1>3, PTL DEF Spec

-----------------------------------------------------------------------------
(* The condition variable: whatever the caller does, and however it closes *)

\* m_running says where the reader is.
Running == m_running <=> pc["reader"] \notin {"check", "sleepy", "asleep", "exited"}

\* The caller does not hold the mutex while the reader holds it.
OneHolder ==
  pc["caller"] \in {"cache", "work", "fill", "copy", "direct", "holding"} =>
    pc["reader"] # "sleepy"

\* Who posts a request finds the reader awake or wakes it.
RequestsAreSeen ==
  /\ pc["reader"] \in {"sleepy", "asleep"} => m_requestSize = 0
  /\ m_requestPtr # Null => m_requestSize # 0

\* m_quit is set without the mutex, but its notification comes after the mutex was free.
QuitIsSeen ==
  /\ m_quit <=> pc["caller"] \in {"quit", "notify", "join", "gone"}
  /\ pc["reader"] = "sleepy" /\ m_quit => pc["caller"] = "quit"
  /\ pc["reader"] = "asleep" /\ m_quit => pc["caller"] \in {"quit", "notify"}
  /\ pc["reader"] = "exited" => m_quit

\* A caller that missed the first notification of the reader still gets the second.
EndIsSeen ==
  /\ pc["caller"] \in {"holding", "asleep"} /\ m_requestPtr = Null =>
       pc["reader"] \notin {"check", "sleepy", "asleep", "exited"}
  /\ pc["caller"] = "stopAsleep" => m_running

Waits == Running /\ OneHolder /\ RequestsAreSeen /\ QuitIsSeen /\ EndIsSeen

WInv == TypeFlags /\ TypePlaces /\ Waits

LEMMA MutexFacts ==
  /\ MutexFreeFor("reader") =>
       pc["caller"] \notin {"cache", "work", "fill", "copy", "direct", "holding"}
  /\ MutexFreeFor("caller") => pc["reader"] # "sleepy"
BY DEF MutexFreeFor, HoldsMutex, Threads

LEMMA PostAsks ==
  ASSUME NEW ptr, NEW offset, NEW size, Post(ptr, offset, size)
  PROVE  m_requestSize' # 0
BY DEF Post

LEMMA InitWaits == Init => WInv
<1> SUFFICES ASSUME Init PROVE WInv
    OBVIOUS
<1>1. TypeFlags
    BY Zenon DEF Init, TypeFlags
<1>2. TypePlaces
    BY DEF Init, TypePlaces, Threads, ReaderPCs, CallerPCs
<1>3. /\ pc["reader"] = "check" /\ pc["caller"] = "new" /\ ~m_running /\ ~m_quit
      /\ m_requestPtr = Null
    BY DEF Init, Threads
<1> QED
    BY <1>1, <1>2, <1>3 DEF WInv, Waits, Running, OneHolder, RequestsAreSeen, QuitIsSeen, EndIsSeen

\* The steps of the reader.
LEMMA ReaderWaits ==
  ASSUME WInv, ReaderStep
  PROVE  Waits'
<1>1. /\ TypePlaces /\ Waits
      /\ m_running \in BOOLEAN /\ m_quit \in BOOLEAN
    BY DEF WInv, TypeFlags
<1> USE <1>1, MoveFacts, MutexFacts
        DEF Waits, Running, OneHolder, RequestsAreSeen, QuitIsSeen, EndIsSeen
<1>2. CASE CheckSleep \/ Sleep \/ Exit
    BY <1>2 DEF CheckSleep, Sleep, Exit, request
<1>3. CASE Take
  <2>1. /\ pc["reader"] \in {"check", "retake"} /\ pc'["reader"] \in {"publish", "work"}
        /\ pc'["caller"] = pc["caller"]
      BY <1>3 DEF Take, TypePlaces, Threads
  <2> QED
      BY <1>3, <2>1 DEF Take, request
<1>4. ASSUME Decompressing("reader")
      PROVE  Waits'
  <2>1. /\ pc["reader"] \in {"work", "fill", "copy", "direct"}
        /\ pc'["reader"] \in {"work", "fill", "copy", "direct"}
        /\ pc'["caller"] = pc["caller"]
      BY <1>4 DEF Decompressing, FindBuffer, CopyFromBuffer, StartFill, EndFill, StartDirect,
         EndDirect
  <2>2. UNCHANGED <<m_requestPtr, m_requestSize, m_running, m_quit>>
      BY <1>4 DEF Decompressing, FindBuffer, CopyFromBuffer, StartFill, EndFill, StartDirect,
         EndDirect, request
  <2> QED
      BY <2>1, <2>2
<1>5. CASE Decompressed \/ PublishFails
    BY <1>5 DEF Decompressed, PublishFails, request
<1>6. CASE DecompressFails
  <2>1. pc["reader"] \in {"fill", "copy", "direct"} /\ pc'["reader"] = "publish"
        /\ pc'["caller"] = pc["caller"]
      BY <1>6 DEF DecompressFails, BufferEnds, TypePlaces, Threads
  <2> QED
      BY <1>6, <2>1 DEF DecompressFails, request
<1>7. CASE Publish
  <2>1. /\ pc["reader"] = "publish" /\ pc'["reader"] \in {"ahead", "finish"}
        /\ pc'["caller"] = Notified(pc["caller"], "reader")
      BY <1>7 DEF Publish, TypePlaces, Threads
  <2>2. /\ m_requestPtr' = Null
        /\ UNCHANGED <<m_requestSize, m_running, m_quit>>
      BY <1>7 DEF Publish
  <2> QED
      BY <2>1, <2>2 DEF Notified
<1>8. CASE AheadCached \/ StartAheadFill \/ EndAheadFill \/ StartAppend \/ EndAppend
           \/ NextBlock \/ AheadStops
    BY <1>8 DEF AheadCached, StartAheadFill, EndAheadFill, StartAppend, EndAppend, NextBlock,
       AheadStops, request
<1>9. CASE AheadFails
  <2>1. pc["reader"] \in {"aheadFill", "append"} /\ pc'["reader"] = "finish"
        /\ pc'["caller"] = pc["caller"]
      BY <1>9 DEF AheadFails, TypePlaces, Threads
  <2> QED
      BY <1>9, <2>1 DEF AheadFails, request
<1>10. CASE Finish
  <2>1. /\ pc["reader"] = "finish" /\ pc'["reader"] = "check"
        /\ pc'["caller"] = Notified(pc["caller"], "reader")
        /\ pc["caller"] # "holding"
      BY <1>10, NotifyFacts DEF Finish
  <2>2. /\ m_requestSize' = m_requestSize \/ (m_requestSize' = 0 /\ m_requestPtr = Null)
        /\ m_running' = FALSE /\ UNCHANGED <<m_requestPtr, m_quit>>
      BY <1>10 DEF Finish
  <2> QED
      BY <2>1, <2>2 DEF Notified
<1> QED
    BY <1>2, <1>3, <1>4, <1>5, <1>6, <1>7, <1>8, <1>9, <1>10 DEF ReaderStep, Decompressing

\* The steps of the caller.
LEMMA CallerWaits ==
  ASSUME WInv, CallerStep \/ Calls
  PROVE  Waits'
<1>1. /\ TypePlaces /\ Waits
      /\ m_running \in BOOLEAN /\ m_quit \in BOOLEAN
    BY DEF WInv, TypeFlags
<1> USE <1>1, MoveFacts, MutexFacts
        DEF Waits, Running, OneHolder, RequestsAreSeen, QuitIsSeen, EndIsSeen
<1>2. ASSUME Decompressing("caller")
      PROVE  Waits'
  <2>1. /\ pc["caller"] \in {"work", "fill", "copy", "direct"}
        /\ pc'["caller"] \in {"work", "fill", "copy", "direct"}
        /\ pc'["reader"] = pc["reader"]
      BY <1>2 DEF Decompressing, FindBuffer, CopyFromBuffer, StartFill, EndFill, StartDirect,
         EndDirect
  <2>2. UNCHANGED <<m_requestPtr, m_requestSize, m_running, m_quit>>
      BY <1>2 DEF Decompressing, FindBuffer, CopyFromBuffer, StartFill, EndFill, StartDirect,
         EndDirect, request
  <2> QED
      BY <2>1, <2>2
\* A request or readahead is posted, and the reader is notified.
<1>3. ASSUME NEW from \in {"cache", "work", "fill", "copy", "direct"},
             NEW to \in {"idle", "done", "finish"},
             MovesAndNotifies("caller", from, to), m_requestSize' # 0,
             pc["reader"] # "sleepy", UNCHANGED <<m_running, m_quit>>
      PROVE  Waits'
  <2>1. /\ pc["caller"] = from /\ pc'["caller"] = to
        /\ pc'["reader"] = Notified(pc["reader"], "caller")
      BY <1>3, NotifyFacts
  <2> QED
      BY <1>3, <2>1 DEF Notified
<1>4. CASE SyncDecompressed
    BY <1>4, <1>3, PostAsks, NotifyFacts DEF SyncDecompressed
<1>5. CASE SyncDecompressFails
    BY <1>5, <1>3, PostAsks, NotifyFacts DEF SyncDecompressFails, BufferEnds
<1>6. CASE SeeRequestDone \/ SeeRequestPending \/ WaitForRequest \/ FinishRead \/ CancelRead
    BY <1>6 DEF SeeRequestDone, SeeRequestPending, WaitForRequest, FinishRead, CancelRead, request
<1>7. CASE Close \/ WaitUntilStopped \/ Return \/ CloseFile
    BY <1>7 DEF Close, WaitUntilStopped, Return, CloseFile, request
<1>8. CASE Open
  <2>1. pc["caller"] = "new" /\ pc'["caller"] = "idle" /\ pc'["reader"] = pc["reader"]
      BY <1>8 DEF Open, TypePlaces, Threads
  <2> QED
      BY <1>8, <2>1 DEF Open, request
<1>9. CASE SetQuit \/ PassMutex \/ Join
    BY <1>9 DEF SetQuit, PassMutex, Join, request
<1>10. CASE NotifyQuit
  <2>1. /\ pc["caller"] = "notify" /\ pc'["caller"] = "join"
        /\ pc'["reader"] = Notified(pc["reader"], "caller")
      BY <1>10, NotifyFacts DEF NotifyQuit
  <2> QED
      BY <1>10, <2>1 DEF NotifyQuit, Notified, request
<1>11. ASSUME NEW r \in Reads, BeginRead(r.offset, r.size) \/ ReadSync(r.offset, r.size)
       PROVE  Waits'
  <2>1. /\ Moves("caller", "idle", "cache") /\ MutexFreeFor("caller")
        /\ UNCHANGED <<request, m_running, m_quit>>
      BY <1>11 DEF BeginRead, ReadSync, BeginCall
  <2> QED
      BY <2>1 DEF request
<1>12. CASE CachedRead
  <2>1. UNCHANGED <<request, m_running, m_quit, pc>>
      BY <1>12 DEF CachedRead
  <2> QED
      BY <2>1 DEF request
<1>13. CASE EndBeginRead \/ EndReadSync
  <2>1. pc["reader"] # "sleepy" /\ UNCHANGED <<m_running, m_quit>>
      BY <1>13 DEF EndBeginRead, EndReadSync
  <2>2. \/ UNCHANGED request /\ Moves("caller", "cache", "idle")
        \/ UNCHANGED request /\ Moves("caller", "cache", "done")
        \/ UNCHANGED request /\ Moves("caller", "cache", "work")
        \/ m_requestSize' # 0 /\ MovesAndNotifies("caller", "cache", "idle")
        \/ m_requestSize' # 0 /\ MovesAndNotifies("caller", "cache", "done")
        \/ m_requestSize' # 0 /\ MovesAndNotifies("caller", "cache", "finish")
      BY <1>13, PostAsks DEF EndBeginRead, EndReadSync
  <2>3. ASSUME NEW to \in {"idle", "done", "work"},
               UNCHANGED request, Moves("caller", "cache", to)
        PROVE  Waits'
    <3>1. pc["caller"] = "cache" /\ pc'["caller"] = to /\ pc'["reader"] = pc["reader"]
        BY <2>3
    <3> QED
        BY <2>1, <2>3, <3>1 DEF request
  <2> QED
      BY <2>1, <2>2, <2>3, <1>3
<1> QED
    BY <1>2, <1>4, <1>5, <1>6, <1>7, <1>8, <1>9, <1>10, <1>11, <1>12, <1>13
       DEF CallerStep, Calls, Decompressing

LEMMA NextWaits ==
  ASSUME WInv, [Next]_vars
  PROVE  WInv'
<1>1. TypeFlags' /\ TypePlaces'
    BY NextTypeFlags, NextTypePlaces DEF WInv
<1>2. ASSUME NEW t \in Threads, SpuriousWakeUp(t)
      PROVE  Waits'
  <2>1. /\ TypePlaces /\ Waits
        /\ m_running \in BOOLEAN /\ m_quit \in BOOLEAN
      BY DEF WInv, TypeFlags
  <2>2. \/ /\ pc'["reader"] = Notified(pc["reader"], "caller")
           /\ pc'["caller"] = pc["caller"]
        \/ /\ pc'["caller"] = Notified(pc["caller"], "reader")
           /\ pc'["reader"] = pc["reader"]
      BY <1>2, <2>1 DEF SpuriousWakeUp, Threads, Other, TypePlaces
  <2> QED
      BY <1>2, <2>1, <2>2 DEF SpuriousWakeUp, Notified, Waits, Running, OneHolder,
         RequestsAreSeen, QuitIsSeen, EndIsSeen, request
<1>3. ASSUME UNCHANGED vars
      PROVE  Waits'
  <2>1. UNCHANGED <<m_requestPtr, m_requestSize, m_running, m_quit, pc>> /\ Waits
      BY <1>3 DEF vars, request, WInv
  <2> QED
      BY <2>1 DEF Waits, Running, OneHolder, RequestsAreSeen, QuitIsSeen, EndIsSeen
<1>4. Waits'
  <2>1. \/ ReaderStep \/ CallerStep \/ Calls \/ UNCHANGED vars
        \/ \E t \in Threads : SpuriousWakeUp(t)
      BY Zenon DEF Next, Terminated
  <2> QED
      BY <1>2, <1>3, <2>1, ReaderWaits, CallerWaits
<1> QED
    BY <1>1, <1>4 DEF WInv

\* The reader never sleeps on a request or on m_quit, and a caller that sleeps, in
\* FinishRead, CancelRead or Close, sleeps on a reader that is awake, also if reads overlap.
THEOREM NobodyStaysStuck == Spec => []NobodyIsStuck
<1>1. WInv /\ [Next]_vars => WInv'
    BY NextWaits
<1>2. WInv => NobodyIsStuck
    BY DEF WInv, Waits, Running, RequestsAreSeen, QuitIsSeen, EndIsSeen, NobodyIsStuck
<1> QED
    BY <1>1, <1>2, InitWaits, PTL DEF Spec
=============================================================================
