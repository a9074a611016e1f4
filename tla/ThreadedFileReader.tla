------------------------- MODULE ThreadedFileReader -------------------------
(***************************************************************************)
(* ThreadedFileReader (pcsx2/CDVD/ThreadedFileReader.cpp), which decodes   *)
(* compressed disc images (.cso, .chd) on a thread of its own: the caller, *)
(* the one thread that reads the disc, posts a request and collects the    *)
(* result later, and the reader reads ahead into two buffers meanwhile.    *)
(*                                                                         *)
(* The unit of offsets and sizes is a block; chunk boundaries matter only  *)
(* to how a request is cut up.  The data of the file at offset o is o.     *)
(* m_mtx is held within an action, or by the thread HoldsMutex names.      *)
(***************************************************************************)
EXTENDS Integers

CONSTANTS
  FileSize, ChunkSize,  \* blocks of the file and of its compression chunks
  BufferSize,           \* blocks of a buffer: max(chunk.length, MINIMUM_SIZE)
  Reads, MaxRead,       \* what the caller reads, and the bound on its size
  Short,                \* offsets of the chunks that may come short
  Overlapping           \* calls that may come while a read is unfinished

ASSUME ThreadedFileReaderAssumption ==
  /\ FileSize \in Nat \ {0} /\ ChunkSize \in Nat \ {0}
  /\ FileSize % ChunkSize = 0
  /\ BufferSize \in Nat /\ BufferSize >= ChunkSize
  /\ MaxRead \in Nat \ {0}
  /\ Reads \subseteq [offset : 0 .. FileSize - 1, size : 1 .. MaxRead]
  /\ \A r \in Reads : r.offset + r.size <= FileSize
  /\ Short \subseteq 0 .. FileSize - 1
  /\ Overlapping \subseteq {"BeginRead", "ReadSync"}

VARIABLES
  m_requestPtr, m_requestOffset, m_requestSize,  \* the request
  m_running, m_quit,
  m_amtRead,
  m_buffer, m_nextBuffer,  \* the two readahead buffers and whose turn it is
  m_internalBlockSize,     \* whether reads always go through a buffer
  pc, job,                 \* where each thread is, and its call of Decompress
  ahead,                   \* locals of the readahead loop
  memory,                  \* what the caller's buffers hold
  op, read,                \* the call the caller is in, and its locals
  want,                    \* history: the last read into each of its buffers
  begun,                   \* history: a BeginRead was not finished
  erred                    \* history: the reader could not decompress the read

request == <<m_requestPtr, m_requestOffset, m_requestSize>>
buffers == <<m_buffer, m_nextBuffer>>
call    == <<op, read>>
history == <<want, begun, erred>>
vars    == <<request, m_running, m_quit, m_amtRead, buffers,
             m_internalBlockSize, pc, job, ahead, memory, call, history>>

-----------------------------------------------------------------------------
(* The file, the buffers, and where the threads are *)

Threads == {"reader", "caller"}
Targets == {"m_readbuffer", "stack"}   \* of BeginRead2 and of ReadSync
Junk == -1
Data == (0 .. FileSize - 1) \cup {Junk}
Blank == [k \in 0 .. MaxRead - 1 |-> Junk]

Least(a, b) == IF a < b THEN a ELSE b

\* A request; the null pointer is one at position -1.
Null == [target |-> "stack", pos |-> -1]
At(target, pos) == [target |-> target, pos |-> pos]
NoJob == [ptr |-> Null, offset |-> 0, size |-> 0, done |-> 0, buf |-> 0, ok |-> TRUE]
NoRead == [offset |-> 0, size |-> 0, pos |-> 0, end |-> 0, allDone |-> FALSE,
           step |-> 0, bufsize |-> 0]
NoWant == [offset |-> 0, size |-> 0]

\* ChunkForOffset: past the end of the file there is no chunk.
HasChunk(offset) == offset < FileSize
ChunkOffset(offset) == ChunkSize * (offset \div ChunkSize)

\* The buffers GetBlockPtr would find the chunk at o in; it takes the first.
Holding(o) ==
  { i \in 0 .. 1 : /\ m_buffer[i].size > 0
                   /\ m_buffer[i].offset <= o
                   /\ m_buffer[i].offset + m_buffer[i].size >= o + ChunkSize }
Cached(o) == Holding(o) # {}
BlockPtr(o) == IF 0 \in Holding(o) THEN 0 ELSE 1

\* n blocks of src, from its index at on, replace those of mem at pos.
Overwrite(mem, pos, n, src, at) ==
  [k \in 0 .. MaxRead - 1 |->
     IF pos <= k /\ k < pos + n THEN src[at + (k - pos)] ELSE mem[k]]

Write(ptr, n, src, at) ==
  memory' = [memory EXCEPT ![ptr.target] = Overwrite(@, ptr.pos, n, src, at)]

\* Close2 closes the file; what ReadChunk brings after that is not its data.
FileOpen == pc["caller"] \notin {"closed", "quit", "notify", "join", "gone"}
File == [o \in 0 .. FileSize - 1 |-> IF FileOpen THEN o ELSE Junk]
Undefined == [o \in 0 .. FileSize - 1 |-> Junk]

\* What ReadChunk returns for the chunk at o, if it is not an error.
Amounts(o) == IF o \in Short THEN 1 .. ChunkSize ELSE {ChunkSize}

InReadChunk == {"fill", "direct", "aheadFill", "append"}
ReaderPCs == {"check", "sleepy", "asleep", "work", "copy", "publish", "retake",
              "ahead", "loop", "finish", "exited"} \cup InReadChunk
CallerPCs == {"new", "idle", "cache", "work", "fill", "copy", "direct", "finish",
              "lock", "holding", "asleep", "done", "stop", "stopAsleep", "stopped",
              "closed", "quit", "notify", "join", "gone"}

HoldsMutex(t) ==
  IF t = "reader" THEN pc[t] = "sleepy"
  ELSE pc[t] \in {"cache", "work", "fill", "copy", "direct", "holding"}
MutexFreeFor(t) == \A u \in Threads \ {t} : ~HoldsMutex(u)

\* m_condition.notify_one() by t: the other thread, if it waits there.
Notified(p, t) ==
  IF t = "caller"
  THEN IF p = "asleep" THEN "check" ELSE p
  ELSE IF p = "asleep" THEN "lock" ELSE IF p = "stopAsleep" THEN "stop" ELSE p

Other(t) == IF t = "reader" THEN "caller" ELSE "reader"

Moves(t, from, to) == pc[t] = from /\ pc' = [pc EXCEPT ![t] = to]
MovesAndNotifies(t, from, to) ==
  /\ pc[t] = from
  /\ pc' = [pc EXCEPT ![t] = to, ![Other(t)] = Notified(@, t)]

-----------------------------------------------------------------------------
(* Decompress, on the reader or, in ReadSync, on the caller with m_mtx held *)

Here(t) == job[t].offset + job[t].done
Remaining(t) == job[t].size - job[t].done
ThroughBuffer(t) ==
  \/ m_internalBlockSize
  \/ ChunkOffset(Here(t)) # Here(t)
  \/ ChunkSize > Remaining(t)
Ptr(t) == At(job[t].ptr.target, job[t].ptr.pos + job[t].done)

\* GetBlockPtr finds the chunk in a buffer ...
FindBuffer(t) ==
  /\ Moves(t, "work", "copy") /\ Remaining(t) > 0 /\ ThroughBuffer(t)
  /\ Cached(ChunkOffset(Here(t)))
  /\ job' = [job EXCEPT ![t].buf = BlockPtr(ChunkOffset(Here(t)))]
  /\ m_nextBuffer' = 1 - BlockPtr(ChunkOffset(Here(t)))
  /\ UNCHANGED <<request, m_running, m_quit, m_amtRead, m_buffer,
                 m_internalBlockSize, ahead, memory, call, history>>

\* ... or it takes the next buffer, which nobody may read from now on, and calls
\* ReadChunk without the mutex (the caller keeps it).
TakeBuffer ==
  m_buffer' = [m_buffer EXCEPT ![m_nextBuffer] =
    [offset |-> @.offset, size |-> 0, data |-> [k \in 0 .. BufferSize - 1 |-> Junk]]]

StartFill(t) ==
  /\ Moves(t, "work", "fill") /\ Remaining(t) > 0 /\ ThroughBuffer(t)
  /\ ~Cached(ChunkOffset(Here(t)))
  /\ MutexFreeFor(t)
  /\ TakeBuffer
  /\ UNCHANGED <<request, m_running, m_quit, m_amtRead, m_nextBuffer,
                 m_internalBlockSize, job, ahead, memory, call, history>>

\* ReadChunk brought n blocks of the chunk at o, and the other buffer is next.
FilledWith(o, n) ==
  /\ m_buffer' = [m_buffer EXCEPT ![m_nextBuffer] =
       [offset |-> o, size |-> n,
        data |-> [k \in 0 .. BufferSize - 1 |-> IF k < n THEN File[o + k] ELSE Junk]]]
  /\ m_nextBuffer' = 1 - m_nextBuffer

EndFill(t) ==
  /\ Moves(t, "fill", "copy")
  /\ \E n \in Amounts(ChunkOffset(Here(t))) : FilledWith(ChunkOffset(Here(t)), n)
  /\ job' = [job EXCEPT ![t].buf = m_nextBuffer]
  /\ UNCHANGED <<request, m_running, m_quit, m_amtRead, m_internalBlockSize,
                 ahead, memory, call, history>>

\* What is wanted of the buffer is copied, if the buffer reaches so far: the chunk may
\* have come short, and Close may have emptied the buffer.
Offset(t) == Here(t) - m_buffer[job[t].buf].offset
BufferEnds(t) == pc[t] = "copy" /\ m_buffer[job[t].buf].size <= Offset(t)

CopyFromBuffer(t) ==
  /\ Moves(t, "copy", "work") /\ ~BufferEnds(t)
  /\ LET b == m_buffer[job[t].buf]
         len == Least(b.size - Offset(t), Remaining(t))
     IN /\ Write(Ptr(t), len, b.data, Offset(t))
        /\ job' = [job EXCEPT ![t].done = @ + len, ![t].buf = 0]
  /\ UNCHANGED <<request, m_running, m_quit, m_amtRead, buffers,
                 m_internalBlockSize, ahead, call, history>>

\* A chunk that is wanted whole goes straight to where it is wanted.
StartDirect(t) ==
  /\ Moves(t, "work", "direct") /\ Remaining(t) > 0 /\ ~ThroughBuffer(t)
  /\ Write(Ptr(t), ChunkSize, Undefined, Here(t))
  /\ UNCHANGED <<request, m_running, m_quit, m_amtRead, buffers,
                 m_internalBlockSize, job, ahead, call, history>>

EndDirect(t) ==
  /\ Moves(t, "direct", "work")
  /\ Write(Ptr(t), ChunkSize, File, Here(t))
  /\ job' = [job EXCEPT ![t].done = @ + ChunkSize]
  /\ UNCHANGED <<request, m_running, m_quit, m_amtRead, buffers,
                 m_internalBlockSize, ahead, call, history>>

-----------------------------------------------------------------------------
(* The reader: Loop *)

\* while (!m_requestSize && !m_quit): seen under the mutex, which is kept until
\* the wait; m_quit is written without it.
CheckSleep ==
  /\ Moves("reader", "check", "sleepy")
  /\ MutexFreeFor("reader")
  /\ m_requestSize = 0 /\ ~m_quit
  /\ UNCHANGED <<request, m_running, m_quit, m_amtRead, buffers,
                 m_internalBlockSize, job, ahead, memory, call, history>>

Sleep ==
  /\ Moves("reader", "sleepy", "asleep")
  /\ UNCHANGED <<request, m_running, m_quit, m_amtRead, buffers,
                 m_internalBlockSize, job, ahead, memory, call, history>>

Exit ==
  /\ Moves("reader", "check", "exited")
  /\ MutexFreeFor("reader")
  /\ m_quit
  /\ UNCHANGED <<request, m_running, m_quit, m_amtRead, buffers,
                 m_internalBlockSize, job, ahead, memory, call, history>>

\* A request is copied, at first or after the exchange failed.
Take ==
  /\ MutexFreeFor("reader")
  /\ \/ pc["reader"] = "check" /\ m_requestSize > 0 /\ ~m_quit
     \/ pc["reader"] = "retake"
  /\ m_running' = TRUE
  /\ job' = [job EXCEPT !["reader"] =
               [ptr |-> m_requestPtr, offset |-> m_requestOffset,
                size |-> m_requestSize, done |-> 0, buf |-> 0, ok |-> @.ok]]
  /\ pc' = [pc EXCEPT !["reader"] = IF m_requestPtr = Null THEN "publish" ELSE "work"]
  /\ UNCHANGED <<request, m_quit, m_amtRead, buffers, m_internalBlockSize,
                 ahead, memory, call, history>>

\* Decompress returns true ...
Decompressed ==
  /\ Moves("reader", "work", "publish")
  /\ Remaining("reader") = 0
  /\ m_amtRead' = m_amtRead + job["reader"].size
  /\ job' = [job EXCEPT !["reader"].ok = TRUE]
  /\ UNCHANGED <<request, m_running, m_quit, buffers, m_internalBlockSize,
                 ahead, memory, call, history>>

\* ... or false, because ReadChunk failed or brought too little.
DecompressFails ==
  /\ pc["reader"] \in {"fill", "direct"} \/ BufferEnds("reader")
  /\ pc' = [pc EXCEPT !["reader"] = "publish"]
  /\ job' = [job EXCEPT !["reader"].ok = FALSE]
  /\ erred' = TRUE
  /\ UNCHANGED <<request, m_running, m_quit, m_amtRead, buffers,
                 m_internalBlockSize, ahead, memory, call, want, begun>>

\* (With a bug: readahead does not count as running.)
PublishIdle ==
  /\ pc["reader"] = "publish"
  /\ m_requestPtr = job["reader"].ptr
  /\ m_requestPtr' = Null
  /\ m_running' = FALSE
  /\ pc' = [pc EXCEPT !["reader"] = IF job["reader"].ok THEN "ahead" ELSE "finish",
                      !["caller"] = Notified(@, "reader")]
  /\ ahead' = [ahead EXCEPT !.offset = job["reader"].offset + job["reader"].size]
  /\ UNCHANGED <<m_requestOffset, m_requestSize, m_quit, m_amtRead,
                 buffers, m_internalBlockSize, job, memory, call, history>>

\* The request is done, unless the exchange finds another one; readahead begins
\* where the request ended.
Publish ==
  /\ pc["reader"] = "publish"
  /\ m_requestPtr = job["reader"].ptr
  /\ m_requestPtr' = Null
  /\ pc' = [pc EXCEPT !["reader"] = IF job["reader"].ok THEN "ahead" ELSE "finish",
                      !["caller"] = Notified(@, "reader")]
  /\ ahead' = [ahead EXCEPT !.offset = job["reader"].offset + job["reader"].size]
  /\ UNCHANGED <<m_requestOffset, m_requestSize, m_running, m_quit, m_amtRead,
                 buffers, m_internalBlockSize, job, memory, call, history>>

PublishFails ==
  /\ Moves("reader", "publish", "retake")
  /\ m_requestPtr # job["reader"].ptr
  /\ UNCHANGED <<request, m_running, m_quit, m_amtRead, buffers,
                 m_internalBlockSize, job, ahead, memory, call, history>>

\* Readahead: GetBlockPtr finds the chunk, or reads it into the next buffer.
AheadCached ==
  /\ Moves("reader", "ahead", "loop")
  /\ HasChunk(ahead.offset) /\ Cached(ChunkOffset(ahead.offset))
  /\ ahead' = [ahead EXCEPT !.buf = BlockPtr(ChunkOffset(ahead.offset))]
  /\ m_nextBuffer' = 1 - ahead'.buf
  /\ UNCHANGED <<request, m_running, m_quit, m_amtRead, m_buffer,
                 m_internalBlockSize, job, memory, call, history>>

\* (With a bug: the buffer is taken without the mutex.)
StartAheadFillUnlocked ==
  /\ Moves("reader", "ahead", "aheadFill")
  /\ HasChunk(ahead.offset) /\ ~Cached(ChunkOffset(ahead.offset))
  /\ TakeBuffer
  /\ UNCHANGED <<request, m_running, m_quit, m_amtRead, m_nextBuffer,
                 m_internalBlockSize, job, ahead, memory, call, history>>

StartAheadFill ==
  /\ Moves("reader", "ahead", "aheadFill")
  /\ HasChunk(ahead.offset) /\ ~Cached(ChunkOffset(ahead.offset))
  /\ MutexFreeFor("reader")
  /\ TakeBuffer
  /\ UNCHANGED <<request, m_running, m_quit, m_amtRead, m_nextBuffer,
                 m_internalBlockSize, job, ahead, memory, call, history>>

EndAheadFill ==
  /\ Moves("reader", "aheadFill", "loop")
  /\ \E n \in Amounts(ChunkOffset(ahead.offset)) : FilledWith(ChunkOffset(ahead.offset), n)
  /\ ahead' = [ahead EXCEPT !.buf = m_nextBuffer]
  /\ UNCHANGED <<request, m_running, m_quit, m_amtRead, m_internalBlockSize,
                 job, memory, call, history>>

\* while (buf && !m_requestPtr): the next chunk, behind the last one in the buffer
\* if it belongs and fits there ...
AheadEnd == m_buffer[ahead.buf].offset + m_buffer[ahead.buf].size

FitsBehind == /\ ChunkOffset(AheadEnd) = AheadEnd
              /\ m_buffer[ahead.buf].size + ChunkSize <= BufferSize

\* (With a bug: the size says that the chunk is there before it is.)
StartAppendEarly ==
  /\ Moves("reader", "loop", "append")
  /\ m_requestPtr = Null
  /\ HasChunk(AheadEnd) /\ FitsBehind
  /\ ahead' = [ahead EXCEPT !.offset = AheadEnd]
  /\ m_buffer' = [m_buffer EXCEPT ![ahead.buf].size = @ + ChunkSize]
  /\ UNCHANGED <<request, m_running, m_quit, m_amtRead, m_nextBuffer,
                 m_internalBlockSize, job, memory, call, history>>

StartAppend ==
  /\ Moves("reader", "loop", "append")
  /\ m_requestPtr = Null
  /\ HasChunk(AheadEnd) /\ FitsBehind
  /\ ahead' = [ahead EXCEPT !.offset = AheadEnd]
  /\ UNCHANGED <<request, m_running, m_quit, m_amtRead, buffers,
                 m_internalBlockSize, job, memory, call, history>>

\* ... at the size the buffer had (Close may have emptied it since).
EndAppend ==
  /\ Moves("reader", "append", "loop")
  /\ \E n \in Amounts(ahead.offset) :
       LET b == m_buffer[ahead.buf]
           bufsize == ahead.offset - b.offset
       IN m_buffer' = [m_buffer EXCEPT ![ahead.buf] =
            [offset |-> b.offset, size |-> bufsize + n,
             data |-> [k \in 0 .. BufferSize - 1 |->
                         IF bufsize <= k /\ k < bufsize + n
                         THEN File[b.offset + k] ELSE b.data[k]]]]
  /\ UNCHANGED <<request, m_running, m_quit, m_amtRead, m_nextBuffer,
                 m_internalBlockSize, job, ahead, memory, call, history>>

\* ... and otherwise in the other buffer, once.
NextBlock ==
  /\ Moves("reader", "loop", "ahead")
  /\ m_requestPtr = Null
  /\ HasChunk(AheadEnd) /\ ~FitsBehind
  /\ ahead.filled = 0
  /\ ahead' = [offset |-> AheadEnd, buf |-> 0, filled |-> 1]
  /\ UNCHANGED <<request, m_running, m_quit, m_amtRead, buffers,
                 m_internalBlockSize, job, memory, call, history>>

\* Readahead is over: a new request, the end of the file, two buffers filled ...
AheadStops ==
  /\ \/ Moves("reader", "ahead", "finish") /\ ~HasChunk(ahead.offset)
     \/ /\ Moves("reader", "loop", "finish")
        /\ \/ m_requestPtr # Null
           \/ ~HasChunk(AheadEnd)
           \/ ~FitsBehind /\ ahead.filled = 1
  /\ UNCHANGED <<request, m_running, m_quit, m_amtRead, buffers,
                 m_internalBlockSize, job, ahead, memory, call, history>>

\* ... or an error.
AheadFails ==
  /\ pc["reader"] \in {"aheadFill", "append"}
  /\ pc' = [pc EXCEPT !["reader"] = "finish"]
  /\ UNCHANGED <<request, m_running, m_quit, m_amtRead, buffers,
                 m_internalBlockSize, job, ahead, memory, call, history>>

\* (With a bug: whoever still waits is not notified.)
FinishSilently ==
  /\ Moves("reader", "finish", "check")
  /\ MutexFreeFor("reader")
  /\ m_requestSize' = IF /\ job["reader"].size = m_requestSize
                         /\ job["reader"].offset = m_requestOffset
                         /\ m_requestPtr = Null
                      THEN 0 ELSE m_requestSize
  /\ m_running' = FALSE
  /\ job' = [job EXCEPT !["reader"] = NoJob]
  /\ ahead' = [offset |-> 0, buf |-> 0, filled |-> 0]
  /\ UNCHANGED <<m_requestPtr, m_requestOffset, m_quit, m_amtRead, buffers,
                 m_internalBlockSize, memory, call, history>>

\* "If no one's added more work, mark this one as done."
Finish ==
  /\ MovesAndNotifies("reader", "finish", "check")
  /\ MutexFreeFor("reader")
  /\ m_requestSize' = IF /\ job["reader"].size = m_requestSize
                         /\ job["reader"].offset = m_requestOffset
                         /\ m_requestPtr = Null
                      THEN 0 ELSE m_requestSize
  /\ m_running' = FALSE
  /\ job' = [job EXCEPT !["reader"] = NoJob]
  /\ ahead' = [offset |-> 0, buf |-> 0, filled |-> 0]
  /\ UNCHANGED <<m_requestPtr, m_requestOffset, m_quit, m_amtRead, buffers,
                 m_internalBlockSize, memory, call, history>>

ReaderStep ==
  \/ CheckSleep \/ Sleep \/ Exit \/ Take
  \/ FindBuffer("reader") \/ StartFill("reader") \/ EndFill("reader")
  \/ CopyFromBuffer("reader") \/ StartDirect("reader") \/ EndDirect("reader")
  \/ Decompressed \/ DecompressFails
  \/ Publish \/ PublishFails
  \/ AheadCached \/ StartAheadFill \/ EndAheadFill
  \/ StartAppend \/ EndAppend \/ NextBlock \/ AheadStops \/ AheadFails
  \/ Finish

-----------------------------------------------------------------------------
(* The caller *)

\* BeginRead and ReadSync take the mutex and look at the size of the first buffer.
BeginCall(name, target, offset, size) ==
  /\ Moves("caller", "idle", "cache")
  /\ MutexFreeFor("caller")
  /\ begun => name \in Overlapping
  /\ op' = name
  /\ read' = [offset |-> offset, size |-> size, pos |-> 0, end |-> 0, allDone |-> FALSE,
              step |-> 0, bufsize |-> m_buffer[0].size]
  /\ m_amtRead' = 0
  /\ want' = [want EXCEPT ![target] = [offset |-> offset, size |-> size]]
  /\ begun' = (begun \/ name = "BeginRead")
  /\ erred' = FALSE
  /\ UNCHANGED <<request, m_running, m_quit, buffers, m_internalBlockSize,
                 job, ahead, memory>>

BeginRead(offset, size) == BeginCall("BeginRead", "m_readbuffer", offset, size)
ReadSync(offset, size) == BeginCall("ReadSync", "stack", offset, size)

\* The memory of the call the caller is in.
Wanted == IF op = "ReadSync" THEN "stack" ELSE "m_readbuffer"

\* TryCachedRead goes over the two buffers twice.  A step copies what the buffer has
\* of the read, as far as its size reached when it was looked at, and looks at the
\* next one.  A buffer that begins where the read ends makes any request unnecessary,
\* also one for readahead.
InBuffer(b) == b.offset <= read.offset /\ read.offset < b.offset + read.bufsize
CopySize(b) ==
  IF InBuffer(b) THEN Least(read.size, b.offset + read.bufsize - read.offset) ELSE 0
CopyEnd(b) ==
  IF InBuffer(b) /\ CopySize(b) = read.size THEN b.offset + read.bufsize ELSE read.end

CachedRead ==
  /\ pc["caller"] = "cache" /\ read.step < 4
  /\ LET b == m_buffer[read.step % 2]
         n == CopySize(b)
         next == (read.step + 1) % 2
     IN /\ Write(At(Wanted, read.pos), n, b.data, read.offset - b.offset)
        /\ m_amtRead' = m_amtRead + n
        /\ read' = [offset |-> read.offset + n, size |-> read.size - n,
                    pos |-> read.pos + n, end |-> CopyEnd(b),
                    allDone |-> read.allDone \/ (/\ read.bufsize > 0
                                                 /\ CopyEnd(b) > 0 /\ b.offset = CopyEnd(b)),
                    step |-> read.step + 1, bufsize |-> m_buffer[next].size]
  /\ UNCHANGED <<request, m_running, m_quit, buffers, m_internalBlockSize, pc,
                 job, ahead, op, history>>

\* (With a bug: readahead is asked for at the end of the request, not in it.)
PostBehind(ptr, offset, size) ==
  /\ m_requestPtr' = IF size = 0 THEN Null ELSE ptr
  /\ m_requestOffset' = offset
  /\ m_requestSize' = IF size = 0 THEN 1 ELSE size

\* The end of BeginRead and ReadSync: what is left is posted, or readahead.
Post(ptr, offset, size) ==
  /\ m_requestPtr' = IF size = 0 THEN Null ELSE ptr
  /\ m_requestOffset' = IF size = 0 THEN offset - 1 ELSE offset
  /\ m_requestSize' = IF size = 0 THEN 1 ELSE size

EndBeginRead ==
  /\ pc["caller"] = "cache" /\ read.step = 4 /\ op = "BeginRead"
  /\ IF read.allDone
     THEN Moves("caller", "cache", "idle") /\ UNCHANGED request
     ELSE /\ Post(At("m_readbuffer", read.pos), read.offset, read.size)
          /\ MovesAndNotifies("caller", "cache", "idle")
  /\ op' = "none" /\ read' = NoRead
  /\ UNCHANGED <<m_running, m_quit, m_amtRead, buffers, m_internalBlockSize, job,
                 ahead, memory, history>>

\* ReadSync: "Don't wait for read thread to start back up."
EndReadSync ==
  /\ pc["caller"] = "cache" /\ read.step = 4 /\ op = "ReadSync"
  /\ LET ptr == At("stack", read.pos) IN
     \/ /\ read.allDone
        /\ Moves("caller", "cache", "done")
        /\ UNCHANGED <<request, job>>
     \/ /\ ~read.allDone /\ read.size > 0 /\ ~m_running
        /\ Moves("caller", "cache", "work")
        /\ job' = [job EXCEPT !["caller"] =
                     [ptr |-> ptr, offset |-> read.offset, size |-> read.size,
                      done |-> 0, buf |-> 0, ok |-> TRUE]]
        /\ UNCHANGED request
     \/ /\ ~read.allDone /\ (read.size = 0 \/ m_running)
        /\ Post(ptr, read.offset, read.size)
        /\ MovesAndNotifies("caller", "cache", IF read.size = 0 THEN "done" ELSE "finish")
        /\ UNCHANGED job
  /\ read' = NoRead
  /\ UNCHANGED <<m_running, m_quit, m_amtRead, buffers, m_internalBlockSize,
                 ahead, memory, op, history>>

\* ReadSync's own Decompress is done, and asks for readahead ...
SyncDecompressed ==
  /\ MovesAndNotifies("caller", "work", "done")
  /\ Remaining("caller") = 0
  /\ m_amtRead' = m_amtRead + job["caller"].size
  /\ Post(Null, Here("caller"), 0)
  /\ job' = [job EXCEPT !["caller"] = NoJob]
  /\ UNCHANGED <<m_running, m_quit, buffers, m_internalBlockSize, ahead, memory,
                 call, history>>

\* ... or it failed, and the reader shall try.
SyncDecompressFails ==
  /\ pc["caller"] \in {"fill", "direct"} \/ BufferEnds("caller")
  /\ MovesAndNotifies("caller", pc["caller"], "finish")
  /\ Post(job["caller"].ptr, job["caller"].offset, job["caller"].size)
  /\ job' = [job EXCEPT !["caller"] = NoJob]
  /\ UNCHANGED <<m_running, m_quit, m_amtRead, buffers, m_internalBlockSize,
                 ahead, memory, call, history>>

FinishRead ==
  /\ Moves("caller", "idle", "finish")
  /\ op' = "FinishRead"
  /\ UNCHANGED <<request, m_running, m_quit, m_amtRead, buffers,
                 m_internalBlockSize, job, ahead, memory, read, history>>

CancelRead ==
  /\ Moves("caller", "idle", "finish")
  /\ op' = "CancelRead"
  /\ UNCHANGED <<request, m_running, m_quit, m_amtRead, buffers,
                 m_internalBlockSize, job, ahead, memory, read, history>>

\* if (m_requestPtr == nullptr) return, without the mutex and then with it.
SeeRequestDone ==
  /\ \/ Moves("caller", "finish", "done")
     \/ Moves("caller", "lock", "done") /\ MutexFreeFor("caller")
  /\ m_requestPtr = Null
  /\ UNCHANGED <<request, m_running, m_quit, m_amtRead, buffers,
                 m_internalBlockSize, job, ahead, memory, call, history>>

SeeRequestPending ==
  /\ \/ Moves("caller", "finish", "lock")
     \/ Moves("caller", "lock", "holding") /\ MutexFreeFor("caller")
  /\ m_requestPtr # Null
  /\ UNCHANGED <<request, m_running, m_quit, m_amtRead, buffers,
                 m_internalBlockSize, job, ahead, memory, call, history>>

\* m_condition.wait(lock): the mutex is released as the wait begins.
WaitForRequest ==
  /\ Moves("caller", "holding", "asleep")
  /\ UNCHANGED <<request, m_running, m_quit, m_amtRead, buffers,
                 m_internalBlockSize, job, ahead, memory, call, history>>

\* The call returns; whoever finished or cancelled has collected the read begun.
Return ==
  /\ Moves("caller", "done", "idle")
  /\ op' = "none"
  /\ want' = [want EXCEPT ![Wanted] = NoWant]
  /\ memory' = [memory EXCEPT ![Wanted] = Blank]
  /\ begun' = (begun /\ op = "ReadSync")
  /\ UNCHANGED <<request, m_running, m_quit, m_amtRead, buffers,
                 m_internalBlockSize, job, ahead, read, erred>>

\* Open, Close and the end of the object.  CancelAndWaitUntilStopped waits while
\* m_running, which changes under the mutex only: check and wait are one step.
Open ==
  /\ pc["caller"] = "new"
  /\ MutexFreeFor("caller") /\ ~m_running
  /\ pc' = [pc EXCEPT !["caller"] = "idle"]
  /\ UNCHANGED <<request, m_running, m_quit, m_amtRead, buffers,
                 m_internalBlockSize, job, ahead, memory, call, history>>

Close ==
  /\ Moves("caller", "idle", "stop") \/ Moves("caller", "new", "stop")
  /\ UNCHANGED <<request, m_running, m_quit, m_amtRead, buffers,
                 m_internalBlockSize, job, ahead, memory, call, history>>

WaitUntilStopped ==
  /\ MutexFreeFor("caller")
  /\ \/ Moves("caller", "stop", "stopped") /\ ~m_running
     \/ Moves("caller", "stop", "stopAsleep") /\ m_running
  /\ UNCHANGED <<request, m_running, m_quit, m_amtRead, buffers,
                 m_internalBlockSize, job, ahead, memory, call, history>>

\* The buffers are emptied, and Close2 closes the file; the mutex is not held.
CloseFile ==
  /\ Moves("caller", "stopped", "closed")
  /\ m_buffer' = [i \in 0 .. 1 |-> [m_buffer[i] EXCEPT !.size = 0]]
  /\ UNCHANGED <<request, m_running, m_quit, m_amtRead, m_nextBuffer,
                 m_internalBlockSize, job, ahead, memory, call, history>>

\* ~ThreadedFileReader: m_quit is set without the mutex, which is then taken and
\* released before the notification.
SetQuit ==
  /\ Moves("caller", "closed", "quit")
  /\ m_quit' = TRUE
  /\ UNCHANGED <<request, m_running, m_amtRead, buffers, m_internalBlockSize,
                 job, ahead, memory, call, history>>

\* (With a bug: the mutex is not taken.)
SkipMutex ==
  /\ Moves("caller", "quit", "notify")
  /\ UNCHANGED <<request, m_running, m_quit, m_amtRead, buffers,
                 m_internalBlockSize, job, ahead, memory, call, history>>

PassMutex ==
  /\ Moves("caller", "quit", "notify")
  /\ MutexFreeFor("caller")
  /\ UNCHANGED <<request, m_running, m_quit, m_amtRead, buffers,
                 m_internalBlockSize, job, ahead, memory, call, history>>

NotifyQuit ==
  /\ MovesAndNotifies("caller", "notify", "join")
  /\ UNCHANGED <<request, m_running, m_quit, m_amtRead, buffers,
                 m_internalBlockSize, job, ahead, memory, call, history>>

Join ==
  /\ Moves("caller", "join", "gone")
  /\ pc["reader"] = "exited"
  /\ UNCHANGED <<request, m_running, m_quit, m_amtRead, buffers,
                 m_internalBlockSize, job, ahead, memory, call, history>>

\* A condition variable may wake without a notification.
SpuriousWakeUp(t) ==
  /\ Notified(pc[t], Other(t)) # pc[t]
  /\ pc' = [pc EXCEPT ![t] = Notified(@, Other(t))]
  /\ UNCHANGED <<request, m_running, m_quit, m_amtRead, buffers,
                 m_internalBlockSize, job, ahead, memory, call, history>>

-----------------------------------------------------------------------------
Init ==
  /\ m_requestPtr = Null /\ m_requestOffset = 0 /\ m_requestSize = 0
  /\ m_running = FALSE /\ m_quit = FALSE
  /\ m_amtRead = 0
  /\ m_buffer = [i \in 0 .. 1 |->
       [offset |-> 0, size |-> 0, data |-> [k \in 0 .. BufferSize - 1 |-> Junk]]]
  /\ m_nextBuffer = 0
  /\ m_internalBlockSize \in BOOLEAN
  /\ pc = [t \in Threads |-> IF t = "reader" THEN "check" ELSE "new"]
  /\ job = [t \in Threads |-> NoJob]
  /\ ahead = [offset |-> 0, buf |-> 0, filled |-> 0]
  /\ memory = [target \in Targets |-> Blank]
  /\ op = "none" /\ read = NoRead
  /\ want = [target \in Targets |-> NoWant]
  /\ begun = FALSE /\ erred = FALSE

\* What the caller has to do once it is in a call.
CallerStep ==
  \/ CachedRead \/ EndBeginRead \/ EndReadSync
  \/ FindBuffer("caller") \/ StartFill("caller") \/ EndFill("caller")
  \/ CopyFromBuffer("caller") \/ StartDirect("caller") \/ EndDirect("caller")
  \/ SyncDecompressed \/ SyncDecompressFails
  \/ SeeRequestDone \/ SeeRequestPending \/ WaitForRequest \/ Return
  \/ WaitUntilStopped \/ CloseFile \/ SetQuit \/ PassMutex \/ NotifyQuit \/ Join

Calls ==
  \/ \E r \in Reads : BeginRead(r.offset, r.size) \/ ReadSync(r.offset, r.size)
  \/ FinishRead \/ CancelRead
  \/ Open \/ Close

Terminated == pc["caller"] = "gone" /\ UNCHANGED vars

Next ==
  \/ ReaderStep
  \/ CallerStep
  \/ Calls
  \/ \E t \in Threads : SpuriousWakeUp(t)
  \/ Terminated

\* Both threads run when they can, ReadChunk ends, and a thread that finds the mutex
\* free again and again gets it (strong fairness: a condition variable that keeps
\* waking for nothing does not shut the other thread out).  Nobody has to call, and
\* no condition variable has to wake without being notified.
Fairness == SF_vars(ReaderStep) /\ SF_vars(CallerStep)

Spec == Init /\ [][Next]_vars
FairSpec == Spec /\ Fairness

-----------------------------------------------------------------------------
(* What it promises *)

TypeOK ==
  /\ m_requestPtr \in [target : Targets, pos : -1 .. MaxRead - 1]
  /\ m_requestOffset \in 0 .. FileSize - 1 /\ m_requestSize \in 0 .. MaxRead
  /\ m_running \in BOOLEAN /\ m_quit \in BOOLEAN
  /\ m_amtRead \in Nat
  /\ m_buffer \in [0 .. 1 -> [offset : 0 .. FileSize - 1, size : 0 .. BufferSize,
                              data : [0 .. BufferSize - 1 -> Data]]]
  /\ m_nextBuffer \in 0 .. 1
  /\ m_internalBlockSize \in BOOLEAN
  /\ pc \in [Threads -> ReaderPCs \cup CallerPCs]
  /\ pc["reader"] \in ReaderPCs /\ pc["caller"] \in CallerPCs
  /\ job \in [Threads -> [ptr : [target : Targets, pos : -1 .. MaxRead - 1],
                          offset : 0 .. FileSize - 1, size : 0 .. MaxRead,
                          done : 0 .. MaxRead, buf : 0 .. 1, ok : BOOLEAN]]
  /\ ahead \in [offset : 0 .. FileSize, buf : 0 .. 1, filled : 0 .. 1]
  /\ memory \in [Targets -> [0 .. MaxRead - 1 -> Data]]
  /\ op \in {"none", "BeginRead", "ReadSync", "FinishRead", "CancelRead"}
  /\ read \in [offset : 0 .. FileSize, size : 0 .. MaxRead, pos : 0 .. MaxRead,
               end : Nat, allDone : BOOLEAN, step : 0 .. 4,
               bufsize : 0 .. BufferSize]
  /\ want \in [Targets -> [offset : 0 .. FileSize - 1, size : 0 .. MaxRead]]
  /\ begun \in BOOLEAN /\ erred \in BOOLEAN

\* What a buffer's size counts is data of the file: ReadChunk never writes where a
\* thread with the mutex may read (GetBlockPtr empties the buffer first, readahead
\* writes behind the valid blocks and raises the size afterwards).
BuffersTrue ==
  FileOpen => \A i \in 0 .. 1 : \A k \in 0 .. m_buffer[i].size - 1 :
                m_buffer[i].data[k] = m_buffer[i].offset + k

\* "If false, you may touch decompression functions from other threads": while the
\* reader is in ReadChunk, the caller does not decompress.
ReaderAlone ==
  pc["reader"] \in InReadChunk =>
    pc["caller"] \notin {"work", "copy"} \cup InReadChunk

\* (Violated by Close right after a call that asked for readahead: "Cancel any inflight
\* read and wait until the thread is no longer doing anything".  The reader has not
\* taken the request yet, does not count as running, and decompresses while the file
\* is closed and its memory is freed.)
ReaderStopped ==
  pc["caller"] \in {"stopped", "closed", "quit", "notify", "join", "gone"} =>
    pc["reader"] \notin InReadChunk

Collected == pc["caller"] = "done" /\ op # "CancelRead" /\ (op = "FinishRead" => begun)

\* If the call says that it read everything, the memory holds what was asked for.
Intact ==
  m_amtRead = want[Wanted].size =>
    \A k \in 0 .. want[Wanted].size - 1 :
      memory[Wanted][k] = want[Wanted].offset + k

\* A read brings what it asked for, from the buffers, from the reader or from both
\* in parts: all of it unless the reader failed too, and nothing else.
ReadsDeliver == Collected => Intact /\ (erred \/ m_amtRead = want[Wanted].size)

\* (Violated by a BeginRead that follows another: "another request can come in,
\* after we release the lock, but before we store null [...] So, we do a
\* compare-exchange instead, to detect when this happens, and if so, reload all the
\* inputs and try again"; it cannot tell two requests for the same memory apart.)
OverlapDetected == Collected => Intact

\* No notification of the condition variable is lost for good: the reader does not sleep
\* on a request, nor on m_quit once the destructor has notified it, and a caller that
\* sleeps, in FinishRead, CancelRead or Close, has a reader that is still to notify it.
NobodyIsStuck ==
  /\ pc["reader"] = "asleep" =>
       m_requestSize = 0 /\ (m_quit => pc["caller"] \in {"quit", "notify"})
  /\ pc["caller"] \in {"asleep", "stopAsleep"} =>
       pc["reader"] \notin {"sleepy", "asleep", "exited"}

\* Every call returns, also Close and the destructor, and a reader that fell asleep
\* as m_quit was set is woken.
CallsReturn == pc["caller"] \notin {"new", "idle", "gone"} ~> pc["caller"] \in {"idle", "gone"}
=============================================================================
