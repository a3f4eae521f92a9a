------------------------ MODULE WriteBufferedConnection ------------------------
(***************************************************************************)
(* WriteBufferedConnection (src/write_buffered_connection.cpp), from its   *)
(* constructor to its destructor, over a Client that may take any part of  *)
(* what it is offered, or nothing, with or without an error.               *)
(*                                                                         *)
(* The n-th byte that enters the write buffer is the number n, so that a   *)
(* byte lost, repeated or out of order shows in what the client was given. *)
(***************************************************************************)
EXTENDS Naturals, Sequences

CONSTANTS
  write_buffer_limit,  \* size of the write buffer
  MaxWrite,            \* most bytes in one call of write(buf, size)
  MaxBytes             \* bound on the bytes written in all

ASSUME LimitAssumption == write_buffer_limit \in 1 .. 255
ASSUME MaxAssumption == MaxWrite \in Nat /\ MaxBytes \in Nat

VARIABLES
  writeBuffer,  \* the first write_buffer_size_ bytes of write_buffer_
  writeError,   \* getWriteError() # 0
  written,      \* number of bytes that have entered the buffer
  remaining,    \* bytes of the current write(buf, size) not yet copied
  flushed,      \* bytes of the buffer that this FlushInternal has written
  caller,       \* the method that called FlushInternal
  pc,           \* "idle", in a loop of "write" or "flush", "return"ing from
                \* FlushInternal, or "gone" after the destructor
  delivered     \* the bytes client_.write has taken

vars == <<writeBuffer, writeError, written, remaining, flushed, caller, pc,
          delivered>>

Size == Len(writeBuffer)

\* The n bytes that follow the first w ones.
Bytes(w, n) == [i \in 1 .. n |-> w + i]

\* Those of a buffer that follow its first f ones.
Part(buffer, f, n) == SubSeq(buffer, f + 1, f + n)

\* The next n bytes of the caller, copied to the end of the buffer.
Copy(n) ==
  /\ writeBuffer' = writeBuffer \o Bytes(written, n)
  /\ written' = written + n

Init ==
  /\ writeBuffer = <<>>
  /\ writeError = FALSE
  /\ written = 0
  /\ remaining = 0
  /\ flushed = 0
  /\ caller = "none"
  /\ pc = "idle"
  /\ delivered = <<>>

-----------------------------------------------------------------------------

\* Entering FlushInternal, which does nothing after an error.
FlushInternal(method) ==
  /\ caller' = method
  /\ flushed' = 0
  /\ pc' = IF writeError THEN "return" ELSE "flush"

\* Mutant: room is tested one byte too late.
WriteByteOverruns ==
  /\ pc = "idle"
  /\ Size <= write_buffer_limit
  /\ ~writeError
  /\ written < MaxBytes
  /\ Copy(1)
  /\ UNCHANGED <<writeError, remaining, flushed, caller, pc, delivered>>

\* write(uint8_t) with room in the buffer; after an error it does nothing.
WriteByteBuffers ==
  /\ pc = "idle"
  /\ Size < write_buffer_limit
  /\ ~writeError
  /\ written < MaxBytes
  /\ Copy(1)
  /\ UNCHANGED <<writeError, remaining, flushed, caller, pc, delivered>>

\* write(uint8_t) with a full buffer.
WriteByteFlushes ==
  /\ pc = "idle"
  /\ Size >= write_buffer_limit
  /\ written < MaxBytes
  /\ FlushInternal("write byte")
  /\ UNCHANGED <<writeBuffer, writeError, written, remaining, delivered>>

\* write(const uint8_t*, size_t); after an error it returns at once.
WriteStarts(size) ==
  /\ pc = "idle"
  /\ ~writeError
  /\ written + size <= MaxBytes
  /\ remaining' = size
  /\ pc' = "write"
  /\ UNCHANGED <<writeBuffer, writeError, written, flushed, caller, delivered>>

\* Mutant: the room is not limited to what remains.
WriteCopiesTooMuch ==
  /\ pc = "write"
  /\ remaining > 0
  /\ LET room == write_buffer_limit - Size
     IN  /\ room > 0
         /\ Copy(room)
         /\ remaining' = remaining - room
  /\ UNCHANGED <<writeError, flushed, caller, pc, delivered>>

\* One round of its loop: fill the buffer, or flush it if it is full.  (In the
\* code the round that flushes goes on to copy zero bytes.)
WriteCopies ==
  /\ pc = "write"
  /\ remaining > 0
  /\ LET room == write_buffer_limit - Size
         n == IF room > remaining THEN remaining ELSE room
     IN  /\ n > 0
         /\ Copy(n)
         /\ remaining' = remaining - n
  /\ UNCHANGED <<writeError, flushed, caller, pc, delivered>>

WriteFlushes ==
  /\ pc = "write"
  /\ remaining > 0
  /\ Size = write_buffer_limit
  /\ FlushInternal("write")
  /\ UNCHANGED <<writeBuffer, writeError, written, remaining, delivered>>

WriteEnds ==
  /\ pc = "write"
  /\ remaining = 0
  /\ pc' = "idle"
  /\ UNCHANGED <<writeBuffer, writeError, written, remaining, flushed, caller,
                 delivered>>

\* flush(), also called by TcpServerConnection::close and by the destructor.
Flush(method) ==
  /\ pc = "idle"
  /\ Size > 0
  /\ FlushInternal(method)
  /\ UNCHANGED <<writeBuffer, writeError, written, remaining, delivered>>

DestructorWithEmptyBuffer ==
  /\ pc = "idle"
  /\ Size = 0
  /\ pc' = "gone"
  /\ UNCHANGED <<writeBuffer, writeError, written, remaining, flushed, caller,
                 delivered>>

\* Mutant: after a partial write, buf is not advanced.
ClientTakesFromStart(n) ==
  /\ pc = "flush"
  /\ delivered' = delivered \o Part(writeBuffer, 0, n)
  /\ IF flushed + n = Size
     THEN /\ writeBuffer' = <<>>
          /\ flushed' = 0
          /\ pc' = "return"
     ELSE /\ flushed' = flushed + n
          /\ UNCHANGED <<writeBuffer, pc>>
  /\ UNCHANGED <<writeError, written, remaining, caller>>

\* One call of client_.write in FlushInternal, with n bytes taken.
ClientTakes(n) ==
  /\ pc = "flush"
  /\ delivered' = delivered \o Part(writeBuffer, flushed, n)
  /\ IF flushed + n = Size
     THEN /\ writeBuffer' = <<>>
          /\ flushed' = 0
          /\ pc' = "return"
     ELSE /\ flushed' = flushed + n
          /\ UNCHANGED <<writeBuffer, pc>>
  /\ UNCHANGED <<writeError, written, remaining, caller>>

\* None taken: the error is the client's, or kBlockedFlush.  The bytes already
\* taken stay in the buffer.
ClientTakesNothing ==
  /\ pc = "flush"
  /\ writeError' = TRUE
  /\ flushed' = 0
  /\ pc' = "return"
  /\ UNCHANGED <<writeBuffer, written, remaining, caller, delivered>>

\* FlushInternal has returned ~writeError to the method that called it.
ReturnToWriteByte ==
  /\ pc = "return" /\ caller = "write byte"
  /\ IF writeError THEN UNCHANGED <<writeBuffer, written>> ELSE Copy(1)
  /\ pc' = "idle"
  /\ UNCHANGED <<writeError, remaining, flushed, caller, delivered>>

\* Mutant: the result of FlushInternal is ignored.
ReturnToWriteAnyway ==
  /\ pc = "return" /\ caller = "write"
  /\ pc' = "write"
  /\ UNCHANGED <<writeBuffer, writeError, written, remaining, flushed, caller,
                 delivered>>

ReturnToWrite ==
  /\ pc = "return" /\ caller = "write"
  /\ remaining' = IF writeError THEN 0 ELSE remaining
  /\ pc' = IF writeError THEN "idle" ELSE "write"
  /\ UNCHANGED <<writeBuffer, writeError, written, flushed, caller, delivered>>

ReturnToFlush ==
  /\ pc = "return" /\ caller \in {"flush", "destructor"}
  /\ pc' = IF caller = "flush" THEN "idle" ELSE "gone"
  /\ UNCHANGED <<writeBuffer, writeError, written, remaining, flushed, caller,
                 delivered>>

-----------------------------------------------------------------------------

Calls ==
  \/ WriteByteBuffers \/ WriteByteFlushes
  \/ \E size \in 1 .. MaxWrite : WriteStarts(size)
  \/ Flush("flush") \/ Flush("destructor") \/ DestructorWithEmptyBuffer

Steps ==
  \/ WriteCopies \/ WriteFlushes \/ WriteEnds
  \/ (\E n \in 1 .. Size - flushed : ClientTakes(n)) \/ ClientTakesNothing
  \/ ReturnToWriteByte \/ ReturnToWrite \/ ReturnToFlush

Next == Calls \/ Steps

Spec == Init /\ [][Next]_vars

\* A call that has begun goes on.
LiveSpec == Spec /\ WF_vars(Steps)

-----------------------------------------------------------------------------

\* The type of every variable.
TypeOK ==
  /\ writeBuffer \in Seq(Nat)
  /\ writeError \in BOOLEAN
  /\ written \in Nat
  /\ remaining \in Nat
  /\ flushed \in Nat
  /\ caller \in {"none", "write byte", "write", "flush", "destructor"}
  /\ pc \in {"idle", "write", "flush", "return", "gone"}
  /\ delivered \in Seq(Nat)

\* The assertions of write and FlushInternal: the buffer is never overrun, and
\* FlushInternal always has something left to write.
BufferAssertions ==
  /\ Size <= write_buffer_limit
  /\ pc = "flush" => flushed < Size

\* The strengthening behind them: where the bytes that entered the buffer are.
\* The buffer holds the last ones, and what the client was given are the first
\* ones; without an error these two meet where FlushInternal has got to.
StreamInv ==
  /\ Size <= written /\ Len(delivered) <= written
  /\ \A i \in 1 .. Size : writeBuffer[i] = written - Size + i
  /\ \A i \in 1 .. Len(delivered) : delivered[i] = i
  /\ ~writeError => Len(delivered) = written - Size + flushed
  /\ pc \in {"write", "flush"} => ~writeError
  /\ pc # "flush" => flushed = 0
  /\ pc \in {"return", "gone"} /\ ~writeError => Size = 0

Stream == INSTANCE ByteStream WITH
  accepted <- written, failed <- writeError, alive <- pc # "gone"

\* However the client splits or refuses the writes, the peer gets what entered
\* the buffer, each byte once and in order, up to the first error; and unless
\* there was an error, everything by the time the destructor has run.
ImplementsByteStream == Stream!Spec

\* Every call returns, even if the client takes one byte at a time.
CallsReturn == pc \in {"write", "flush", "return"} ~> pc \in {"idle", "gone"}
=============================================================================
