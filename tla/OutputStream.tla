---------------------------- MODULE OutputStream ----------------------------
(***************************************************************************)
(* The output side of src/lib/openjp2/cio.c: opj_stream_write_data,        *)
(* opj_stream_flush, opj_stream_write_skip and opj_stream_write_seek over  *)
(* a chunk buffer and the user's write, skip and seek functions.           *)
(*                                                                         *)
(* The client's bytes are numbered 1, 2, ... in the order it hands them    *)
(* over.  One action per call of a user function; what the code does       *)
(* between two of them is part of the action that follows.                 *)
(***************************************************************************)
EXTENDS Integers

CONSTANTS
    BufferSize,   \* m_buffer_size
    Sizes,        \* the p_size of writes and skips
    SeekTargets,  \* the positions the client seeks to
    FileSize,     \* bound: positions of the media that are used
    MaxBytes,     \* bound: bytes the client hands over
    MaxFaults,    \* bound: calls of a user function that return an error
    MayFill       \* whether the media may run full

ASSUME OutputStreamAssumption ==
    /\ BufferSize \in Nat \ {0}
    /\ Sizes \subseteq Nat
    /\ FileSize \in Nat /\ MaxBytes \in Nat /\ MaxFaults \in Nat
    /\ SeekTargets \subseteq 0..FileSize
    /\ MayFill \in BOOLEAN

VARIABLES
    (* opj_stream_private_t *)
    stored,      \* m_stored_data
    current,     \* m_current_data - m_stored_data
    in_buffer,   \* m_bytes_in_buffer
    offset,      \* m_byte_offset
    error,       \* OPJ_STREAM_STATUS_ERROR is in m_status
    (* the media *)
    media,       \* media[p]: the byte at position p, 0 if none yet
    mpos,        \* where the next user call writes or skips
    full,        \* there is no room left: fwrite returns 0 from now on
    faults,
    (* the call in progress, or the last one *)
    pc,          \* "idle", "writing", "flushing", "skipping" or "seeking"
    call,        \* "none", "write", "flush", "skip" or "seek"
    size,        \* its p_size
    from,        \* opj_stream_tell when it was made
    want,        \* what is left to write or to skip
    next,        \* the number of the next byte to copy into the buffer
    skipped,     \* l_skip_nb_bytes
    ret          \* what the last call returned

bufferVars == <<stored, current, in_buffer>>
mediaVars  == <<media, mpos, full, faults>>
callVars   == <<call, size, from>>
vars == <<bufferVars, offset, error, mediaVars, pc, callVars, want, next,
          skipped, ret>>

Positions == 0..(FileSize - 1)
Slots     == 0..(BufferSize - 1)

Init ==
    /\ stored = [i \in Slots |-> 0] /\ current = 0 /\ in_buffer = 0
    /\ offset = 0 /\ error = FALSE
    /\ media = [p \in Positions |-> 0] /\ mpos = 0
    /\ full = FALSE /\ faults = 0
    /\ pc = "idle" /\ call = "none" /\ size = 0 /\ from = 0
    /\ want = 0 /\ next = 1 /\ skipped = 0 /\ ret = 0

Call(what, n) ==
    /\ pc = "idle"
    /\ call' = what /\ size' = n /\ from' = offset

Return(n) == pc' = "idle" /\ want' = 0 /\ skipped' = 0 /\ ret' = n

Fault == faults < MaxFaults /\ faults' = faults + 1
-----------------------------------------------------------------------------
(* opj_stream_write_data.                                                  *)

(* After an error writes and skips are refused; flushes and seeks are not. *)
Refused(what, n) ==
    /\ Call(what, n)
    /\ error
    /\ Return(-1)
    /\ UNCHANGED <<bufferVars, offset, error, mediaVars, next>>

WriteCall(n) ==
    /\ Call("write", n)
    /\ ~error
    /\ offset + n <= FileSize /\ next + n <= MaxBytes + 1
    /\ want' = n
    /\ pc' = "writing"
    /\ UNCHANGED <<bufferVars, offset, error, mediaVars, next, skipped, ret>>

Room == BufferSize - in_buffer

(* memcpy(m_current_data, p_buffer, n)                                     *)
Copy(n) ==
    stored' = [i \in Slots |->
                  IF i \in current..(current + n - 1)
                  THEN next + (i - current) ELSE stored[i]]

Take(n) ==
    /\ Copy(n)
    /\ in_buffer' = in_buffer + n
    /\ offset' = offset + n
    /\ next' = next + n

WriteFits ==
    /\ pc = "writing" /\ Room >= want
    /\ Take(want)
    /\ current' = current + want
    /\ Return(size)
    /\ UNCHANGED <<error, mediaVars, callVars>>

(* The buffer is filled up, and flushed from its start.                    *)
WriteFills ==
    /\ pc = "writing" /\ Room < want
    /\ Take(Room)
    /\ current' = 0
    /\ want' = want - Room
    /\ pc' = "flushing"
    /\ UNCHANGED <<error, mediaVars, callVars, skipped, ret>>
-----------------------------------------------------------------------------
(* opj_stream_flush, called by the client or by one of the others.         *)

MutFlushStays == UNCHANGED current  \* mutant: it starts where writing ended

FlushFromStart == current' = 0

FlushStarts(what, n) ==
    /\ Call(what, n)
    /\ FlushFromStart
    /\ want' = n
    /\ pc' = "flushing"
    /\ UNCHANGED <<stored, in_buffer, offset, error, mediaVars, next,
                   skipped, ret>>

FlushCall == FlushStarts("flush", 0)
SkipCall(n) == ~error /\ offset + n <= FileSize /\ FlushStarts("skip", n)
SeekCall(p) == FlushStarts("seek", p)

(* Mutants: the rest of a short write starts over; so does all of it.      *)
MutResends(k) == UNCHANGED current /\ in_buffer' = in_buffer - k
MutStartsOver(k) == UNCHANGED <<current, in_buffer>>

Written(k) == current' = current + k /\ in_buffer' = in_buffer - k

(* The write function takes k of the bytes left in the buffer.             *)
FlushWrites(k) ==
    /\ pc = "flushing" /\ ~full
    /\ k \in 1..in_buffer
    /\ mpos + k <= FileSize
    /\ media' = [p \in Positions |->
                    IF p \in mpos..(mpos + k - 1)
                    THEN stored[current + (p - mpos)] ELSE media[p]]
    /\ mpos' = mpos + k
    /\ Written(k)
    /\ UNCHANGED <<stored, offset, error, full, faults, pc, callVars, want,
                   next, skipped, ret>>

(* On a full disk fwrite, and so opj_write_from_file, returns 0: the loop  *)
(* goes on as it was.                                                      *)
FlushGetsNowhere ==
    /\ pc = "flushing" /\ in_buffer > 0 /\ full
    /\ UNCHANGED vars

MutFailsSilently == UNCHANGED error  \* mutant: the status is not set

RaiseError == error' = TRUE

(* The write function returns -1.  A skip empties the buffer, a write and  *)
(* a seek leave in it what has not been written.                           *)
FlushFails ==
    /\ pc = "flushing" /\ in_buffer > 0
    /\ Fault
    /\ RaiseError
    /\ in_buffer' = IF call = "skip" THEN 0 ELSE in_buffer
    /\ Return(IF call \in {"write", "skip"} THEN -1 ELSE 0)
    /\ UNCHANGED <<stored, current, offset, media, mpos, full, callVars, next>>

FlushEnds ==
    /\ pc = "flushing" /\ in_buffer = 0
    /\ current' = 0
    /\ IF call = "flush"
       THEN Return(1)
       ELSE /\ pc' = CASE call = "write" -> "writing"
                       [] call = "skip"  -> "skipping"
                       [] call = "seek"  -> "seeking"
            /\ UNCHANGED <<want, skipped, ret>>
    /\ UNCHANGED <<stored, in_buffer, offset, error, mediaVars, callVars, next>>
-----------------------------------------------------------------------------
(* opj_stream_write_skip and opj_stream_write_seek, once flushed.          *)

SkipMoves(k) ==
    /\ pc = "skipping"
    /\ k \in 1..want
    /\ mpos' = mpos + k
    /\ want' = want - k
    /\ skipped' = skipped + k
    /\ UNCHANGED <<bufferVars, offset, error, media, full, faults, pc,
                   callVars, next, ret>>

SkipFails ==
    /\ pc = "skipping" /\ want > 0
    /\ Fault
    /\ RaiseError
    /\ offset' = offset + skipped
    /\ Return(IF skipped = 0 THEN -1 ELSE skipped)
    /\ UNCHANGED <<bufferVars, media, mpos, full, callVars, next>>

SkipReturns ==
    /\ pc = "skipping" /\ want = 0
    /\ offset' = offset + skipped
    /\ Return(skipped)
    /\ UNCHANGED <<bufferVars, error, mediaVars, callVars, next>>

(* A seek that succeeds leaves the error flag as it is.                    *)
SeekMoves ==
    /\ pc = "seeking"
    /\ mpos' = want /\ offset' = want
    /\ Return(1)
    /\ UNCHANGED <<bufferVars, error, media, full, faults, callVars, next>>

SeekFails ==
    /\ pc = "seeking"
    /\ Fault
    /\ RaiseError
    /\ Return(0)
    /\ UNCHANGED <<bufferVars, offset, media, mpos, full, callVars, next>>

RunsFull ==
    /\ MayFill /\ ~full
    /\ full' = TRUE
    /\ UNCHANGED <<bufferVars, offset, error, media, mpos, faults, pc,
                   callVars, want, next, skipped, ret>>
-----------------------------------------------------------------------------
(* What a call does once it has been made.                                 *)
Progress ==
    \/ WriteFits \/ WriteFills
    \/ \E k \in 1..BufferSize : FlushWrites(k)
    \/ FlushGetsNowhere \/ FlushEnds
    \/ \E k \in 1..FileSize : SkipMoves(k)
    \/ SkipReturns \/ SeekMoves

ClientCall ==
    \/ \E n \in Sizes : \/ WriteCall(n) \/ SkipCall(n)
                        \/ Refused("write", n) \/ Refused("skip", n)
    \/ \E p \in SeekTargets : SeekCall(p)
    \/ FlushCall

Next ==
    \/ ClientCall
    \/ Progress
    \/ FlushFails \/ SkipFails \/ SeekFails
    \/ RunsFull

Spec == Init /\ [][Next]_vars

(* The calling thread runs on.                                             *)
FairSpec == Spec /\ WF_vars(Progress)
-----------------------------------------------------------------------------
TypeOK ==
    /\ stored \in [Slots -> Nat]
    /\ current \in Nat /\ in_buffer \in Nat
    /\ offset \in Nat /\ mpos \in Nat
    /\ error \in BOOLEAN /\ full \in BOOLEAN
    /\ media \in [Positions -> Nat]
    /\ faults \in 0..MaxFaults
    /\ pc \in {"idle", "writing", "flushing", "skipping", "seeking"}
    /\ call \in {"none", "write", "flush", "skip", "seek"}
    /\ size \in Nat /\ from \in Nat /\ want \in Nat
    /\ next \in Nat \ {0}
    /\ skipped \in Nat
    /\ ret \in Int

(* tell() is ahead of the media by what is buffered (or skipped and not    *)
(* yet told), and no copy into the buffer, or write out of it, passes its  *)
(* end, also after a failed flush has left bytes in it.                    *)
BufferKept ==
    /\ ~error => mpos + in_buffer = offset + skipped
    /\ in_buffer <= BufferSize
    /\ pc = "flushing" => current + in_buffer <= BufferSize
    /\ (pc \in {"idle", "writing"} /\ ~error) => current = in_buffer

(* A write that does not return -1 has taken every byte and moved tell()   *)
(* by as many; a skip that returns what it was asked for has gone there.   *)
CallsReport ==
    pc = "idle" =>
        /\ (call = "write" /\ ret >= 0) => ret = size /\ offset = from + size
        /\ (call = "skip" /\ ret = size) => offset = from + size
        /\ (call \in {"write", "skip"} /\ ret # size) => error

(* ------- What OutputStreamProofs strengthens these with ---------------- *)

CallState ==
    /\ pc = "idle" => want = 0
    /\ pc # "skipping" => skipped = 0
    /\ pc = "writing" => call = "write"
    /\ (pc # "idle" /\ call = "write")
          => /\ ~error
             /\ offset + want = from + size
             /\ offset + want <= FileSize
    /\ (pc # "idle" /\ call = "skip")
          => /\ ~error
             /\ offset = from /\ want + skipped = size
             /\ offset + size <= FileSize
    /\ (pc # "idle" /\ call = "seek") => want <= FileSize
    /\ pc \in {"skipping", "seeking"} => current = 0 /\ in_buffer = 0
    /\ pc = "skipping" => call = "skip"
    /\ pc = "seeking" => call = "seek"
    /\ pc # "idle" => call # "none"

(* The inductive invariant.                                                *)
IInv == TypeOK /\ CallState /\ BufferKept /\ CallsReport

(* Where in the buffer the first byte is that the media has not got, and   *)
(* the media as it will be once it has them all.                           *)
BufferStart == IF pc = "flushing" THEN current ELSE current - in_buffer

Content ==
    [p \in Positions |->
        IF ~error /\ p \in mpos..(mpos + in_buffer - 1)
        THEN stored[BufferStart + (p - mpos)] ELSE media[p]]

File == INSTANCE ByteFile WITH content <- Content, pos <- offset, ok <- ~error

(* Until an error, media and buffer together are the file the client       *)
(* believes it writes: its bytes in its order, at the positions it sought  *)
(* (the Psot and TLM fields patched by j2k.c among them), whatever pieces  *)
(* the write function takes them in.                                       *)
ImplementsByteFile == File!Spec

(* A flush comes to an end while the media takes something: a short write  *)
(* is followed by one of the rest.                                         *)
FlushReturnsUnlessFull == (pc = "flushing") ~> (pc # "flushing" \/ full)

(* A flush returns, whether or not the data could be written (cio.h:293).  *)
FlushReturns == (pc = "flushing") ~> (pc # "flushing")
=============================================================================
