---------------------------- MODULE InputStream ----------------------------
(***************************************************************************)
(* The input side of src/lib/openjp2/cio.c: opj_stream_read_data,          *)
(* opj_stream_read_skip and opj_stream_read_seek over a chunk buffer and   *)
(* the user's read, skip and seek functions, which may deliver less than   *)
(* they are asked for, or fail.                                            *)
(*                                                                         *)
(* A byte of the media is named by its position there, so that m_stored_-  *)
(* data, always filled by one call of the read function, is its base.  One *)
(* action per call of a user function; what the code does between two of   *)
(* them is part of the action that follows.                                *)
(***************************************************************************)
EXTENDS Integers, Sequences

CONSTANTS
    Length,       \* bytes on the media, and m_user_data_length
    BufferSize,   \* m_buffer_size
    Sizes,        \* the p_size of reads and skips
    SeekTargets,  \* the positions the client seeks to
    HasSeek,      \* whether a seek function has been set
    MaxFaults     \* bound: calls of a user function that fail

ASSUME InputStreamAssumption ==
    /\ Length \in Nat /\ BufferSize \in Nat
    /\ Sizes \subseteq Nat /\ SeekTargets \subseteq Nat
    /\ HasSeek \in BOOLEAN
    /\ MaxFaults \in Nat

VARIABLES
    (* opj_stream_private_t *)
    base,        \* the media position of m_stored_data[0]
    current,     \* m_current_data - m_stored_data
    in_buffer,   \* m_bytes_in_buffer
    offset,      \* m_byte_offset
    ended,       \* OPJ_STREAM_STATUS_END is in m_status
    (* the media *)
    mpos,        \* where the next user call reads or skips
    faults,
    (* the call in progress, or the last one *)
    pc,          \* "idle", "reading" or "skipping"
    call,        \* "none", "read", "skip" or "seek"
    size,        \* its p_size
    from,        \* opj_stream_tell when it was made
    want,        \* what is left of p_size
    got,         \* the bytes in the caller's buffer
    skipped,     \* l_skip_nb_bytes
    ret          \* what the last call returned

bufferVars == <<base, current, in_buffer>>
callVars   == <<call, size, from>>
vars == <<bufferVars, offset, ended, mpos, faults, pc, callVars, want, got,
          skipped, ret>>

(* The n bytes of the media from position p on.                            *)
Bytes(p, n) == [i \in 1..n |-> p + i - 1]

(* What is reported when n bytes have been read or skipped.                *)
OrEnd(n) == IF n = 0 THEN -1 ELSE n

Init ==
    /\ base = 0 /\ current = 0 /\ in_buffer = 0
    /\ offset = 0 /\ ended = FALSE
    /\ mpos = 0 /\ faults = 0
    /\ pc = "idle" /\ call = "none"
    /\ size = 0 /\ from = 0 /\ want = 0
    /\ got = <<>> /\ skipped = 0 /\ ret = 0

Call(what, n) ==
    /\ pc = "idle"
    /\ call' = what /\ size' = n /\ from' = offset

(* The next n bytes of the buffer have been used.                          *)
Consume(n) ==
    /\ current' = current + n
    /\ in_buffer' = in_buffer - n

(* m_current_data goes back to m_stored_data: the buffer is empty.         *)
Empty == current' = 0 /\ in_buffer' = 0

Return(n) == pc' = "idle" /\ want' = 0 /\ skipped' = 0 /\ ret' = n
-----------------------------------------------------------------------------
(* opj_stream_read_data.                                                   *)

ReadFromBuffer(n) ==
    /\ Call("read", n)
    /\ in_buffer >= n
    /\ got' = Bytes(base + current, n)
    /\ Consume(n)
    /\ offset' = offset + n
    /\ Return(n)
    /\ UNCHANGED <<base, ended, mpos, faults>>

ReadAfterEnd(n) ==
    /\ Call("read", n)
    /\ in_buffer < n /\ ended
    /\ got' = Bytes(base + current, in_buffer)
    /\ Consume(in_buffer)
    /\ offset' = offset + in_buffer
    /\ Return(OrEnd(in_buffer))
    /\ UNCHANGED <<base, ended, mpos, faults>>

MutKeepsCurrent == in_buffer' = 0 /\ UNCHANGED current  \* mutant: no reset

EmptyForRefill == Empty

ReadStarts(n) ==
    /\ Call("read", n)
    /\ in_buffer < n /\ ~ended
    /\ got' = Bytes(base + current, in_buffer)
    /\ EmptyForRefill
    /\ offset' = offset + in_buffer
    /\ want' = n - in_buffer
    /\ pc' = "reading"
    /\ UNCHANGED <<base, ended, mpos, faults, skipped, ret>>

(* The read function is asked for n bytes and delivers k.                  *)
Delivers(n, k) ==
    /\ k \in 1..n
    /\ mpos + k <= Length
    /\ mpos' = mpos + k

(* The rest is less than a chunk, and the chunk read holds less than that  *)
(* ...                                                                     *)
ReadPartOfChunk(k) ==
    /\ pc = "reading" /\ want < BufferSize
    /\ Delivers(BufferSize, k) /\ k < want
    /\ base' = mpos
    /\ got' = got \o Bytes(base' + current, k)
    /\ Empty
    /\ offset' = offset + k
    /\ want' = want - k
    /\ UNCHANGED <<ended, faults, pc, callVars, skipped, ret>>

(* ... or all of it.                                                       *)
ReadFromChunk(k) ==
    /\ pc = "reading" /\ want < BufferSize
    /\ Delivers(BufferSize, k) /\ k >= want
    /\ base' = mpos
    /\ got' = got \o Bytes(base' + current, want)
    /\ current' = current + want
    /\ in_buffer' = k - want
    /\ offset' = offset + want
    /\ Return(Len(got) + want)
    /\ UNCHANGED <<ended, faults, callVars>>

(* The rest is a chunk or more, and goes to the caller's buffer directly.  *)
ReadDirectly(k) ==
    /\ pc = "reading" /\ want >= BufferSize
    /\ Delivers(want, k)
    /\ got' = got \o Bytes(mpos, k)
    /\ Empty
    /\ offset' = offset + k
    /\ IF k < want
       THEN want' = want - k /\ UNCHANGED <<pc, skipped, ret>>
       ELSE Return(Len(got) + k)
    /\ UNCHANGED <<base, ended, faults, callVars>>

MutForgetsEnd == UNCHANGED ended  \* mutant: the flag is not raised

RaiseEnd == ended' = TRUE

(* The read function returns -1: nothing is left, or it failed.            *)
ReadEnds ==
    /\ pc = "reading"
    /\ \/ mpos >= Length /\ UNCHANGED faults
       \/ mpos < Length /\ faults < MaxFaults /\ faults' = faults + 1
    /\ in_buffer' = 0
    /\ RaiseEnd
    /\ Return(OrEnd(Len(got)))
    /\ UNCHANGED <<base, current, offset, mpos, callVars, got>>
-----------------------------------------------------------------------------
(* opj_stream_read_skip.                                                   *)

SkipInBuffer(n) ==
    /\ Call("skip", n)
    /\ in_buffer >= n
    /\ Consume(n)
    /\ offset' = offset + n
    /\ Return(n)
    /\ got' = <<>>
    /\ UNCHANGED <<base, ended, mpos, faults>>

SkipAfterEnd(n) ==
    /\ Call("skip", n)
    /\ in_buffer < n /\ ended
    /\ Consume(in_buffer)
    /\ offset' = offset + in_buffer
    /\ Return(OrEnd(in_buffer))
    /\ got' = <<>>
    /\ UNCHANGED <<base, ended, mpos, faults>>

MutSkipsAll(n) == n  \* mutant: the bytes in the buffer are skipped twice

LeftToSkip(n) == n - in_buffer

(* The bytes in the buffer are skipped without m_byte_offset being told.   *)
SkipStarts(n) ==
    /\ Call("skip", n)
    /\ in_buffer < n /\ ~ended
    /\ skipped' = in_buffer
    /\ want' = LeftToSkip(n)
    /\ IF in_buffer > 0 THEN Empty ELSE UNCHANGED <<current, in_buffer>>
    /\ pc' = "skipping"
    /\ got' = <<>>
    /\ UNCHANGED <<base, offset, ended, mpos, faults, ret>>

MutNeverPast == FALSE  \* mutant: the end of the media is not looked for

PastTheEnd == offset + skipped + want > Length

SeekFails == ~HasSeek \/ faults < MaxFaults

(* What a seek function that fails costs.                                  *)
SeekFault == faults' = IF HasSeek THEN faults + 1 ELSE faults

(* The end of the media would be passed: go there and say so.  What is     *)
(* returned does not count the bytes that were in the buffer.              *)
SkipPastEnd ==
    /\ pc = "skipping" /\ want > 0
    /\ PastTheEnd
    /\ \/ /\ HasSeek
          /\ mpos' = Length /\ offset' = Length
          /\ UNCHANGED faults
       \/ /\ SeekFails /\ SeekFault
          /\ offset' = offset + skipped
          /\ UNCHANGED mpos
    /\ Empty
    /\ ended' = TRUE
    /\ Return(OrEnd(Length - (offset + skipped)))
    /\ UNCHANGED <<base, callVars, got>>

(* The skip function moves by k, wherever that is.                         *)
SkipMoves(k) ==
    /\ pc = "skipping" /\ want > 0
    /\ ~PastTheEnd
    /\ k \in 1..want
    /\ mpos' = mpos + k
    /\ want' = want - k
    /\ skipped' = skipped + k
    /\ UNCHANGED <<bufferVars, offset, ended, faults, pc, callVars, got, ret>>

SkipFails ==
    /\ pc = "skipping" /\ want > 0
    /\ ~PastTheEnd
    /\ faults < MaxFaults /\ faults' = faults + 1
    /\ ended' = TRUE
    /\ offset' = offset + skipped
    /\ Return(OrEnd(skipped))
    /\ UNCHANGED <<bufferVars, mpos, callVars, got>>

SkipReturns ==
    /\ pc = "skipping" /\ want = 0
    /\ offset' = offset + skipped
    /\ Return(skipped)
    /\ UNCHANGED <<bufferVars, ended, mpos, faults, callVars, got>>
-----------------------------------------------------------------------------
(* opj_stream_read_seek.  1 and 0 stand for OPJ_TRUE and OPJ_FALSE.        *)

MutKeepsBuffer == UNCHANGED <<current, in_buffer>>  \* mutant: a stale buffer

EmptyForSeek == Empty

SeekMoves(p) ==
    /\ Call("seek", p)
    /\ HasSeek
    /\ EmptyForSeek
    /\ mpos' = p /\ offset' = p
    /\ ended' = FALSE
    /\ Return(1)
    /\ got' = <<>>
    /\ UNCHANGED <<base, faults>>

SeekRefused(p) ==
    /\ Call("seek", p)
    /\ SeekFails /\ SeekFault
    /\ EmptyForSeek
    /\ ended' = TRUE
    /\ Return(0)
    /\ got' = <<>>
    /\ UNCHANGED <<base, offset, mpos>>
-----------------------------------------------------------------------------
Read(n) == ReadFromBuffer(n) \/ ReadAfterEnd(n) \/ ReadStarts(n)
Skip(n) == SkipInBuffer(n) \/ SkipAfterEnd(n) \/ SkipStarts(n)
Seek(p) == SeekMoves(p) \/ SeekRefused(p)

Media ==
    \/ \E k \in 1..Length :
          ReadPartOfChunk(k) \/ ReadFromChunk(k) \/ ReadDirectly(k)
    \/ ReadEnds
    \/ \E k \in 1..Length : SkipMoves(k)
    \/ SkipPastEnd \/ SkipFails \/ SkipReturns

Next ==
    \/ \E n \in Sizes : Read(n) \/ Skip(n)
    \/ \E p \in SeekTargets : Seek(p)
    \/ Media

Spec == Init /\ [][Next]_vars
-----------------------------------------------------------------------------
TypeOK ==
    /\ base \in Nat /\ current \in Nat /\ in_buffer \in Nat
    /\ offset \in Nat /\ mpos \in Nat
    /\ ended \in BOOLEAN
    /\ faults \in 0..MaxFaults
    /\ pc \in {"idle", "reading", "skipping"}
    /\ call \in {"none", "read", "skip", "seek"}
    /\ size \in Nat /\ from \in Nat /\ want \in Nat
    /\ got \in Seq(Nat)
    /\ skipped \in Nat
    /\ ret \in Int

(* tell() is the media's position less what the buffer holds, and the      *)
(* buffer holds the bytes from tell() on, through every mixture of chunk   *)
(* reads, direct reads, skips and seeks; after the end (or a fault, which  *)
(* counts as one) nothing is held, so nothing stale can be delivered.      *)
PositionKept ==
    /\ ~ended => mpos = offset + in_buffer + skipped
    /\ in_buffer > 0 => base + current = offset
    /\ ended => in_buffer = 0

(* What a read puts in the caller's buffer, in however many pieces, is     *)
(* what the media holds from the position the caller was told on.          *)
ReadDelivers == call = "read" => got = Bytes(from, Len(got))

(* A read that returns has delivered what it says and moved tell() by as   *)
(* much; it delivers less than it was asked for only at the end of the     *)
(* stream, and reports -1 only if that is nothing (cio.h:272).             *)
ReadReports ==
    (call = "read" /\ pc = "idle") =>
        /\ offset = from + Len(got)
        /\ ret = IF got = <<>> /\ size > 0 THEN -1 ELSE Len(got)
        /\ Len(got) < size => ended
        /\ Len(got) <= size

(* A skip returns the distance it was asked for if, and only if, it went   *)
(* that far: what opj_j2k_need_nb_tile_parts_correction (j2k.c:9682) and   *)
(* the marker loops rely on.                                               *)
SkipHonest ==
    (call = "skip" /\ pc = "idle") => (ret = size <=> offset = from + size)

(* The assertion of opj_stream_get_number_byte_left (line 587): only a     *)
(* seek of the client's can bring tell() beyond the end.                   *)
NoOverrun ==
    [][(offset <= Length /\ call' # "seek") => offset' <= Length]_vars

(* ------- What InputStreamProofs strengthens these with ----------------- *)

CallState ==
    /\ pc = "idle" => skipped = 0 /\ want = 0
    /\ pc # "idle" => ~ended /\ in_buffer = 0
    /\ in_buffer > 0 => mpos <= Length
    /\ pc = "reading" => /\ call = "read" /\ skipped = 0 /\ current = 0
                         /\ offset = from + Len(got)
                         /\ want = size - Len(got) /\ want > 0
    /\ pc = "skipping" => /\ call = "skip"
                          /\ offset = from
                          /\ want + skipped = size
                          /\ skipped > 0 => offset + skipped <= Length

(* The inductive invariant.                                                *)
IInv ==
    /\ TypeOK /\ CallState /\ PositionKept
    /\ ReadDelivers /\ ReadReports /\ SkipHonest
=============================================================================
