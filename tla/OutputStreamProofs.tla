------------------------- MODULE OutputStreamProofs -------------------------
(***************************************************************************)
(* Proofs about OutputStream, for every buffer size, sequence of calls and *)
(* behaviour of the user's functions, and that it implements ByteFile.     *)
(***************************************************************************)
EXTENDS OutputStream, TLAPS

LEMMA Parameters ==
    /\ BufferSize \in Nat /\ BufferSize > 0
    /\ FileSize \in Nat /\ MaxFaults \in Nat
    /\ \A n \in Sizes : n \in Nat
    /\ \A p \in SeekTargets : p \in Nat /\ p <= FileSize
  BY OutputStreamAssumption DEF OutputStreamAssumption

LEMMA InitIInv == Init => IInv
<1> SUFFICES ASSUME Init PROVE IInv
  OBVIOUS
<1>1. TypeOK
  <2>1. error \in BOOLEAN /\ full \in BOOLEAN
    BY DEF Init
  <2>2. faults \in 0..MaxFaults
    BY Parameters DEF Init
  <2>3. stored \in [Slots -> Nat] /\ media \in [Positions -> Nat]
    BY DEF Init
  <2> QED
    BY <2>1, <2>2, <2>3 DEF Init, TypeOK
<1>2. CallState
  BY DEF Init, CallState
<1>3. BufferKept
  BY Parameters DEF Init, BufferKept
<1>4. CallsReport
  BY DEF Init, CallsReport
<1> QED
  BY <1>1, <1>2, <1>3, <1>4 DEF IInv

LEMMA StepIInv == IInv /\ [Next]_vars => IInv'
<1> SUFFICES ASSUME IInv, [Next]_vars PROVE IInv'
  OBVIOUS
<1> USE DEF IInv
<1>0. /\ BufferSize \in Nat /\ BufferSize > 0
      /\ FileSize \in Nat /\ MaxFaults \in Nat
  BY Parameters
<1>1. ASSUME NEW what \in {"write", "skip"}, NEW n \in Sizes, Refused(what, n)
      PROVE  IInv'
  <2>0. n \in Nat
    BY <1>0, Parameters
  <2>1. TypeOK'
    BY <1>0, <1>1, <2>0 DEF TypeOK, BufferKept, Refused, Call, Return,
       bufferVars, mediaVars
  <2>2. CallState'
    BY <1>0, <1>1, <2>0 DEF TypeOK, CallState, BufferKept, Refused, Call,
       Return, bufferVars, mediaVars
  <2>3. BufferKept'
    BY <1>0, <1>1, <2>0 DEF TypeOK, CallState, BufferKept, Refused, Call,
       Return, bufferVars, mediaVars
  <2>4. CallsReport'
    BY <1>0, <1>1, <2>0 DEF TypeOK, CallState, BufferKept, CallsReport,
       Refused, Call, Return, bufferVars, mediaVars
  <2> QED
    BY <2>1, <2>2, <2>3, <2>4
<1>2. ASSUME NEW n \in Sizes, WriteCall(n)
      PROVE  IInv'
  <2>0. n \in Nat
    BY <1>0, Parameters
  <2>1. TypeOK'
    BY <1>0, <1>2, <2>0 DEF TypeOK, BufferKept, WriteCall, Call, bufferVars,
       mediaVars
  <2>2. CallState'
    BY <1>0, <1>2, <2>0 DEF TypeOK, CallState, BufferKept, WriteCall, Call,
       bufferVars, mediaVars
  <2>3. BufferKept'
    BY <1>0, <1>2, <2>0 DEF TypeOK, CallState, BufferKept, WriteCall, Call,
       bufferVars, mediaVars
  <2>4. CallsReport'
    BY <1>0, <1>2, <2>0 DEF TypeOK, CallState, BufferKept, CallsReport,
       WriteCall, Call, bufferVars, mediaVars
  <2> QED
    BY <2>1, <2>2, <2>3, <2>4
<1>3. ASSUME NEW n \in Sizes, SkipCall(n)
      PROVE  IInv'
  <2>0. n \in Nat
    BY <1>0, Parameters
  <2>1. TypeOK'
    BY <1>0, <1>3, <2>0 DEF TypeOK, BufferKept, SkipCall, FlushStarts,
       FlushFromStart, Call, mediaVars
  <2>2. CallState'
    BY <1>0, <1>3, <2>0 DEF TypeOK, CallState, BufferKept, SkipCall,
       FlushStarts, FlushFromStart, Call, mediaVars
  <2>3. BufferKept'
    BY <1>0, <1>3, <2>0 DEF TypeOK, CallState, BufferKept, SkipCall,
       FlushStarts, FlushFromStart, Call, mediaVars
  <2>4. CallsReport'
    BY <1>0, <1>3, <2>0 DEF TypeOK, CallState, BufferKept, CallsReport,
       SkipCall, FlushStarts, FlushFromStart, Call, mediaVars
  <2> QED
    BY <2>1, <2>2, <2>3, <2>4
<1>4. ASSUME NEW p \in SeekTargets, SeekCall(p)
      PROVE  IInv'
  <2>0. p \in Nat /\ p <= FileSize
    BY <1>0, Parameters
  <2>1. TypeOK'
    BY <1>0, <1>4, <2>0 DEF TypeOK, BufferKept, SeekCall, FlushStarts,
       FlushFromStart, Call, mediaVars
  <2>2. CallState'
    BY <1>0, <1>4, <2>0 DEF TypeOK, CallState, BufferKept, SeekCall,
       FlushStarts, FlushFromStart, Call, mediaVars
  <2>3. BufferKept'
    BY <1>0, <1>4, <2>0 DEF TypeOK, CallState, BufferKept, SeekCall,
       FlushStarts, FlushFromStart, Call, mediaVars
  <2>4. CallsReport'
    BY <1>0, <1>4, <2>0 DEF TypeOK, CallState, BufferKept, CallsReport,
       SeekCall, FlushStarts, FlushFromStart, Call, mediaVars
  <2> QED
    BY <2>1, <2>2, <2>3, <2>4
<1>5. ASSUME FlushCall
      PROVE  IInv'
  <2>1. TypeOK'
    BY <1>0, <1>5 DEF TypeOK, BufferKept, FlushCall, FlushStarts,
       FlushFromStart, Call, mediaVars
  <2>2. CallState'
    BY <1>0, <1>5 DEF TypeOK, CallState, BufferKept, FlushCall, FlushStarts,
       FlushFromStart, Call, mediaVars
  <2>3. BufferKept'
    BY <1>0, <1>5 DEF TypeOK, CallState, BufferKept, FlushCall, FlushStarts,
       FlushFromStart, Call, mediaVars
  <2>4. CallsReport'
    BY <1>0, <1>5 DEF TypeOK, CallState, BufferKept, CallsReport, FlushCall,
       FlushStarts, FlushFromStart, Call, mediaVars
  <2> QED
    BY <2>1, <2>2, <2>3, <2>4
<1>6. ASSUME WriteFits
      PROVE  IInv'
  <2>1. TypeOK'
    BY <1>0, <1>6 DEF TypeOK, BufferKept, WriteFits, Room, Take, Copy, Return,
       mediaVars, callVars
  <2>2. CallState'
    BY <1>0, <1>6 DEF TypeOK, CallState, BufferKept, WriteFits, Room, Take,
       Copy, Return, mediaVars, callVars
  <2>3. BufferKept'
    BY <1>0, <1>6 DEF TypeOK, CallState, BufferKept, WriteFits, Room, Take,
       Copy, Return, mediaVars, callVars
  <2>4. CallsReport'
    BY <1>0, <1>6 DEF TypeOK, CallState, BufferKept, CallsReport, WriteFits,
       Room, Take, Copy, Return, mediaVars, callVars
  <2> QED
    BY <2>1, <2>2, <2>3, <2>4
<1>7. ASSUME WriteFills
      PROVE  IInv'
  <2>1. TypeOK'
    BY <1>0, <1>7 DEF TypeOK, BufferKept, WriteFills, Room, Take, Copy,
       mediaVars, callVars
  <2>2. CallState'
    BY <1>0, <1>7 DEF TypeOK, CallState, BufferKept, WriteFills, Room, Take,
       Copy, mediaVars, callVars
  <2>3. BufferKept'
    BY <1>0, <1>7 DEF TypeOK, CallState, BufferKept, WriteFills, Room, Take,
       Copy, mediaVars, callVars
  <2>4. CallsReport'
    BY <1>0, <1>7 DEF TypeOK, CallState, BufferKept, CallsReport, WriteFills,
       Room, Take, Copy, mediaVars, callVars
  <2> QED
    BY <2>1, <2>2, <2>3, <2>4
<1>8. ASSUME NEW k \in 1..BufferSize, FlushWrites(k)
      PROVE  IInv'
  <2>0. k \in Nat
    BY <1>0, Parameters
  <2>1. TypeOK'
    <3>1. ASSUME NEW q \in Positions, q \in mpos..(mpos + k - 1)
          PROVE  stored[current + (q - mpos)] \in Nat
      <4>1. current + (q - mpos) \in Slots
        BY <1>0, <1>8, <2>0, <3>1 DEF TypeOK, BufferKept, FlushWrites, Slots,
           Positions
      <4> QED
        BY <4>1 DEF TypeOK
    <3>2. media' \in [Positions -> Nat]
      BY <1>8, <3>1 DEF TypeOK, FlushWrites
    <3>3. mpos' \in Nat /\ current' \in Nat /\ in_buffer' \in Nat
      BY <1>8, <2>0 DEF TypeOK, FlushWrites, Written
    <3> QED
      BY <1>8, <3>2, <3>3 DEF TypeOK, FlushWrites, callVars
  <2>2. CallState'
    BY <1>0, <1>8, <2>0 DEF TypeOK, CallState, BufferKept, FlushWrites,
       Written, callVars
  <2>3. BufferKept'
    BY <1>0, <1>8, <2>0 DEF TypeOK, CallState, BufferKept, FlushWrites,
       Written, callVars
  <2>4. CallsReport'
    BY <1>0, <1>8, <2>0 DEF TypeOK, CallState, BufferKept, CallsReport,
       FlushWrites, Written, callVars
  <2> QED
    BY <2>1, <2>2, <2>3, <2>4
<1>9. ASSUME FlushGetsNowhere
      PROVE  IInv'
  <2>1. TypeOK'
    BY <1>0, <1>9 DEF TypeOK, BufferKept, FlushGetsNowhere, vars, bufferVars,
       mediaVars, callVars
  <2>2. CallState'
    BY <1>0, <1>9 DEF TypeOK, CallState, BufferKept, FlushGetsNowhere, vars,
       bufferVars, mediaVars, callVars
  <2>3. BufferKept'
    BY <1>0, <1>9 DEF TypeOK, CallState, BufferKept, FlushGetsNowhere, vars,
       bufferVars, mediaVars, callVars
  <2>4. CallsReport'
    BY <1>0, <1>9 DEF TypeOK, CallState, BufferKept, CallsReport,
       FlushGetsNowhere, vars, bufferVars, mediaVars, callVars
  <2> QED
    BY <2>1, <2>2, <2>3, <2>4
<1>10. ASSUME FlushFails
      PROVE  IInv'
  <2>1. TypeOK'
    <3>1. error' \in BOOLEAN
      BY <1>10 DEF FlushFails, RaiseError
    <3> QED
      BY <1>0, <1>10, <3>1 DEF TypeOK, BufferKept, FlushFails, Fault,
         RaiseError, Return, callVars
  <2>2. CallState'
    BY <1>0, <1>10 DEF TypeOK, CallState, BufferKept, FlushFails, Fault,
       RaiseError, Return, callVars
  <2>3. BufferKept'
    BY <1>0, <1>10 DEF TypeOK, CallState, BufferKept, FlushFails, Fault,
       RaiseError, Return, callVars
  <2>4. CallsReport'
    BY <1>0, <1>10 DEF TypeOK, CallState, BufferKept, CallsReport, FlushFails,
       Fault, RaiseError, Return, callVars
  <2> QED
    BY <2>1, <2>2, <2>3, <2>4
<1>11. ASSUME FlushEnds
      PROVE  IInv'
  <2>1. TypeOK'
    <3>1. pc' \in {"idle", "writing", "skipping", "seeking"}
      BY <1>11 DEF TypeOK, CallState, FlushEnds, Return
    <3>2. want' \in Nat /\ skipped' \in Nat /\ ret' \in Int
      BY <1>11 DEF TypeOK, FlushEnds, Return
    <3> QED
      BY <1>11, <3>1, <3>2 DEF TypeOK, FlushEnds, mediaVars, callVars
  <2>2. CallState'
    BY <1>0, <1>11 DEF TypeOK, CallState, BufferKept, FlushEnds, Return,
       mediaVars, callVars
  <2>3. BufferKept'
    BY <1>0, <1>11 DEF TypeOK, CallState, BufferKept, FlushEnds, Return,
       mediaVars, callVars
  <2>4. CallsReport'
    BY <1>0, <1>11 DEF TypeOK, CallState, BufferKept, CallsReport, FlushEnds,
       Return, mediaVars, callVars
  <2> QED
    BY <2>1, <2>2, <2>3, <2>4
<1>12. ASSUME NEW k \in 1..FileSize, SkipMoves(k)
      PROVE  IInv'
  <2>0. k \in Nat
    BY <1>0, Parameters
  <2>1. TypeOK'
    BY <1>0, <1>12, <2>0 DEF TypeOK, BufferKept, SkipMoves, bufferVars,
       callVars
  <2>2. CallState'
    BY <1>0, <1>12, <2>0 DEF TypeOK, CallState, BufferKept, SkipMoves,
       bufferVars, callVars
  <2>3. BufferKept'
    BY <1>0, <1>12, <2>0 DEF TypeOK, CallState, BufferKept, SkipMoves,
       bufferVars, callVars
  <2>4. CallsReport'
    BY <1>0, <1>12, <2>0 DEF TypeOK, CallState, BufferKept, CallsReport,
       SkipMoves, bufferVars, callVars
  <2> QED
    BY <2>1, <2>2, <2>3, <2>4
<1>13. ASSUME SkipFails
      PROVE  IInv'
  <2>1. TypeOK'
    <3>1. error' \in BOOLEAN
      BY <1>13 DEF SkipFails, RaiseError
    <3> QED
      BY <1>0, <1>13, <3>1 DEF TypeOK, BufferKept, SkipFails, Fault,
         RaiseError, Return, bufferVars, callVars
  <2>2. CallState'
    BY <1>0, <1>13 DEF TypeOK, CallState, BufferKept, SkipFails, Fault,
       RaiseError, Return, bufferVars, callVars
  <2>3. BufferKept'
    BY <1>0, <1>13 DEF TypeOK, CallState, BufferKept, SkipFails, Fault,
       RaiseError, Return, bufferVars, callVars
  <2>4. CallsReport'
    BY <1>0, <1>13 DEF TypeOK, CallState, BufferKept, CallsReport, SkipFails,
       Fault, RaiseError, Return, bufferVars, callVars
  <2> QED
    BY <2>1, <2>2, <2>3, <2>4
<1>14. ASSUME SkipReturns
      PROVE  IInv'
  <2>1. TypeOK'
    BY <1>0, <1>14 DEF TypeOK, BufferKept, SkipReturns, Return, bufferVars,
       mediaVars, callVars
  <2>2. CallState'
    BY <1>0, <1>14 DEF TypeOK, CallState, BufferKept, SkipReturns, Return,
       bufferVars, mediaVars, callVars
  <2>3. BufferKept'
    BY <1>0, <1>14 DEF TypeOK, CallState, BufferKept, SkipReturns, Return,
       bufferVars, mediaVars, callVars
  <2>4. CallsReport'
    BY <1>0, <1>14 DEF TypeOK, CallState, BufferKept, CallsReport,
       SkipReturns, Return, bufferVars, mediaVars, callVars
  <2> QED
    BY <2>1, <2>2, <2>3, <2>4
<1>15. ASSUME SeekMoves
      PROVE  IInv'
  <2>1. TypeOK'
    BY <1>0, <1>15 DEF TypeOK, BufferKept, SeekMoves, Return, bufferVars,
       callVars
  <2>2. CallState'
    BY <1>0, <1>15 DEF TypeOK, CallState, BufferKept, SeekMoves, Return,
       bufferVars, callVars
  <2>3. BufferKept'
    BY <1>0, <1>15 DEF TypeOK, CallState, BufferKept, SeekMoves, Return,
       bufferVars, callVars
  <2>4. CallsReport'
    BY <1>0, <1>15 DEF TypeOK, CallState, BufferKept, CallsReport, SeekMoves,
       Return, bufferVars, callVars
  <2> QED
    BY <2>1, <2>2, <2>3, <2>4
<1>16. ASSUME SeekFails
      PROVE  IInv'
  <2>1. TypeOK'
    <3>1. error' \in BOOLEAN
      BY <1>16 DEF SeekFails, RaiseError
    <3> QED
      BY <1>0, <1>16, <3>1 DEF TypeOK, BufferKept, SeekFails, Fault,
         RaiseError, Return, bufferVars, callVars
  <2>2. CallState'
    BY <1>0, <1>16 DEF TypeOK, CallState, BufferKept, SeekFails, Fault,
       RaiseError, Return, bufferVars, callVars
  <2>3. BufferKept'
    BY <1>0, <1>16 DEF TypeOK, CallState, BufferKept, SeekFails, Fault,
       RaiseError, Return, bufferVars, callVars
  <2>4. CallsReport'
    BY <1>0, <1>16 DEF TypeOK, CallState, BufferKept, CallsReport, SeekFails,
       Fault, RaiseError, Return, bufferVars, callVars
  <2> QED
    BY <2>1, <2>2, <2>3, <2>4
<1>17. ASSUME RunsFull
      PROVE  IInv'
  <2>1. TypeOK'
    <3>1. full' \in BOOLEAN
      BY <1>17 DEF RunsFull
    <3> QED
      BY <1>0, <1>17, <3>1 DEF TypeOK, BufferKept, RunsFull, bufferVars,
         callVars
  <2>2. CallState'
    BY <1>0, <1>17 DEF TypeOK, CallState, BufferKept, RunsFull, bufferVars,
       callVars
  <2>3. BufferKept'
    BY <1>0, <1>17 DEF TypeOK, CallState, BufferKept, RunsFull, bufferVars,
       callVars
  <2>4. CallsReport'
    BY <1>0, <1>17 DEF TypeOK, CallState, BufferKept, CallsReport, RunsFull,
       bufferVars, callVars
  <2> QED
    BY <2>1, <2>2, <2>3, <2>4
<1>18. CASE UNCHANGED vars
  BY <1>18 DEF vars, bufferVars, mediaVars, callVars, TypeOK, CallState,
     BufferKept, CallsReport
<1> QED
  BY <1>1, <1>2, <1>3, <1>4, <1>5, <1>6, <1>7, <1>8, <1>9, <1>10, <1>11,
     <1>12, <1>13, <1>14, <1>15, <1>16, <1>17, <1>18 DEF Next, ClientCall,
     Progress

(* OutputStream keeps its inductive invariant.                             *)
THEOREM InductiveInvariant == Spec => []IInv
<1> QED
  BY InitIInv, StepIInv, PTL DEF Spec

(* tell() stays the media's position plus what is buffered, and no copy    *)
(* into the buffer or write out of it passes its end.                      *)
THEOREM BufferIsKept == Spec => []BufferKept
  BY InductiveInvariant, PTL DEF IInv

(* A write that does not fail has taken every byte; a short result of a    *)
(* write or a skip means the stream is in error.                           *)
THEOREM CallsReportTruly == Spec => []CallsReport
  BY InductiveInvariant, PTL DEF IInv
-----------------------------------------------------------------------------
(* The refinement of ByteFile.                                             *)

(* Bytes copied into the buffer are put into the file.                     *)
LEMMA TakePuts ==
    ASSUME IInv, ~error, ~error', NEW n \in Nat, n <= Room, Take(n),
           offset + n <= FileSize,
           pc = "writing", BufferStart' = 0, media' = media, mpos' = mpos
    PROVE  File!Next \/ UNCHANGED File!vars
<1> USE DEF IInv
<1>0. BufferSize \in Nat /\ FileSize \in Nat
  BY Parameters
<1>1. /\ current = in_buffer /\ mpos + in_buffer = offset
      /\ current \in Nat /\ in_buffer \in Nat /\ mpos \in Nat /\ next \in Nat
      /\ offset \in Nat
  BY DEF TypeOK, CallState, BufferKept
<1>2. BufferStart = 0 /\ BufferStart' = 0
  BY <1>1 DEF BufferStart
<1>3. Content' = [p \in Positions |->
                     IF p \in offset..(offset + n - 1) THEN next + (p - offset)
                                                       ELSE Content[p]]
  <2>1. ASSUME NEW p \in Positions
        PROVE  Content'[p] = IF p \in offset..(offset + n - 1)
                             THEN next + (p - offset) ELSE Content[p]
    <3>0. p \in Nat
      BY <1>0 DEF Positions
    <3>1. CASE p \in offset..(offset + n - 1)
      <4>1. p - mpos \in current..(current + n - 1) /\ p - mpos \in Slots
        BY <1>0, <1>1, <3>0, <3>1 DEF Room, Slots
      <4>2. p \in mpos..(mpos + in_buffer' - 1)
        BY <1>1, <3>0, <3>1 DEF Take
      <4>3. Content'[p] = stored'[p - mpos]
        BY <1>1, <1>2, <3>0, <4>2 DEF Content
      <4>4. stored'[p - mpos] = next + (p - mpos - current)
        BY <4>1 DEF Take, Copy
      <4> QED
        BY <1>1, <3>0, <3>1, <4>3, <4>4
    <3>2. CASE p \in mpos..(mpos + in_buffer - 1)
      <4>1. p - mpos \in Slots /\ p - mpos \notin current..(current + n - 1)
        BY <1>0, <1>1, <3>0, <3>2 DEF Room, Slots
      <4>2. p \in mpos..(mpos + in_buffer' - 1) /\ p \notin offset..(offset + n - 1)
        BY <1>1, <3>0, <3>2 DEF Take
      <4>3. Content'[p] = stored'[p - mpos] /\ Content[p] = stored[p - mpos]
        BY <1>1, <1>2, <3>0, <3>2, <4>2 DEF Content
      <4> QED
        BY <4>1, <4>2, <4>3 DEF Take, Copy
    <3>3. CASE p \notin offset..(offset + n - 1) /\ p \notin mpos..(mpos + in_buffer - 1)
      <4>1. p \notin mpos..(mpos + in_buffer' - 1)
        BY <1>1, <3>0, <3>3 DEF Take
      <4> QED
        BY <3>3, <4>1 DEF Content
    <3> QED
      BY <3>1, <3>2, <3>3
  <2> QED
    BY <2>1 DEF Content
<1>4. offset' = offset + n /\ next' = next + n
  BY DEF Take
<1>5. CASE n = 0
  <2>1. Content' = Content
    <3>1. offset..(offset + n - 1) = {}
      BY <1>1, <1>5
    <3>2. Content' = [p \in Positions |-> Content[p]]
      BY <1>3, <3>1
    <3> QED
      BY <3>2 DEF Content
  <2> QED
    BY <1>1, <1>4, <1>5, <2>1 DEF File!vars
<1>6. CASE n > 0
  <2>1. n \in 1..FileSize
    BY <1>0, <1>1, <1>6
  <2>2. File!Put(n)
    BY <1>3, <1>4 DEF File!Put, Positions
  <2> QED
    BY <2>1, <2>2 DEF File!Next
<1> QED
  BY <1>5, <1>6

(* Bytes written out leave the buffer and arrive in the media.             *)
LEMMA FlushKeepsContent ==
    ASSUME IInv, ~error, NEW k \in 1..BufferSize, FlushWrites(k)
    PROVE  Content' = Content
<1> USE DEF IInv
<1>0. BufferSize \in Nat /\ FileSize \in Nat
  BY Parameters
<1>1. /\ current \in Nat /\ in_buffer \in Nat /\ mpos \in Nat
      /\ k \in Nat /\ k > 0 /\ k <= in_buffer
  BY <1>0 DEF TypeOK, FlushWrites
<1>2. BufferStart = current /\ BufferStart' = current + k
  BY DEF BufferStart, FlushWrites, Written
<1>3. mpos' = mpos + k /\ in_buffer' = in_buffer - k /\ ~error' /\ stored' = stored
  BY DEF FlushWrites, Written
<1>4. ASSUME NEW p \in Positions
      PROVE  Content'[p] = Content[p]
  <2>0. p \in Nat
    BY <1>0 DEF Positions
  <2>1. CASE p \in mpos..(mpos + k - 1)
    <3>1. p \notin mpos'..(mpos' + in_buffer' - 1) /\ p \in mpos..(mpos + in_buffer - 1)
      BY <1>1, <1>3, <2>0, <2>1
    <3>2. Content[p] = stored[current + (p - mpos)] /\ Content'[p] = media'[p]
      BY <1>2, <1>3, <3>1 DEF Content
    <3>3. media'[p] = stored[current + (p - mpos)]
      BY <2>1 DEF FlushWrites
    <3> QED
      BY <3>2, <3>3
  <2>2. CASE p \in (mpos + k)..(mpos + in_buffer - 1)
    <3>1. p \in mpos'..(mpos' + in_buffer' - 1) /\ p \in mpos..(mpos + in_buffer - 1)
      BY <1>1, <1>3, <2>0, <2>2
    <3>2. /\ Content[p] = stored[current + (p - mpos)]
          /\ Content'[p] = stored[(current + k) + (p - (mpos + k))]
      BY <1>2, <1>3, <3>1 DEF Content
    <3>3. current + (p - mpos) = (current + k) + (p - (mpos + k))
      BY <1>1, <2>0
    <3> QED
      BY <3>2, <3>3
  <2>3. CASE p \notin mpos..(mpos + in_buffer - 1)
    <3>1. p \notin mpos'..(mpos' + in_buffer' - 1) /\ p \notin mpos..(mpos + k - 1)
      BY <1>1, <1>3, <2>0, <2>3
    <3>2. Content[p] = media[p] /\ Content'[p] = media'[p]
      BY <2>3, <3>1 DEF Content
    <3>3. media'[p] = media[p]
      BY <3>1 DEF FlushWrites
    <3> QED
      BY <3>2, <3>3
  <2> QED
    BY <1>1, <2>0, <2>1, <2>2, <2>3
<1> QED
  BY <1>4 DEF Content

(* The buffer is flushed before a skip or a seek: the file is the media,   *)
(* which moving does not change.                                           *)
LEMMA EmptyIsMedia ==
    ASSUME IInv, IInv', in_buffer = 0, in_buffer' = 0, media' = media
    PROVE  Content' = Content
<1>1. \A m \in Nat : m..(m + 0 - 1) = {}
  OBVIOUS
<1>2. mpos \in Nat /\ mpos' \in Nat
  BY DEF IInv, TypeOK
<1>3. mpos..(mpos + in_buffer - 1) = {}
  BY <1>1, <1>2
<1>4. mpos'..(mpos' + in_buffer' - 1) = {}
  BY <1>1, <1>2
<1>5. Content = [p \in Positions |-> media[p]]
  BY <1>3 DEF Content
<1>6. Content' = [p \in Positions |-> media'[p]]
  BY <1>4 DEF Content
<1> QED
  BY <1>5, <1>6

LEMMA InitRefines == Init => File!Init
<1> SUFFICES ASSUME Init PROVE File!Init
  OBVIOUS
<1>1. 0..(0 + 0 - 1) = {}
  OBVIOUS
<1>2. Content = [p \in Positions |-> 0]
  BY <1>1 DEF Init, Content
<1>3. (~error) = TRUE
  BY DEF Init
<1> QED
  BY <1>2, <1>3 DEF Init, File!Init, Positions

LEMMA StepRefines == IInv /\ IInv' /\ [Next]_vars => [File!Next]_File!vars
<1> SUFFICES ASSUME IInv, IInv', [Next]_vars
             PROVE  File!Next \/ UNCHANGED File!vars
  OBVIOUS
<1> USE DEF IInv
<1>0. FileSize \in Nat
  BY Parameters
<1>1. CASE error'
  <2>1. (~error)' = FALSE
    BY <1>1
  <2> QED
    BY <2>1 DEF File!Next, File!Fail
<1>2. CASE ~error' /\ error
  <2>1. ASSUME error, ~error' PROVE FALSE
    BY <2>1 DEF Next, ClientCall, Progress, Refused, WriteCall, SkipCall,
       SeekCall, FlushCall, FlushStarts, WriteFits, WriteFills, FlushWrites,
       FlushGetsNowhere, FlushFails, FlushEnds, SkipMoves, SkipFails,
       SkipReturns, SeekMoves, SeekFails, RaiseError, RunsFull, vars
  <2> QED
    BY <1>2, <2>1
<1>3. CASE ~error /\ ~error'
  <2> USE <1>3
  <2>0. (~error) = TRUE /\ (~error)' = TRUE
    BY <1>3
  <2>1. ASSUME NEW what \in {"write", "skip"}, NEW n \in Sizes, Refused(what, n)
        PROVE  FALSE
    BY <2>1 DEF Refused
  <2>2. ASSUME UNCHANGED <<stored, in_buffer, offset, error, media, mpos, next>>,
               BufferStart' = BufferStart
        PROVE  UNCHANGED File!vars
    <3>1. Content' = Content
      BY <2>2 DEF Content
    <3> QED
      BY <2>0, <2>2, <3>1 DEF File!vars
  <2>3. ASSUME NEW n \in Sizes, WriteCall(n)
        PROVE  UNCHANGED File!vars
    BY <2>2, <2>3 DEF WriteCall, Call, BufferStart, bufferVars, mediaVars
  <2>4. ASSUME NEW what, NEW n, FlushStarts(what, n)
        PROVE  UNCHANGED File!vars
    <3>1. BufferStart = 0 /\ BufferStart' = 0
      BY <2>4 DEF TypeOK, BufferKept, BufferStart, FlushStarts, FlushFromStart,
         Call
    <3> QED
      BY <2>2, <2>4, <3>1 DEF FlushStarts, mediaVars
  <2>5. CASE WriteFits
    <3>1. want \in Nat /\ want <= Room /\ Take(want) /\ pc = "writing"
      BY <2>5 DEF WriteFits, TypeOK, Room
    <3>2. offset + want <= FileSize
      BY <2>5 DEF WriteFits, CallState
    <3>3. BufferStart' = 0
      <4>1. pc' = "idle" /\ current' = current + want /\ current = in_buffer
        BY <2>5 DEF WriteFits, Return, BufferKept
      <4> QED
        BY <3>1, <4>1 DEF BufferStart, Take, TypeOK
    <3>4. media' = media /\ mpos' = mpos
      BY <2>5 DEF WriteFits, mediaVars
    <3> QED
      BY <3>1, <3>2, <3>3, <3>4, TakePuts
  <2>6. CASE WriteFills
    <3>1. Room \in Nat /\ Room <= want /\ Take(Room) /\ pc = "writing"
      BY <2>6, Parameters DEF WriteFills, TypeOK, BufferKept, Room
    <3>2. offset + Room <= FileSize
      BY <1>0, <2>6, <3>1 DEF WriteFills, TypeOK, CallState
    <3>3. BufferStart' = 0
      BY <2>6 DEF WriteFills, BufferStart
    <3>4. media' = media /\ mpos' = mpos
      BY <2>6 DEF WriteFills, mediaVars
    <3> QED
      BY <3>1, <3>2, <3>3, <3>4, TakePuts
  <2>7. ASSUME NEW k \in 1..BufferSize, FlushWrites(k)
        PROVE  UNCHANGED File!vars
    BY <2>0, <2>7, FlushKeepsContent DEF FlushWrites, File!vars
  <2>8. CASE FlushEnds
    BY <2>0, <2>8, EmptyIsMedia DEF FlushEnds, mediaVars, File!vars
  <2>9. ASSUME NEW k \in 1..FileSize, SkipMoves(k)
        PROVE  UNCHANGED File!vars
    BY <2>0, <2>9, EmptyIsMedia DEF SkipMoves, CallState, bufferVars, File!vars
  <2>10. CASE SkipReturns
    <3>1. Content' = Content
      BY <2>10, EmptyIsMedia DEF SkipReturns, CallState, bufferVars, mediaVars
    <3>2. offset' \in 0..FileSize
      BY <1>0, <2>10 DEF SkipReturns, CallState, TypeOK
    <3> QED
      BY <2>0, <2>10, <3>1, <3>2 DEF SkipReturns, File!Move, File!Next
  <2>11. CASE SeekMoves
    <3>1. Content' = Content
      BY <2>11, EmptyIsMedia DEF SeekMoves, CallState, bufferVars
    <3>2. offset' \in 0..FileSize
      BY <1>0, <2>11 DEF SeekMoves, CallState, TypeOK
    <3> QED
      BY <2>0, <2>11, <3>1, <3>2 DEF SeekMoves, File!Move, File!Next
  <2>12. CASE FlushFails \/ SkipFails \/ SeekFails
    BY <2>12 DEF FlushFails, SkipFails, SeekFails, RaiseError
  <2>13. CASE RunsFull
    BY <2>2, <2>13 DEF RunsFull, bufferVars, BufferStart
  <2>14. CASE FlushGetsNowhere \/ UNCHANGED vars
    BY <2>2, <2>14 DEF FlushGetsNowhere, vars, bufferVars, mediaVars, BufferStart
  <2> QED
    BY <2>1, <2>3, <2>4, <2>5, <2>6, <2>7, <2>8, <2>9, <2>10, <2>11, <2>12,
       <2>13, <2>14 DEF Next, ClientCall, Progress, SkipCall, SeekCall, FlushCall
<1> QED
  BY <1>1, <1>2, <1>3

(* The buffered stream is a file with a position: until an error, media    *)
(* and buffer together hold the client's bytes at the positions it chose.  *)
THEOREM Refinement == Spec => ImplementsByteFile
<1> QED
  BY InitRefines, StepRefines, InductiveInvariant, PTL
     DEF Spec, ImplementsByteFile, File!Spec

=============================================================================
