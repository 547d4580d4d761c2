------------------------- MODULE InputStreamProofs --------------------------
(***************************************************************************)
(* Proofs about InputStream, for every length of the media, buffer size,   *)
(* sequence of calls and behaviour of the user's functions.                *)
(***************************************************************************)
EXTENDS InputStream, TLAPS

(* s is the m bytes of the media from position p on.                       *)
Run(s, p, m) ==
    /\ s = Bytes(p, m)
    /\ s \in Seq(Nat) /\ Len(s) = m
    /\ s = <<>> <=> m = 0

LEMMA BytesRun ==
    ASSUME NEW p \in Nat, NEW n \in Nat
    PROVE  Run(Bytes(p, n), p, n)
  BY DEF Bytes, Run

LEMMA SequenceIsItsElements ==
    ASSUME NEW s \in Seq(Nat), NEW p \in Nat,
           \A i \in 1..Len(s) : s[i] = p + i - 1
    PROVE  s = Bytes(p, Len(s))
<1>1. s = [i \in 1..Len(s) |-> s[i]]
  OBVIOUS
<1> QED
  BY <1>1 DEF Bytes

(* Bytes(p, m) followed by the k bytes after it is Bytes(p, m + k).        *)
LEMMA BytesJoin ==
    ASSUME NEW p \in Nat, NEW m \in Nat, NEW k \in Nat,
           NEW a, NEW b, Run(a, p, m), Run(b, p + m, k)
    PROVE  Run(a \o b, p, m + k)
<1>1. a \in Seq(Nat) /\ Len(a) = m /\ b \in Seq(Nat) /\ Len(b) = k
  BY DEF Run
<1>2. \A i \in 1..m : a[i] = p + i - 1
  BY DEF Bytes, Run
<1>3. \A i \in 1..k : b[i] = p + m + i - 1
  BY DEF Bytes, Run
<1>4. a \o b \in Seq(Nat) /\ Len(a \o b) = m + k
  BY SMTT(40), <1>1
<1>5. ASSUME NEW i \in 1..(m + k) PROVE (a \o b)[i] = p + i - 1
  <2>0. i \in Int
    OBVIOUS
  <2>1. CASE i <= m
    BY <1>1, <1>2, <2>1
  <2>2. CASE i > m
    <3>1. i - m \in 1..k /\ (a \o b)[i] = b[i - m]
      BY <1>1, <2>2
    <3>2. b[i - m] = p + m + (i - m) - 1
      BY <1>3, <3>1
    <3> QED
      BY <3>1, <3>2
  <2>3. i <= m \/ i > m
    BY <2>0
  <2> QED
    BY <2>1, <2>2, <2>3
<1>6. a \o b = Bytes(p, m + k)
  BY <1>4, <1>5, SequenceIsItsElements
<1> QED
  BY <1>6, BytesRun

(* A read that continues: the bytes it adds are the next ones.             *)
LEMMA GotGrows ==
    ASSUME NEW f \in Nat, NEW s \in Seq(Nat), s = Bytes(f, Len(s)),
           NEW q, q = f + Len(s), NEW k \in Nat
    PROVE  Run(s \o Bytes(q, k), f, Len(s) + k)
<1>1. Run(s, f, Len(s)) /\ Run(Bytes(q, k), f + Len(s), k)
  BY BytesRun
<1> QED
  BY <1>1, BytesJoin

LEMMA Parameters ==
    /\ Length \in Nat /\ BufferSize \in Nat /\ MaxFaults \in Nat
    /\ \A n \in Sizes : n \in Nat
    /\ \A p \in SeekTargets : p \in Nat
  BY InputStreamAssumption DEF InputStreamAssumption

LEMMA InitIInv == Init => IInv
<1> SUFFICES ASSUME Init PROVE IInv
  OBVIOUS
<1>1. got = Bytes(from, Len(got))
  BY DEF Init, Bytes
<1>2. TypeOK
  <2>1. ended \in BOOLEAN
    BY DEF Init
  <2>2. faults \in 0..MaxFaults
    BY Parameters DEF Init
  <2>3. got \in Seq(Nat)
    BY DEF Init
  <2> QED
    BY <2>1, <2>2, <2>3 DEF Init, TypeOK
<1>3. CallState
  BY DEF Init, CallState
<1>4. PositionKept
  BY DEF Init, PositionKept
<1>5. ReadDelivers /\ ReadReports /\ SkipHonest
  BY <1>1 DEF Init, ReadDelivers, ReadReports, SkipHonest
<1> QED
  BY <1>2, <1>3, <1>4, <1>5 DEF IInv

LEMMA StepIInv == IInv /\ [Next]_vars => IInv'
<1> SUFFICES ASSUME IInv, [Next]_vars PROVE IInv'
  OBVIOUS
<1> USE DEF IInv
<1>0. Length \in Nat /\ MaxFaults \in Nat
  BY Parameters
<1>1. ASSUME NEW n \in Sizes, ReadFromBuffer(n)
      PROVE  IInv'
  <2>0. n \in Nat
    BY <1>0, Parameters
  <2>1. /\ offset \in Nat /\ n \in Nat /\ from' = offset
        /\ got' = Bytes(base + current, n)
        /\ n > 0 => base + current = offset
        /\ base + current \in Nat
    BY <1>1, <2>0 DEF TypeOK, PositionKept, ReadFromBuffer, Call, Consume,
       Return
  <2>2. Bytes(base + current, n) = Bytes(offset, n)
    BY <2>1 DEF Bytes
  <2>3. Run(got', from', n)
    BY <2>1, <2>2, BytesRun
  <2>4. /\ got' \in Seq(Nat) /\ Len(got') = n /\ (got' = <<>> <=> n = 0)
        /\ got' = Bytes(from', Len(got'))
    BY <2>3 DEF Run
  <2>5. TypeOK'
    BY <1>0, <1>1, <2>0, <2>4 DEF TypeOK, ReadFromBuffer, Call, Consume,
       Return
  <2>6. CallState'
    BY <1>0, <1>1, <2>0, <2>4 DEF TypeOK, CallState, PositionKept,
       ReadFromBuffer, Call, Consume, Return
  <2>7. PositionKept'
    BY <1>0, <1>1, <2>0, <2>4 DEF TypeOK, CallState, PositionKept,
       ReadFromBuffer, Call, Consume, Return
  <2>8. ReadDelivers'
    BY <2>4 DEF ReadDelivers
  <2>9. ReadReports'
    BY SMTT(40), <1>0, <1>1, <2>0, <2>4 DEF TypeOK, CallState, PositionKept,
       ReadReports, ReadFromBuffer, Call, Consume, Return
  <2>10. SkipHonest'
    BY <1>0, <1>1, <2>0, <2>4 DEF TypeOK, CallState, PositionKept, SkipHonest,
       ReadFromBuffer, Call, Consume, Return
  <2> QED
    BY <2>5, <2>6, <2>7, <2>8, <2>9, <2>10
<1>2. ASSUME NEW n \in Sizes, ReadAfterEnd(n)
      PROVE  IInv'
  <2>0. n \in Nat
    BY <1>0, Parameters
  <2>1. /\ offset \in Nat /\ 0 \in Nat /\ from' = offset
        /\ got' = Bytes(base + current, 0)
        /\ 0 > 0 => base + current = offset
        /\ base + current \in Nat
    BY <1>2, <2>0 DEF TypeOK, PositionKept, ReadAfterEnd, Call, Consume,
       Return, OrEnd
  <2>2. Bytes(base + current, 0) = Bytes(offset, 0)
    BY <2>1 DEF Bytes
  <2>3. Run(got', from', 0)
    BY <2>1, <2>2, BytesRun
  <2>4. /\ got' \in Seq(Nat) /\ Len(got') = 0 /\ (got' = <<>> <=> 0 = 0)
        /\ got' = Bytes(from', Len(got'))
    BY <2>3 DEF Run
  <2>5. TypeOK'
    BY <1>0, <1>2, <2>0, <2>4 DEF TypeOK, ReadAfterEnd, Call, Consume, Return,
       OrEnd
  <2>6. CallState'
    BY <1>0, <1>2, <2>0, <2>4 DEF TypeOK, CallState, PositionKept,
       ReadAfterEnd, Call, Consume, Return, OrEnd
  <2>7. PositionKept'
    BY <1>0, <1>2, <2>0, <2>4 DEF TypeOK, CallState, PositionKept,
       ReadAfterEnd, Call, Consume, Return, OrEnd
  <2>8. ReadDelivers'
    BY <2>4 DEF ReadDelivers
  <2>9. ReadReports'
    BY <1>0, <1>2, <2>0, <2>4 DEF TypeOK, CallState, PositionKept,
       ReadReports, ReadAfterEnd, Call, Consume, Return, OrEnd
  <2>10. SkipHonest'
    BY <1>0, <1>2, <2>0, <2>4 DEF TypeOK, CallState, PositionKept, SkipHonest,
       ReadAfterEnd, Call, Consume, Return, OrEnd
  <2> QED
    BY <2>5, <2>6, <2>7, <2>8, <2>9, <2>10
<1>3. ASSUME NEW n \in Sizes, ReadStarts(n)
      PROVE  IInv'
  <2>0. n \in Nat
    BY <1>0, Parameters
  <2>1. /\ offset \in Nat /\ in_buffer \in Nat /\ from' = offset
        /\ got' = Bytes(base + current, in_buffer)
        /\ in_buffer > 0 => base + current = offset
        /\ base + current \in Nat
    BY <1>3, <2>0 DEF TypeOK, PositionKept, ReadStarts, Call, EmptyForRefill,
       Empty
  <2>2. Bytes(base + current, in_buffer) = Bytes(offset, in_buffer)
    BY <2>1 DEF Bytes
  <2>3. Run(got', from', in_buffer)
    BY <2>1, <2>2, BytesRun
  <2>4. /\ got' \in Seq(Nat) /\ Len(got') = in_buffer /\ (got' = <<>> <=> in_buffer = 0)
        /\ got' = Bytes(from', Len(got'))
    BY <2>3 DEF Run
  <2>5. TypeOK'
    BY <1>0, <1>3, <2>0, <2>4 DEF TypeOK, ReadStarts, Call, EmptyForRefill,
       Empty
  <2>6. CallState'
    <3>1. /\ pc' = "reading" /\ call' = "read" /\ ~ended'
          /\ in_buffer' = 0 /\ current' = 0 /\ skipped' = 0
      BY <1>3 DEF CallState, ReadStarts, Call, EmptyForRefill, Empty
    <3>2. /\ offset' = from' + in_buffer /\ size' = n
          /\ want' = n - in_buffer /\ in_buffer < n /\ in_buffer \in Nat
      BY <1>3 DEF TypeOK, ReadStarts, Call
    <3> QED
      BY <2>0, <2>4, <3>1, <3>2 DEF CallState
  <2>7. PositionKept'
    BY <1>0, <1>3, <2>0, <2>4 DEF TypeOK, CallState, PositionKept, ReadStarts,
       Call, EmptyForRefill, Empty
  <2>8. ReadDelivers'
    BY <2>4 DEF ReadDelivers
  <2>9. ReadReports'
    BY <1>0, <1>3, <2>0, <2>4 DEF TypeOK, CallState, PositionKept,
       ReadReports, ReadStarts, Call, EmptyForRefill, Empty
  <2>10. SkipHonest'
    BY <1>0, <1>3, <2>0, <2>4 DEF TypeOK, CallState, PositionKept, SkipHonest,
       ReadStarts, Call, EmptyForRefill, Empty
  <2> QED
    BY <2>5, <2>6, <2>7, <2>8, <2>9, <2>10
<1>4. ASSUME NEW k \in 1..Length, ReadPartOfChunk(k)
      PROVE  IInv'
  <2>0. k \in Nat \ {0}
    BY <1>0, Parameters
  <2>1. /\ from \in Nat /\ got \in Seq(Nat) /\ got = Bytes(from, Len(got))
        /\ mpos \in Nat /\ mpos = from + Len(got) /\ k \in Nat
        /\ got' = got \o Bytes(mpos, k) /\ from' = from
    BY SMTT(40), <1>4, <2>0 DEF TypeOK, CallState, PositionKept, ReadDelivers,
       ReadPartOfChunk, Delivers, Empty, callVars
  <2>2. Run(got', from', Len(got) + k)
    BY <2>1, GotGrows
  <2>3. /\ got' \in Seq(Nat) /\ Len(got') = Len(got) + k /\ (got' = <<>> <=> Len(got) + k = 0)
        /\ got' = Bytes(from', Len(got'))
    BY <2>2 DEF Run
  <2>4. Len(got) \in Nat
    BY <2>1
  <2>5. TypeOK'
    BY <1>0, <1>4, <2>0, <2>3, <2>4 DEF TypeOK, ReadPartOfChunk, Delivers,
       Empty, callVars
  <2>6. CallState'
    <3>1. /\ pc' = "reading" /\ call' = "read" /\ ~ended'
          /\ in_buffer' = 0 /\ current' = 0 /\ skipped' = 0
      BY <1>4 DEF CallState, ReadPartOfChunk, Empty, callVars
    <3>2. /\ offset' = offset + k /\ offset = from + Len(got)
          /\ want' = want - k /\ want = size - Len(got) /\ k < want
          /\ size' = size /\ size \in Nat /\ from \in Nat
      BY <1>4 DEF TypeOK, CallState, ReadPartOfChunk, callVars
    <3>3. Len(got') = Len(got) + k
      BY <2>3
    <3>4. from' = from
      BY <2>1
    <3>5. offset' = from' + Len(got')
      BY <2>0, <2>4, <3>2, <3>3, <3>4
    <3>6. want' = size' - Len(got') /\ want' > 0
      BY <2>0, <2>4, <3>2, <3>3
    <3> QED
      BY <3>1, <3>5, <3>6 DEF CallState
  <2>7. PositionKept'
    BY <1>0, <1>4, <2>0, <2>3, <2>4 DEF TypeOK, CallState, PositionKept,
       ReadPartOfChunk, Delivers, Empty, callVars
  <2>8. ReadDelivers'
    BY <2>3 DEF ReadDelivers
  <2>9. ReadReports'
    BY <1>0, <1>4, <2>0, <2>3, <2>4 DEF TypeOK, CallState, PositionKept,
       ReadReports, ReadPartOfChunk, Delivers, Empty, callVars
  <2>10. SkipHonest'
    BY <1>0, <1>4, <2>0, <2>3, <2>4 DEF TypeOK, CallState, PositionKept,
       SkipHonest, ReadPartOfChunk, Delivers, Empty, callVars
  <2> QED
    BY <2>5, <2>6, <2>7, <2>8, <2>9, <2>10
<1>5. ASSUME NEW k \in 1..Length, ReadFromChunk(k)
      PROVE  IInv'
  <2>0. k \in Nat \ {0}
    BY <1>0, Parameters
  <2>1. /\ from \in Nat /\ got \in Seq(Nat) /\ got = Bytes(from, Len(got))
        /\ mpos \in Nat /\ mpos = from + Len(got) /\ want \in Nat
        /\ got' = got \o Bytes(mpos, want) /\ from' = from
    <3>1. /\ from' = from /\ offset = from + Len(got) /\ mpos = offset
          /\ from \in Nat /\ mpos \in Nat /\ want \in Nat
      BY <1>5 DEF TypeOK, CallState, PositionKept, ReadFromChunk, callVars
    <3>2. got \in Seq(Nat) /\ got = Bytes(from, Len(got))
      BY <1>5 DEF TypeOK, CallState, ReadDelivers, ReadFromChunk
    <3>3. got' = got \o Bytes(mpos, want)
      BY SMTT(40), <1>5, <3>1 DEF CallState, ReadFromChunk
    <3> QED
      BY <3>1, <3>2, <3>3
  <2>2. Run(got', from', Len(got) + want)
    BY <2>1, GotGrows
  <2>3. /\ got' \in Seq(Nat) /\ Len(got') = Len(got) + want /\ (got' = <<>> <=> Len(got) + want = 0)
        /\ got' = Bytes(from', Len(got'))
    BY <2>2 DEF Run
  <2>4. Len(got) \in Nat
    BY <2>1
  <2>5. TypeOK'
    BY <1>0, <1>5, <2>0, <2>3, <2>4 DEF TypeOK, ReadFromChunk, Delivers,
       Return, callVars
  <2>6. CallState'
    BY <1>0, <1>5, <2>0 DEF TypeOK, CallState, PositionKept,
       ReadFromChunk, Delivers, Return, callVars
  <2>7. PositionKept'
    BY <1>0, <1>5, <2>0, <2>3, <2>4 DEF TypeOK, CallState, PositionKept,
       ReadFromChunk, Delivers, Return, callVars
  <2>8. ReadDelivers'
    BY <2>3 DEF ReadDelivers
  <2>9. ReadReports'
    <3>1. /\ offset' = offset + want /\ offset = from + Len(got)
          /\ ret' = Len(got) + want /\ size' = size /\ from' = from
          /\ want = size - Len(got) /\ size \in Nat /\ from \in Nat
          /\ want > 0
      BY <1>5 DEF TypeOK, CallState, ReadFromChunk, Return, callVars
    <3>2. Len(got') = Len(got) + want /\ got' # <<>>
      BY <2>3, <2>4, <3>1
    <3> QED
      BY <2>4, <3>1, <3>2 DEF ReadReports
  <2>10. SkipHonest'
    BY <1>0, <1>5, <2>0, <2>3, <2>4 DEF TypeOK, CallState, PositionKept,
       SkipHonest, ReadFromChunk, Delivers, Return, callVars
  <2> QED
    BY <2>5, <2>6, <2>7, <2>8, <2>9, <2>10
<1>6. ASSUME NEW k \in 1..Length, ReadDirectly(k)
      PROVE  IInv'
  <2>0. k \in Nat \ {0}
    BY <1>0, Parameters
  <2>1. /\ from \in Nat /\ got \in Seq(Nat) /\ got = Bytes(from, Len(got))
        /\ mpos \in Nat /\ mpos = from + Len(got) /\ k \in Nat
        /\ got' = got \o Bytes(mpos, k) /\ from' = from
    BY <1>6, <2>0 DEF TypeOK, CallState, PositionKept, ReadDelivers,
       ReadDirectly, Delivers, Empty, Return, callVars
  <2>2. Run(got', from', Len(got) + k)
    BY <2>1, GotGrows
  <2>3. /\ got' \in Seq(Nat) /\ Len(got') = Len(got) + k /\ (got' = <<>> <=> Len(got) + k = 0)
        /\ got' = Bytes(from', Len(got'))
    BY <2>2 DEF Run
  <2>4. Len(got) \in Nat
    BY <2>1
  <2>5. TypeOK'
    BY SMTT(40), <1>0, <1>6, <2>0, <2>3, <2>4 DEF TypeOK, ReadDirectly, Delivers, Empty,
       Return, callVars
  <2>6. CallState'
    <3>1. /\ pc = "reading" /\ call = "read" /\ call' = call
          /\ size' = size /\ from' = from /\ ~ended' /\ skipped = 0
          /\ current' = 0 /\ in_buffer' = 0
          /\ offset' = offset + k /\ offset = from + Len(got)
          /\ want = size - Len(got) /\ want \in Nat /\ k <= want
          /\ offset \in Nat /\ size \in Nat /\ from \in Nat
      BY <1>0, <1>6, <2>0 DEF TypeOK, CallState, ReadDirectly, Delivers, Empty,
         callVars
    <3>2. CASE k < want
      <4>1. want' = want - k /\ pc' = pc /\ skipped' = skipped
        BY <1>6, <3>2 DEF ReadDirectly
      <4> QED BY <2>0, <2>3, <2>4, <3>1, <3>2, <4>1 DEF CallState
    <3>3. CASE ~(k < want)
      <4>1. pc' = "idle" /\ want' = 0 /\ skipped' = 0
        BY <1>6, <3>3 DEF ReadDirectly, Return
      <4> QED BY <3>1, <4>1 DEF CallState
    <3> QED BY <3>2, <3>3
  <2>7. PositionKept'
    BY SMTT(40), <1>0, <1>6, <2>0, <2>3, <2>4 DEF TypeOK, CallState, PositionKept,
       ReadDirectly, Delivers, Empty, Return, callVars
  <2>8. ReadDelivers'
    BY <2>3 DEF ReadDelivers
  <2>9. ReadReports'
    BY <1>0, <1>6, <2>0, <2>3, <2>4 DEF TypeOK, CallState, PositionKept,
       ReadReports, ReadDirectly, Delivers, Empty, Return, callVars
  <2>10. SkipHonest'
    BY <1>0, <1>6, <2>0, <2>3, <2>4 DEF TypeOK, CallState, PositionKept,
       SkipHonest, ReadDirectly, Delivers, Empty, Return, callVars
  <2> QED
    BY <2>5, <2>6, <2>7, <2>8, <2>9, <2>10
<1>7. ASSUME ReadEnds
      PROVE  IInv'
  <2>1. TypeOK'
    BY <1>0, <1>7 DEF TypeOK, ReadEnds, RaiseEnd, Return, OrEnd, callVars
  <2>2. CallState'
    BY <1>0, <1>7 DEF TypeOK, CallState, PositionKept, ReadEnds, RaiseEnd,
       Return, OrEnd, callVars
  <2>3. PositionKept'
    BY <1>0, <1>7 DEF TypeOK, CallState, PositionKept, ReadEnds, RaiseEnd,
       Return, OrEnd, callVars
  <2>4. ReadDelivers'
    BY <1>7 DEF ReadDelivers, CallState, ReadEnds, RaiseEnd, Return, OrEnd,
       callVars
  <2>5. ReadReports'
    BY <1>0, <1>7 DEF TypeOK, CallState, PositionKept, ReadReports, ReadEnds,
       RaiseEnd, Return, OrEnd, callVars
  <2>6. SkipHonest'
    BY <1>0, <1>7 DEF TypeOK, CallState, PositionKept, SkipHonest, ReadEnds,
       RaiseEnd, Return, OrEnd, callVars
  <2> QED
    BY <2>1, <2>2, <2>3, <2>4, <2>5, <2>6
<1>8. ASSUME NEW n \in Sizes, SkipInBuffer(n)
      PROVE  IInv'
  <2>0. n \in Nat
    BY <1>0, Parameters
  <2>1. TypeOK'
    BY <1>0, <1>8, <2>0 DEF TypeOK, SkipInBuffer, Call, Consume, Return
  <2>2. CallState'
    BY <1>0, <1>8, <2>0 DEF TypeOK, CallState, PositionKept, SkipInBuffer,
       Call, Consume, Return
  <2>3. PositionKept'
    BY <1>0, <1>8, <2>0 DEF TypeOK, CallState, PositionKept, SkipInBuffer,
       Call, Consume, Return
  <2>4. ReadDelivers'
    BY <1>8 DEF ReadDelivers, CallState, SkipInBuffer, Call, Consume, Return
  <2>5. ReadReports'
    BY <1>0, <1>8, <2>0 DEF TypeOK, CallState, PositionKept, ReadReports,
       SkipInBuffer, Call, Consume, Return
  <2>6. SkipHonest'
    BY <1>0, <1>8, <2>0 DEF TypeOK, CallState, PositionKept, SkipHonest,
       SkipInBuffer, Call, Consume, Return
  <2> QED
    BY <2>1, <2>2, <2>3, <2>4, <2>5, <2>6
<1>9. ASSUME NEW n \in Sizes, SkipAfterEnd(n)
      PROVE  IInv'
  <2>0. n \in Nat
    BY <1>0, Parameters
  <2>1. TypeOK'
    BY <1>0, <1>9, <2>0 DEF TypeOK, SkipAfterEnd, Call, Consume, Return, OrEnd
  <2>2. CallState'
    BY <1>0, <1>9, <2>0 DEF TypeOK, CallState, PositionKept, SkipAfterEnd,
       Call, Consume, Return, OrEnd
  <2>3. PositionKept'
    BY <1>0, <1>9, <2>0 DEF TypeOK, CallState, PositionKept, SkipAfterEnd,
       Call, Consume, Return, OrEnd
  <2>4. ReadDelivers'
    BY <1>9 DEF ReadDelivers, CallState, SkipAfterEnd, Call, Consume, Return,
       OrEnd
  <2>5. ReadReports'
    BY <1>0, <1>9, <2>0 DEF TypeOK, CallState, PositionKept, ReadReports,
       SkipAfterEnd, Call, Consume, Return, OrEnd
  <2>6. SkipHonest'
    BY <1>0, <1>9, <2>0 DEF TypeOK, CallState, PositionKept, SkipHonest,
       SkipAfterEnd, Call, Consume, Return, OrEnd
  <2> QED
    BY <2>1, <2>2, <2>3, <2>4, <2>5, <2>6
<1>10. ASSUME NEW n \in Sizes, SkipStarts(n)
      PROVE  IInv'
  <2>0. n \in Nat
    BY <1>0, Parameters
  <2>1. TypeOK'
    BY <1>0, <1>10, <2>0 DEF TypeOK, SkipStarts, Call, LeftToSkip, Empty
  <2>2. CallState'
    BY <1>0, <1>10, <2>0 DEF TypeOK, CallState, PositionKept, SkipStarts,
       Call, LeftToSkip, Empty
  <2>3. PositionKept'
    BY <1>0, <1>10, <2>0 DEF TypeOK, CallState, PositionKept, SkipStarts,
       Call, LeftToSkip, Empty
  <2>4. ReadDelivers'
    BY <1>10 DEF ReadDelivers, CallState, SkipStarts, Call, LeftToSkip, Empty
  <2>5. ReadReports'
    BY <1>0, <1>10, <2>0 DEF TypeOK, CallState, PositionKept, ReadReports,
       SkipStarts, Call, LeftToSkip, Empty
  <2>6. SkipHonest'
    BY <1>0, <1>10, <2>0 DEF TypeOK, CallState, PositionKept, SkipHonest,
       SkipStarts, Call, LeftToSkip, Empty
  <2> QED
    BY <2>1, <2>2, <2>3, <2>4, <2>5, <2>6
<1>11. ASSUME SkipPastEnd
      PROVE  IInv'
  <2>1. TypeOK'
    BY <1>0, <1>11 DEF TypeOK, SkipPastEnd, PastTheEnd, SeekFails, SeekFault,
       Empty, Return, OrEnd, callVars
  <2>2. CallState'
    BY <1>0, <1>11 DEF TypeOK, CallState, PositionKept, SkipPastEnd,
       PastTheEnd, SeekFails, SeekFault, Empty, Return, OrEnd, callVars
  <2>3. PositionKept'
    BY <1>0, <1>11 DEF TypeOK, CallState, PositionKept, SkipPastEnd,
       PastTheEnd, SeekFails, SeekFault, Empty, Return, OrEnd, callVars
  <2>4. ReadDelivers'
    BY <1>11 DEF ReadDelivers, CallState, SkipPastEnd, PastTheEnd, SeekFails,
       SeekFault, Empty, Return, OrEnd, callVars
  <2>5. ReadReports'
    BY <1>0, <1>11 DEF TypeOK, CallState, PositionKept, ReadReports,
       SkipPastEnd, PastTheEnd, SeekFails, SeekFault, Empty, Return, OrEnd,
       callVars
  <2>6. SkipHonest'
    BY <1>0, <1>11 DEF TypeOK, CallState, PositionKept, SkipHonest,
       SkipPastEnd, PastTheEnd, SeekFails, SeekFault, Empty, Return, OrEnd,
       callVars
  <2> QED
    BY <2>1, <2>2, <2>3, <2>4, <2>5, <2>6
<1>12. ASSUME NEW k \in 1..Length, SkipMoves(k)
      PROVE  IInv'
  <2>0. k \in Nat \ {0}
    BY <1>0, Parameters
  <2>1. TypeOK'
    BY <1>0, <1>12, <2>0 DEF TypeOK, SkipMoves, PastTheEnd, bufferVars,
       callVars
  <2>2. CallState'
    BY <1>0, <1>12, <2>0 DEF TypeOK, CallState, PositionKept, SkipMoves,
       PastTheEnd, bufferVars, callVars
  <2>3. PositionKept'
    BY <1>0, <1>12, <2>0 DEF TypeOK, CallState, PositionKept, SkipMoves,
       PastTheEnd, bufferVars, callVars
  <2>4. ReadDelivers'
    BY <1>12 DEF ReadDelivers, CallState, SkipMoves, PastTheEnd, bufferVars,
       callVars
  <2>5. ReadReports'
    BY <1>0, <1>12, <2>0 DEF TypeOK, CallState, PositionKept, ReadReports,
       SkipMoves, PastTheEnd, bufferVars, callVars
  <2>6. SkipHonest'
    BY <1>0, <1>12, <2>0 DEF TypeOK, CallState, PositionKept, SkipHonest,
       SkipMoves, PastTheEnd, bufferVars, callVars
  <2> QED
    BY <2>1, <2>2, <2>3, <2>4, <2>5, <2>6
<1>13. ASSUME SkipFails
      PROVE  IInv'
  <2>1. TypeOK'
    BY <1>0, <1>13 DEF TypeOK, SkipFails, PastTheEnd, Return, OrEnd,
       bufferVars, callVars
  <2>2. CallState'
    BY <1>0, <1>13 DEF TypeOK, CallState, PositionKept, SkipFails, PastTheEnd,
       Return, OrEnd, bufferVars, callVars
  <2>3. PositionKept'
    BY <1>0, <1>13 DEF TypeOK, CallState, PositionKept, SkipFails, PastTheEnd,
       Return, OrEnd, bufferVars, callVars
  <2>4. ReadDelivers'
    BY <1>13 DEF ReadDelivers, CallState, SkipFails, PastTheEnd, Return,
       OrEnd, bufferVars, callVars
  <2>5. ReadReports'
    BY <1>0, <1>13 DEF TypeOK, CallState, PositionKept, ReadReports,
       SkipFails, PastTheEnd, Return, OrEnd, bufferVars, callVars
  <2>6. SkipHonest'
    BY <1>0, <1>13 DEF TypeOK, CallState, PositionKept, SkipHonest, SkipFails,
       PastTheEnd, Return, OrEnd, bufferVars, callVars
  <2> QED
    BY <2>1, <2>2, <2>3, <2>4, <2>5, <2>6
<1>14. ASSUME SkipReturns
      PROVE  IInv'
  <2>1. TypeOK'
    BY <1>0, <1>14 DEF TypeOK, SkipReturns, Return, bufferVars, callVars
  <2>2. CallState'
    BY <1>0, <1>14 DEF TypeOK, CallState, PositionKept, SkipReturns, Return,
       bufferVars, callVars
  <2>3. PositionKept'
    BY <1>0, <1>14 DEF TypeOK, CallState, PositionKept, SkipReturns, Return,
       bufferVars, callVars
  <2>4. ReadDelivers'
    BY <1>14 DEF ReadDelivers, CallState, SkipReturns, Return, bufferVars,
       callVars
  <2>5. ReadReports'
    BY <1>0, <1>14 DEF TypeOK, CallState, PositionKept, ReadReports,
       SkipReturns, Return, bufferVars, callVars
  <2>6. SkipHonest'
    BY <1>0, <1>14 DEF TypeOK, CallState, PositionKept, SkipHonest,
       SkipReturns, Return, bufferVars, callVars
  <2> QED
    BY <2>1, <2>2, <2>3, <2>4, <2>5, <2>6
<1>15. ASSUME NEW p \in SeekTargets, SeekMoves(p)
      PROVE  IInv'
  <2>0. p \in Nat
    BY <1>0, Parameters
  <2>1. ended' \in BOOLEAN
    BY <1>15 DEF SeekMoves
  <2>2. TypeOK'
    BY <1>15, <2>0, <2>1 DEF TypeOK, SeekMoves, Call, EmptyForSeek, Empty,
       Return
  <2>3. CallState'
    BY <1>0, <1>15, <2>0 DEF TypeOK, CallState, PositionKept, SeekMoves, Call,
       EmptyForSeek, Empty, Return
  <2>4. PositionKept'
    BY <1>0, <1>15, <2>0 DEF TypeOK, CallState, PositionKept, SeekMoves, Call,
       EmptyForSeek, Empty, Return
  <2>5. ReadDelivers'
    BY <1>15 DEF ReadDelivers, CallState, SeekMoves, Call, EmptyForSeek,
       Empty, Return
  <2>6. ReadReports'
    BY <1>0, <1>15, <2>0 DEF TypeOK, CallState, PositionKept, ReadReports,
       SeekMoves, Call, EmptyForSeek, Empty, Return
  <2>7. SkipHonest'
    BY <1>0, <1>15, <2>0 DEF TypeOK, CallState, PositionKept, SkipHonest,
       SeekMoves, Call, EmptyForSeek, Empty, Return
  <2> QED
    BY <2>2, <2>3, <2>4, <2>5, <2>6, <2>7
<1>16. ASSUME NEW p \in SeekTargets, SeekRefused(p)
      PROVE  IInv'
  <2>0. p \in Nat
    BY <1>0, Parameters
  <2>1. TypeOK'
    BY <1>0, <1>16, <2>0 DEF TypeOK, SeekRefused, Call, SeekFails, SeekFault,
       EmptyForSeek, Empty, Return
  <2>2. CallState'
    BY <1>0, <1>16, <2>0 DEF TypeOK, CallState, PositionKept, SeekRefused,
       Call, SeekFails, SeekFault, EmptyForSeek, Empty, Return
  <2>3. PositionKept'
    BY <1>0, <1>16, <2>0 DEF TypeOK, CallState, PositionKept, SeekRefused,
       Call, SeekFails, SeekFault, EmptyForSeek, Empty, Return
  <2>4. ReadDelivers'
    BY <1>16 DEF ReadDelivers, CallState, SeekRefused, Call, SeekFails,
       SeekFault, EmptyForSeek, Empty, Return
  <2>5. ReadReports'
    BY <1>0, <1>16, <2>0 DEF TypeOK, CallState, PositionKept, ReadReports,
       SeekRefused, Call, SeekFails, SeekFault, EmptyForSeek, Empty, Return
  <2>6. SkipHonest'
    BY <1>0, <1>16, <2>0 DEF TypeOK, CallState, PositionKept, SkipHonest,
       SeekRefused, Call, SeekFails, SeekFault, EmptyForSeek, Empty, Return
  <2> QED
    BY <2>1, <2>2, <2>3, <2>4, <2>5, <2>6
<1>17. CASE UNCHANGED vars
  BY <1>17 DEF vars, bufferVars, callVars, TypeOK, CallState, PositionKept,
     ReadDelivers, ReadReports, SkipHonest
<1> QED
  BY <1>1, <1>2, <1>3, <1>4, <1>5, <1>6, <1>7, <1>8, <1>9, <1>10, <1>11,
     <1>12, <1>13, <1>14, <1>15, <1>16, <1>17 DEF Next, Read, Skip, Seek,
     Media


(* InputStream keeps its inductive invariant.                              *)
THEOREM InductiveInvariant == Spec => []IInv
<1> QED
  BY InitIInv, StepIInv, PTL DEF Spec

(* The buffer is never stale and tell() never wrong, whatever the sequence *)
(* of reads, skips and seeks and however short the media's answers.        *)
THEOREM PositionIsKept == Spec => []PositionKept
  BY InductiveInvariant, PTL DEF IInv

(* Every read delivers the media's bytes, in order and without a gap.      *)
THEOREM ReadsAreFaithful == Spec => []ReadDelivers
  BY InductiveInvariant, PTL DEF IInv

(* A read reports what it delivered, and is short only at the end.         *)
THEOREM ReadsReportTruly == Spec => []ReadReports
  BY InductiveInvariant, PTL DEF IInv

(* A skip that returns what it was asked for has gone that far.            *)
THEOREM SkipsAreHonest == Spec => []SkipHonest
  BY InductiveInvariant, PTL DEF IInv

(* Only a seek of the client's brings tell() beyond the end of the media.  *)
THEOREM TellStaysInside == Spec => NoOverrun
<1>1. ASSUME IInv, [Next]_vars, offset <= Length, call' # "seek"
      PROVE  offset' <= Length
  <2> USE <1>1 DEF IInv
  <2>0. Length \in Nat /\ offset \in Nat /\ in_buffer \in Nat
    BY Parameters DEF TypeOK
  <2>1. ASSUME NEW n \in Sizes, Read(n) \/ Skip(n)
        PROVE  offset' <= Length
    <3>1. n \in Nat
      BY Parameters
    <3>2. in_buffer > 0 => offset + in_buffer <= Length
      BY <2>0 DEF TypeOK, CallState, PositionKept
    <3> QED
      BY <2>0, <2>1, <3>1, <3>2 DEF Read, Skip, ReadFromBuffer, ReadAfterEnd,
         ReadStarts, SkipInBuffer, SkipAfterEnd, SkipStarts
  <2>2. ASSUME NEW p \in SeekTargets, Seek(p)
        PROVE  FALSE
    BY <2>2 DEF Seek, SeekMoves, SeekRefused, Call
  <2>3. ASSUME NEW k \in 1..Length,
               ReadPartOfChunk(k) \/ ReadFromChunk(k) \/ ReadDirectly(k)
        PROVE  offset' <= Length
    <3>1. mpos \in Nat /\ want \in Nat /\ k \in Nat
      BY <2>0 DEF TypeOK
    <3>2. pc = "reading" => offset = mpos
      BY <2>0, <3>1 DEF TypeOK, CallState, PositionKept
    <3>3. CASE ReadPartOfChunk(k)
      BY <2>0, <3>1, <3>2, <3>3 DEF ReadPartOfChunk, Delivers
    <3>4. CASE ReadFromChunk(k)
      BY <2>0, <3>1, <3>2, <3>4 DEF ReadFromChunk, Delivers
    <3>5. CASE ReadDirectly(k)
      BY <2>0, <3>1, <3>2, <3>5 DEF ReadDirectly, Delivers
    <3> QED BY <2>3, <3>3, <3>4, <3>5
  <2>4. ASSUME NEW k \in 1..Length, SkipMoves(k)
        PROVE  offset' <= Length
    BY <2>4 DEF SkipMoves
  <2>5. CASE ReadEnds
    BY <2>5 DEF ReadEnds
  <2>6. CASE SkipPastEnd \/ SkipFails \/ SkipReturns
    BY <2>0, <2>6 DEF TypeOK, CallState, SkipPastEnd, SkipFails, SkipReturns
  <2>7. CASE UNCHANGED vars
    BY <2>7 DEF vars
  <2> QED
    BY <2>1, <2>2, <2>3, <2>4, <2>5, <2>6, <2>7 DEF Next, Media
<1>2. IInv /\ [Next]_vars
        => [(offset <= Length /\ call' # "seek") => offset' <= Length]_vars
  BY <1>1
<1> QED
  BY <1>2, InductiveInvariant, PTL DEF Spec, NoOverrun

=============================================================================
