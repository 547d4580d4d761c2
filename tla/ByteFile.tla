------------------------------ MODULE ByteFile ------------------------------
(***************************************************************************)
(* What an output stream of cio.c promises its client: a file with a       *)
(* position.  The client's bytes are numbered in the order it hands them   *)
(* over; each is put at the position of the moment, and the position is    *)
(* moved by nothing but writes, skips and seeks.  An error may happen at   *)
(* any time, and after it nothing is promised.                             *)
(***************************************************************************)
EXTENDS Integers

CONSTANT FileSize    \* the positions are 0..FileSize-1

VARIABLES content,   \* content[p]: the byte at position p, 0 if none yet
          pos,       \* opj_stream_tell
          next,      \* the number of the next byte of the client
          ok

vars == <<content, pos, next, ok>>

Init ==
    /\ content = [p \in 0..(FileSize - 1) |-> 0]
    /\ pos = 0 /\ next = 1 /\ ok = TRUE

Put(n) ==
    /\ ok /\ ok'
    /\ content' = [p \in 0..(FileSize - 1) |->
                      IF p \in pos..(pos + n - 1) THEN next + (p - pos)
                                                  ELSE content[p]]
    /\ pos' = pos + n
    /\ next' = next + n

Move(p) ==
    /\ ok /\ ok'
    /\ pos' = p
    /\ UNCHANGED <<content, next>>

Fail == ok' = FALSE

Next ==
    \/ \E n \in 1..FileSize : Put(n)
    \/ \E p \in 0..FileSize : Move(p)
    \/ Fail

Spec == Init /\ [][Next]_vars
=============================================================================
