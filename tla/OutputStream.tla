---------------------------- MODULE OutputStream ----------------------------
(***************************************************************************)
(* What the output channel of a job promises the backend: every stream     *)
(* arrives as chunks laid end to end from its first byte, and a chunk that *)
(* has arrived never changes.  Duplicates of a chunk are no step at all.   *)
(***************************************************************************)
EXTENDS Integers

CONSTANTS Streams

VARIABLES made,     \* bytes the process has written to each stream
          chunks    \* the chunks of each stream the backend holds

Chunk == [off : Nat, size : Nat \ {0}]

Init == /\ made = [s \in Streams |-> 0]
        /\ chunks = [s \in Streams |-> {}]

\* Where the chunks of a stream end.
EndsAt(s, e) == /\ \A c \in chunks[s] : c.off + c.size <= e
                /\ e = 0 \/ \E c \in chunks[s] : c.off + c.size = e

Write == /\ made' \in [Streams -> Nat]
         /\ \A s \in Streams : made'[s] >= made[s]
         /\ UNCHANGED chunks

Deliver(s) ==
    /\ \E e, n \in 0..made[s] :
         /\ n > 0 /\ e + n <= made[s] /\ EndsAt(s, e)
         /\ chunks' = [chunks EXCEPT ![s] = @ \cup {[off |-> e, size |-> n]}]
    /\ UNCHANGED made

Next == Write \/ \E s \in Streams : Deliver(s)

Spec == Init /\ [][Next]_<<made, chunks>>
=============================================================================
