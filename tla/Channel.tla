-------------------------------- MODULE Channel --------------------------------
(***************************************************************************)
(* What a pipe promises: a queue of at most Capacity bytes, from an end     *)
(* that may write to an end that may read, until both are closed.           *)
(***************************************************************************)
EXTENDS Integers, Sequences

CONSTANTS Byte, Capacity

VARIABLES queue, readopen, writeopen

chan == <<queue, readopen, writeopen>>

ChanInit == queue = <<>> /\ ~readopen /\ ~writeopen

Open == ~readopen /\ ~writeopen /\ readopen' /\ writeopen' /\ queue' = <<>>

\* A byte is written only while somebody may read it.
Put(b) ==
  /\ readopen /\ writeopen /\ Len(queue) < Capacity
  /\ queue' = Append(queue, b)
  /\ UNCHANGED <<readopen, writeopen>>

\* Bytes leave in the order in which they came.
Get(n) ==
  /\ readopen
  /\ queue' = SubSeq(queue, n + 1, Len(queue))
  /\ UNCHANGED <<readopen, writeopen>>

CloseRead == readopen /\ ~readopen' /\ UNCHANGED writeopen /\ queue' = IF writeopen THEN queue ELSE <<>>
CloseWrite == writeopen /\ ~writeopen' /\ UNCHANGED readopen /\ queue' = IF readopen THEN queue ELSE <<>>

ChanNext ==
  \/ Open \/ CloseRead \/ CloseWrite
  \/ \E b \in Byte : Put(b)
  \/ \E n \in 1 .. Len(queue) : Get(n)

ChanSpec == ChanInit /\ [][ChanNext]_chan

=============================================================================
