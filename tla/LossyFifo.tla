------------------------------ MODULE LossyFifo ------------------------------
(* A queue that promises order and no copies, and nothing about loss: items  *)
(* join at the tail, one at a time and never twice; some of the head leaves. *)
EXTENDS Naturals, Sequences

CONSTANT Items
VARIABLE line

Waiting(x) == \E i \in 1..Len(line) : line[i] = x

FInit == line = <<>>

Join(x) == ~Waiting(x) /\ line' = Append(line, x)

Depart(n) == line' = SubSeq(line, n + 1, Len(line))

FNext ==
    \/ \E x \in Items : Join(x)
    \/ \E n \in 1..Len(line) : Depart(n)

FSpec == FInit /\ [][FNext]_line

=============================================================================
