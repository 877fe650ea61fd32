---------------------------- MODULE MCKnowledge ----------------------------
(***************************************************************************)
(* A small instance of Knowledge: three facts under three keys in a chain  *)
(* of near-duplicates that is not transitive (t1 like t2, t2 like t3, t1   *)
(* unlike t3), a fourth that is like none and has the key of t1, and       *)
(* embeddings at, below and opposite to one another.                       *)
(***************************************************************************)
EXTENDS Knowledge

MCTexts == {"t1", "t2", "t3", "t4"}
MCKeys == {"k1", "k2", "k3"}
MCKeyOf == [t \in MCTexts |-> CASE t \in {"t1", "t4"} -> "k1" [] t = "t2" -> "k2" [] t = "t3" -> "k3"]
MCAlike == {<<t, t>> : t \in MCTexts}
           \cup {<<"t1", "t2">>, <<"t2", "t1">>, <<"t2", "t3">>, <<"t3", "t2">>}

\* (1,0) and (3,4) meet at exactly 0.6, (3,4) and (-1,0) at less, and (1,0) and
\* (-1,0) are opposite.
MCVectors == {<<1, 0>>, <<3, 4>>, <<-1, 0>>}
=============================================================================
