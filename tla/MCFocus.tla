------------------------------ MODULE MCFocus ------------------------------
(* A message, the ambient line, two memories and a fact.                     *)
EXTENDS Focus

MCPercepts == {[content |-> "hello", kind |-> "input", salience |-> 3],
               [content |-> "clock", kind |-> "ambient", salience |-> 1]}
MCMemories == {[content |-> "dan", kind |-> "memory"],
               [content |-> "hello", kind |-> "memory"],
               [content |-> "rain is wet", kind |-> "fact"]}
MCSlots == 1..4
MCFade == [s \in 0..3 |-> IF s = 0 THEN 0 ELSE s - 1]
MCNovelty == [r \in 0..2 |-> 2 - r]
MCBiases == {[pull |-> {}, sharpen |-> -20], [pull |-> {"ambient"}, sharpen |-> 50]}

=============================================================================
