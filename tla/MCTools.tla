------------------------------ MODULE MCTools ------------------------------
(* A resolver that answers with a good and a refused address, pages that   *)
(* nest, leave open and close what they never opened, one longer than the  *)
(* caps; news dated in four ways; limits that differ by one second each.   *)
EXTENDS Tools

MCPages == {<<>>, <<"a", "b", "c">>,
            <<"a", "<skip>", "b", "</skip>", "c">>,
            <<"<title>", "t", "</title>", "</skip>", "a">>,
            <<"a", "<skip>", "<skip>", "b", "</skip>", "</skip>", "c">>,
            <<"a", "<skip>", "b", "<title>", "c">>,
            <<"<skip>", "<lone>", "</skip>", "a">>}

MCRow(reads, zone) == [url |-> TRUE, reads |-> reads, zone |-> zone]
MCRows == {[MCRow(1, "naive") EXCEPT !.url = FALSE], MCRow(0, "undated"), MCRow(1, "naive"),
           MCRow(2, "naive"), MCRow(2, "utc"), MCRow(3, "east"), MCRow(2, "west")}
MCFound == UNION {[1..n -> MCRows] : n \in 0..3}

=============================================================================
