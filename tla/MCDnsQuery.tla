----------------------------- MODULE MCDnsQuery -----------------------------
(* The module TLC runs for DnsQuery: ids, names and connections are alike.  *)
(* Two questions where answers are repeated and come late, with a cache for *)
(* one name; one question with more servers, where sends fail, and two again,*)
(* one perhaps under the id of the other, where sends fail.                 *)
EXTENDS DnsQuery, TLC

Again == [servers |-> 2, doh |-> {2}, cacheSize |-> 1, goal |-> 0, questions |-> 2,
          late |-> TRUE, sendsFail |-> FALSE]
Servers == [servers |-> 3, doh |-> {2}, cacheSize |-> 2, goal |-> 1, questions |-> 1,
            late |-> FALSE, sendsFail |-> TRUE]
Used == [servers |-> 2, doh |-> {}, cacheSize |-> 1, goal |-> 0, questions |-> 2,
         late |-> FALSE, sendsFail |-> TRUE]
EachWorld == {Again, Servers, Used}

Symmetry == Permutations(Ids) \cup Permutations(Names) \cup Permutations(Conns)

=============================================================================
