-------------------------- MODULE MCKnowledgeBases --------------------------
(* Knowledge bases for TLC: the worlds that are searched, four sections of two
   documents that refer to each other and lie in each other, and the items that
   a context is made of. The names of what runs the tasks are no matter. *)
EXTENDS KnowledgeBases, TLC

MCWorlds == {[source |-> <<"a", "a", "a", "b">>, refs |-> <<{2, 3}, {3}, {1}, {}>>, parent |-> <<None, 3, 1, None>>, gone |-> {}],
             [source |-> <<"b", "a", "a", "a">>, refs |-> <<{}, {3, 4}, {}, {}>>, parent |-> <<None, None, 2, 3>>, gone |-> {3}]}
MCKinds == {[source |-> s, pages |-> p, mode |-> m, outline |-> FALSE, text |-> "t1"] : s \in Sources, p \in {{}, {1}, {1, 2}}, m \in {"text", "image"}}
           \union {[source |-> "a", pages |-> {}, mode |-> "image", outline |-> TRUE, text |-> "t1"],
                   [source |-> "a", pages |-> {1}, mode |-> "text", outline |-> FALSE, text |-> "t2"]}
Symmetry == Permutations(Threads)
=============================================================================
