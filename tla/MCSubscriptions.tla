-------------------------- MODULE MCSubscriptions --------------------------
(* One or two clients, one or two workers, a topic and filters for it.     *)
EXTENDS Subscriptions, TLC

CONSTANTS c1, c2, w1, w2

A == <<"a">>
AB == <<"a", "b">>
Plus == <<"+">>
Bad == <<"#", "a">>

TopicAndPlus == {A, Plus}
TopicAndBad == {A, Bad}
OneTopic == {A}
BothTopics == {A, AB}

Symmetry == Permutations({c1, c2}) \cup Permutations({w1, w2})

=============================================================================
