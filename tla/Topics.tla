------------------------------- MODULE Topics -------------------------------
(***************************************************************************)
(* Topics and topic filters (broker/wild.go).  A topic or a filter is the  *)
(* sequence of its parts, strings.Split(topic, "/"), and never empty.  A   *)
(* part is one of Words, a wildcard, or one of Mixed: longer than a        *)
(* wildcard and containing one, such as "finance#".                        *)
(***************************************************************************)
EXTENDS Naturals, Sequences

CONSTANTS Words, Mixed

ASSUME TopicsAssumption ==
  /\ Words \cap ({"#", "+"} \cup Mixed) = {}
  /\ Mixed \cap {"#", "+"} = {}

Parts == Words \cup {"#", "+"} \cup Mixed

Topic == Seq(Parts) \ {<<>>}

(* isWildcard of one part.                                                 *)
IsWildPart(part) == part \in {"#", "+"} \cup Mixed

(* isWildcard of a whole topic.                                            *)
IsWildcard(topic) == \E i \in 1..Len(topic) : IsWildPart(topic[i])

(* wild.valid(): wildcards stand alone, and # is the last part.            *)
Valid(w) ==
  \A i \in 1..Len(w) : /\ IsWildPart(w[i]) => w[i] \in {"#", "+"}
                       /\ w[i] = "#" => i = Len(w)

(* What a valid filter means: + stands for any one part, # at the end for  *)
(* any number of them, including none.                                     *)
Covers(w, parts) ==
  LET n == IF w[Len(w)] = "#" THEN Len(w) - 1 ELSE Len(w) IN
    /\ IF n < Len(w) THEN n <= Len(parts) ELSE n = Len(parts)
    /\ \A i \in 1..n : w[i] \in {parts[i], "+"}

=============================================================================
