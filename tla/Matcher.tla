------------------------------- MODULE Matcher -------------------------------
(***************************************************************************)
(* wild.matches() as the loop that it is (broker/wild.go), for any filter  *)
(* that subscriptions.add() lets into the list of wildcards and any topic  *)
(* of a PUBLISH.  The index i of the code is idx and counts from one.      *)
(***************************************************************************)
EXTENDS Topics

CONSTANT MaxLen     \* bound on the parts of the topics and filters checked

ASSUME MatcherAssumption == MaxLen \in Nat

VARIABLES wild, parts, idx, result

matchVars == <<wild, parts, idx, result>>

Inputs == UNION {[1..n -> Parts] : n \in 1..MaxLen}

MatchInit ==
  /\ wild \in {w \in Inputs : IsWildcard(w) /\ Valid(w)}
  /\ parts \in Inputs
  /\ idx = 1
  /\ result = "none"

Return(b) ==
  /\ result' = b
  /\ UNCHANGED <<wild, parts, idx>>

(* The text matches, or a + excuses it.                                    *)
PartMatches == parts[idx] = wild[idx] \/ wild[idx] = "+"

(* Mutants: a forgotten i++, and one that is done twice.                   *)
NoIncrement == idx

DoubleIncrement == idx + 2

Increment == idx + 1

(* One iteration of the loop.                                              *)
Iterate ==
  /\ result = "none"
  /\ idx <= Len(parts)
  /\ \/ idx > Len(wild) /\ Return("false")
     \/ idx <= Len(wild) /\ wild[idx] = "#" /\ Return("true")
     \/ idx <= Len(wild) /\ wild[idx] # "#" /\ ~PartMatches /\ Return("false")
     \/ /\ idx <= Len(wild) /\ wild[idx] # "#" /\ PartMatches
        /\ idx' = Increment
        /\ UNCHANGED <<wild, parts, result>>

(* Mutant: finance/# does not match finance.                               *)
AtEnd == idx = Len(wild) + 1

(* The topic is used up: so is the filter, but for a # at its end.         *)
FilterUsedUp ==
  \/ idx = Len(wild) /\ wild[Len(wild)] = "#"
  \/ idx = Len(wild) + 1

Finish ==
  /\ result = "none"
  /\ idx > Len(parts)
  /\ Return(IF FilterUsedUp THEN "true" ELSE "false")

MatchNext == Iterate \/ Finish

MatchSpec == MatchInit /\ [][MatchNext]_matchVars /\ WF_matchVars(MatchNext)

----------------------------------------------------------------------------
(* Properties                                                              *)

(* The loop stays within both slices, so that no index is out of range.    *)
InRange ==
  /\ wild \in Topic /\ parts \in Topic
  /\ idx \in 1..(Len(parts) + 1)
  /\ idx <= Len(wild) + 1
  /\ result \in {"none", "true", "false"}

(* What matches() returns is what the filter means.                        *)
ReturnsCovers == result # "none" => (result = "true" <=> Covers(wild, parts))

(* matches() returns.                                                      *)
Returns == <>(result # "none")

=============================================================================
