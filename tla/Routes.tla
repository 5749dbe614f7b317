-------------------------------- MODULE Routes --------------------------------
(***************************************************************************)
(* RouteMatcher: which service a path belongs to.  A path is the sequence   *)
(* of its segments, a route a sequence of literal segments, parameters      *)
(* (":id") and wildcards; "/" is the empty sequence.                        *)
(***************************************************************************)
EXTENDS Integers, Sequences, FiniteSets, SequencesExt

CONSTANTS
  Widths,     \* the number of characters of each segment
  RouteOrder, \* all routes, in the order of localeCompare
  None        \* what is not set or not there

Segments == DOMAIN Widths

ASSUME RoutesAssumption ==
  /\ Widths \in [Segments -> Nat]
  /\ RouteOrder \in Seq(Seq(Segments))

Param == ":id"
Wildcard == "*"

(* A route matches the paths it is a prefix of; a parameter stands for any   *)
(* one segment, a wildcard for all that follow (at least one).               *)
RouteMatches(path, route) ==
  /\ Len(route) <= Len(path)
  /\ \A n \in DOMAIN route : \/ route[n] \in {Param, path[n]}
                            \/ \E m \in 1 .. n : route[m] = Wildcard

SegmentScore(segment) ==
  CASE segment = Wildcard -> 1
    [] segment = Param -> 5
    [] OTHER -> 20 + Widths[segment]

(* What a segment adds to a score: its text with a slash, and its kind.      *)
Worth(segment) == 1 + Widths[segment] + SegmentScore(segment)

(* Mutant of Score: parameters are worth more than literals.                 *)
ScoreOfParams(route) ==
  Cardinality(UNION {{n} \X (1 .. (IF route[n] = Param THEN 50 ELSE Worth(route[n]))) :
                       n \in DOMAIN route})

(* How specific a route is: the sum of what its segments are worth, as the   *)
(* number of their points.                                                   *)
Points(route) == UNION {{n} \X (1 .. Worth(route[n])) : n \in DOMAIN route}

Score(route) == Cardinality(Points(route))

RouteIndex(route) == CHOOSE n \in DOMAIN RouteOrder : RouteOrder[n] = route

Precedes(a, b) ==
  \/ Score(a.route) > Score(b.route)
  \/ /\ Score(a.route) = Score(b.route)
     /\ \/ RouteIndex(a.route) < RouteIndex(b.route)
        \/ a.route = b.route /\ a.rank <= b.rank

(* The candidates that match, best first: by score, by text, and in the      *)
(* order of the registry.  candidates is a set of [service, route, rank].    *)
BestMatch(path, candidates) ==
  LET matching == {c \in candidates : RouteMatches(path, c.route)}
  IN CHOOSE c \in matching : \A other \in matching : Precedes(c, other)

HasMatch(path, candidates) == \E c \in candidates : RouteMatches(path, c.route)

IsLiteral(route) == \A n \in DOMAIN route : route[n] \notin {Param, Wildcard}
===============================================================================
