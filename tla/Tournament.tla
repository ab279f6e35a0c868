------------------------------ MODULE Tournament ------------------------------
(* examples/tournament.rs: inputs Match(a, b) and Tournament, and the        *)
(* queries score, is_disqualified and winner over them.  A roster is a       *)
(* HashSet and the leaderboard a HashMap: a query iterates over them in any  *)
(* order, and must not show which.                                           *)
EXTENDS Naturals, Sequences, FiniteSets, SequencesExt

CONSTANTS
    Teams,
    MaxChanges      \* bound: inputs set

VARIABLES
    matches,        \* the Match inputs
    roster,         \* the Tournament input
    changes

tournamentVars == <<matches, roster, changes>>

Results == {"Win", "Tie", "Loss", "Unplayed"}
Nobody  == "None"

(* Input::initial of both.                                                   *)
TournamentInit ==
    /\ matches = [m \in Teams \X Teams |-> "Unplayed"]
    /\ roster = {}
    /\ changes = 0

SetMatch(a, b, result) ==
    /\ matches' = [matches EXCEPT ![<<a, b>>] = result]
    /\ UNCHANGED roster

SetRoster(teams) ==
    /\ roster' = teams
    /\ UNCHANGED matches

Change ==
    /\ changes < MaxChanges
    /\ changes' = changes + 1
    /\ \/ \E a, b \in Teams, result \in Results : SetMatch(a, b, result)
       \/ \E teams \in SUBSET Teams : SetRoster(teams)

-----------------------------------------------------------------------------
FlipSide(result) ==
    CASE result = "Win"  -> "Loss"
      [] result = "Loss" -> "Win"
      [] OTHER           -> result

(* Mutant: taking part counts.                                               *)
IntoScoreOfLoser(result) ==
    CASE result = "Win"      -> 3
      [] result = "Unplayed" -> 0
      [] OTHER               -> 1

IntoScore(result) ==
    CASE result = "Win" -> 3
      [] result = "Tie" -> 1
      [] OTHER          -> 0

(* Team::score, both sides of every match with another team of the roster.   *)
Score(team, order) ==
    FoldLeft(LAMBDA score, other :
                IF other = team THEN score
                ELSE score + IntoScore(matches[<<team, other>>])
                           + IntoScore(FlipSide(matches[<<other, team>>])),
             0, order)

(* Mutant: a team may play with itself.                                      *)
IsDisqualifiedNever(team) == FALSE

IsDisqualified(team) == matches[<<team, team>>] # "Unplayed"

(* Tournament::winner up to the leaderboard, entries in the map's order.     *)
Leaderboard(order) ==
    LET counted == SelectSeq(order, LAMBDA team : ~IsDisqualified(team))
    IN  [n \in DOMAIN counted |-> [team |-> counted[n], score |-> Score(counted[n], order)]]

(* max_by_key: of several maxima the last.                                   *)
Leader(board) ==
    CHOOSE n \in DOMAIN board :
        /\ \A k \in DOMAIN board : board[k].score <= board[n].score
        /\ \A k \in DOMAIN board : k > n => board[k].score < board[n].score

(* Mutant: the leader wins, tied or not.                                     *)
WinnerOnTie(board) == IF board = <<>> THEN Nobody ELSE board[Leader(board)].team

(* There can only be one.                                                    *)
Winner(board) ==
    IF board = <<>> THEN Nobody
    ELSE LET best == board[Leader(board)]
             tied == {n \in DOMAIN board : board[n].score = best.score}
         IN  IF Cardinality(tied) = 1 THEN best.team ELSE Nobody

-----------------------------------------------------------------------------
(* Orders in which a hash table may give out its entries.                    *)
Orders(S) == SetToSeqs(S)
AnyOrder  == CHOOSE order \in Orders(roster) : TRUE

PointsOf(team) == Score(team, AnyOrder)

(* A query is a pure function of its inputs although it walks two hash       *)
(* tables: over every order of the roster and of the leaderboard the scores  *)
(* and the winner are the same, or caches would disagree with evaluations.   *)
OrderDoesNotShow ==
    /\ \A order \in Orders(roster), team \in Teams : Score(team, order) = PointsOf(team)
    /\ LET board == Leaderboard(AnyOrder)
       IN  \A other \in Orders(Range(board)) : Winner(other) = Winner(board)

(* "every pair of teams can play twice": each decided match between two      *)
(* teams of the roster gives three points in all, each tie two, whichever    *)
(* side called it.                                                           *)
PointsAddUp ==
    LET Played(result) ==
            {m \in roster \X roster : m[1] # m[2] /\ matches[m] \in result}
    IN  FoldLeft(LAMBDA sum, team : sum + PointsOf(team), 0, AnyOrder)
        = 3 * Cardinality(Played({"Win", "Loss"})) + 2 * Cardinality(Played({"Tie"}))
=============================================================================
