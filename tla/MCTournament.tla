----------------------------- MODULE MCTournament -----------------------------
(* An instance of Tournament for TLC that may follow the steps of main, whose*)
(* asserts say who should lead after each, or make any other changes.        *)
EXTENDS Tournament, TLC

CONSTANTS MAD_BANANAS, SHY_STOMPERS, SMUG_CATS

VARIABLE at     \* steps of main made, or "free" after any other change

Played(results) == results @@ [m \in Teams \X Teams |-> "Unplayed"]

(* The four mutate calls of main.                                            *)
Opening ==
    /\ roster' = {MAD_BANANAS, SHY_STOMPERS, SMUG_CATS}
    /\ matches' = Played(<<MAD_BANANAS, SHY_STOMPERS>> :> "Win"
                      @@ <<SHY_STOMPERS, MAD_BANANAS>> :> "Tie"
                      @@ <<SHY_STOMPERS, SMUG_CATS>> :> "Loss")

MainStep ==
    /\ at' = at + 1
    /\ \/ at = 0 /\ Opening
       \/ at = 1 /\ SetMatch(SMUG_CATS, SHY_STOMPERS, "Tie")
       \/ at = 2 /\ SetMatch(MAD_BANANAS, SMUG_CATS, "Loss")
       \/ at = 3 /\ SetMatch(SMUG_CATS, SMUG_CATS, "Win")
    /\ UNCHANGED changes

Free == 99

MCInit == TournamentInit /\ at = 0
MCNext == (at < 4 /\ MainStep) \/ (Change /\ at' = Free)
MCSpec == MCInit /\ [][MCNext]_<<tournamentVars, at>>

Answer == {<<Winner(Leaderboard(order)), PointsOf(MAD_BANANAS), PointsOf(SMUG_CATS)>> :
              order \in Orders(roster)}

(* The assert_eq!s of main, tournament.rs:146-192: the bananas win, then     *)
(* they are tied with the cats, then the cats lead, then they cheat.         *)
MainAsserts ==
    at # Free => \A result \in Answer :
        /\ at = 1 => result[1] = MAD_BANANAS /\ result[2] = 4
        /\ at = 2 => result = <<Nobody, 4, 4>>
        /\ at = 3 => result[1] = SMUG_CATS /\ result[3] = 7
        /\ at = 4 => result[1] = MAD_BANANAS /\ result[2] = 4
=============================================================================
