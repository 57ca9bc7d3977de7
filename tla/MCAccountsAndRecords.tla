------------------------- MODULE MCAccountsAndRecords -------------------------
(* A small instance of Accounts for TLC, and beside it one of AnswerRecords: *)
(* a behaviour is one of the former or one of the latter, so that the two    *)
(* do not multiply.  A player in the games of two guilds, on two clusters.   *)
EXTENDS MCAccounts, AnswerRecords

CONSTANTS game1, game2

MCGuildOfGame == [g \in {game1, game2} |-> IF g = game1 THEN "guild1" ELSE "guild2"]
MCClusterOfGame == [g \in {game1, game2} |-> IF g = game1 THEN 1 ELSE 2]

VARIABLE of

MCInit ==
    /\ Init /\ RecordsInit
    /\ \/ of = "accounts" /\ \A g \in Games, p \in Players : lastOf[g] = Nobody /\ membership[p] = NoTeam
       \/ of = "records" /\ known = {} /\ \A n \in Teams : ~teams[n].exists

MCNext ==
    /\ \/ of = "accounts" /\ Next /\ UNCHANGED recordsVars
       \/ of = "records" /\ RecordsNext /\ UNCHANGED vars
    /\ UNCHANGED of

MCSpec == MCInit /\ [][MCNext]_<<vars, recordsVars, of>>
=============================================================================
