----------------------------- MODULE GuildGames -----------------------------
(***************************************************************************)
(* What the games of a guild look like from its channels, whatever starts  *)
(* and stops overlap and whenever the process crashes: a channel has one   *)
(* game at most; a game that begins is a new one, and may take the place   *)
(* of another; a game that is resumed was begun in the same channel, and   *)
(* takes no other game's place.                                            *)
(***************************************************************************)
EXTENDS Integers, Sequences

CONSTANT Channels

VARIABLES
    playing,     \* the game played in each channel, 0 when there is none
    begun        \* the channel of each game begun so far

guildVars == <<playing, begun>>

Nothing == [c \in Channels |-> 0]

Init == playing = Nothing /\ begun = <<>>

Begin(c) ==
    /\ begun' = Append(begun, c)
    /\ playing' = [playing EXCEPT ![c] = Len(begun')]

(* It is over, or somebody ended it. *)
End(c) ==
    /\ playing' = [playing EXCEPT ![c] = 0]
    /\ UNCHANGED begun

Resume(c) ==
    /\ playing[c] = 0
    /\ \E i \in DOMAIN begun : begun[i] = c /\ playing' = [playing EXCEPT ![c] = i]
    /\ UNCHANGED begun

(* A crash, after which games are resumed. *)
EndAll == playing' = Nothing /\ UNCHANGED begun

Next == EndAll \/ \E c \in Channels : Begin(c) \/ End(c) \/ Resume(c)

Spec == Init /\ [][Next]_guildVars
=============================================================================
