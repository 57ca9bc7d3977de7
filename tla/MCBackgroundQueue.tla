------------------------- MODULE MCBackgroundQueue -------------------------
(* A small instance of BackgroundQueue for TLC. *)
EXTENDS BackgroundQueue

CONSTANTS caller1, caller2, insert, update, delete

MCCallers == {caller1, caller2}
MCQueries == {insert, update, delete}
=============================================================================
