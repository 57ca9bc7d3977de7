--------------------------- MODULE MCWebRequests ---------------------------
(* A small instance of WebRequests for TLC.                                 *)
EXTENDS WebRequests, TLC

CONSTANTS sender1, sender2, channel

MCSenders == {sender1, sender2}
MCChannels == {channel}
=============================================================================
