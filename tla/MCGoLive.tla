------------------------------ MODULE MCGoLive ------------------------------
(* Small instances of GoLive for TLC.                                      *)
EXTENDS GoLive, TLC

CONSTANTS b1, b2, rtmp, tube, chan, yt, tw

\* A stream-key destination, one with a broadcast per go-live and a channel.
MCAccountOf == rtmp :> NoAccount @@ tube :> yt @@ chan :> tw
MCOrder == b1 :> 1 @@ b2 :> 2
MCBroadcasts == b1 :> {tube} @@ b2 :> {chan, rtmp}
MCArms == b1 :> {rtmp} @@ b2 :> {chan}
=============================================================================
