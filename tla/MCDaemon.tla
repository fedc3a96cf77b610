-------------------------------- MODULE MCDaemon --------------------------------
(* Small instances of Daemon for TLC.                                          *)
EXTENDS Daemon

CONSTANTS r1, r2, m1

TwoRequests == {r1, r2}
OneMessage  == {m1}
=============================================================================
