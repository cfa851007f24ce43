---------------------------- MODULE MCActionAgent ----------------------------
(* Small instances of ActionAgent for TLC.                                   *)
EXTENDS ActionAgent

CONSTANTS picks, assess

BothDates == {1, 3}
=============================================================================
