---------------------------- MODULE MCNodeStore ----------------------------
(* Small instances of NodeStore for TLC.                                    *)
EXTENDS StoreHistory

CONSTANTS r1, c1, c2

OneReader == {r1}
OneCloser == {c1}
TwoClosers == {c1, c2}
=============================================================================
