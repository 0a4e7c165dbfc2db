---------------------------- MODULE MCSqliteStore ----------------------------
(* Instances of SqliteStore for TLC.                                         *)
EXTENDS SqliteStore

CONSTANTS s1, s2, telemetry, outcome

BothPinned == {s1, s2}
OnePinned  == {s1}
BothTables == {telemetry, outcome}
OneTable   == {telemetry}
=============================================================================
