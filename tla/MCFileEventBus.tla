--------------------------- MODULE MCFileEventBus ---------------------------
(* Instances of FileEventBus for TLC. *)
EXTENDS FileEventBus

\* 1 and 2 carry the same time stamp and compete with 3 for one coordinate; 3
\* is newer and expires; 4 and 5 are plain events, too large together with 3 or
\* too many with the winner of 1 and 2; 6 is not retained.
MCCreatedAt == <<1, 1, 2, 1, 3, 1>>
MCExpiresAt == <<0, 0, 1, 0, 0, 0>>
MCCoordOf == <<"profile", "profile", "profile", NoCoordinate, NoCoordinate, NoCoordinate>>
MCSizeOf == <<1, 1, 2, 2, 1, 1>>
=============================================================================
