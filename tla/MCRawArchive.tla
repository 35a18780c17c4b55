---------------------------- MODULE MCRawArchive ----------------------------
(* Small instances of RawArchive for TLC. *)
EXTENDS RawArchive

CONSTANTS p1, p2

\* One row whose acceptance depends on the clock.
OneSuspect == {<<p1, 0>>}
=============================================================================
