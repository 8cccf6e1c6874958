------------------------------- MODULE MCFeed -------------------------------
(* Small instances of Feed for TLC.                                        *)
EXTENDS Feed
=============================================================================
