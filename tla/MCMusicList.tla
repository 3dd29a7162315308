---------------------------- MODULE MCMusicList ----------------------------
(* A server that may send two lists, one with two pictures, one with a song *)
(* that has no picture between two with the same one; two cells for up to   *)
(* three rows, so that cells are reused.                                    *)
EXTENDS MusicList

CONSTANTS u1, u2

MCAnswers == {<<u1, u2>>, <<u1, NoUrl, u1>>}
=============================================================================
