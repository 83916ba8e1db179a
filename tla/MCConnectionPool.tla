-------------------------- MODULE MCConnectionPool --------------------------
(***************************************************************************)
(* Instances of ConnectionPool for TLC.                                    *)
(***************************************************************************)
EXTENDS ConnectionPool

CONSTANTS q1, q2, q3

ThreeRequests == {q1, q2, q3}
=============================================================================
