---------------------------- MODULE MCAcServers ----------------------------
(***************************************************************************)
(* TLC instance of AcServers: three servers; the ping thread and a thread  *)
(* that posts a result.                                                    *)
(***************************************************************************)
EXTENDS AcServers

CONSTANTS s1, s2, s3

ThreeServers == <<s1, s2, s3>>
=============================================================================
