----------------------------- MODULE MCHttpGet -----------------------------
(***************************************************************************)
(* TLC instance of HttpGet: the ping thread and a thread that posts a      *)
(* result, three servers, and answers of up to MaxBytes bytes.             *)
(***************************************************************************)
EXTENDS HttpGet

CONSTANTS s1, s2, s3

ThreeServers == <<s1, s2, s3>>
=============================================================================
