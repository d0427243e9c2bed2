------------------------------- MODULE MCWifi -------------------------------
(***************************************************************************)
(* WifiStream for TLC.  A header is one chunk, as it is with 2048; images  *)
(* are shorter than a chunk, as long or longer; zero bytes of one, read    *)
(* as a length, make an empty frame, others an implausible one.  Four      *)
(* frame numbers: the connection holds one whole frame at most, so that at *)
(* most three frames are between the application and the host.             *)
(***************************************************************************)
EXTENDS WifiStream
=============================================================================
