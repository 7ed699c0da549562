---------------------------- MODULE MCAirParser ----------------------------
(* TLC instance of AirParser.                                              *)
EXTENDS AirParser
=============================================================================
