---------------------------- MODULE MCSendBuffer ----------------------------
(* A small instance of SendBuffer for TLC. *)
EXTENDS SendBuffer

TwoBytes == {0, 1}
=============================================================================
