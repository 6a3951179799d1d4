--------------------------- MODULE MCNativeModel ---------------------------
(* NativeModel for TLC, with the sizes of io-prompt.cpp divided by 256. *)
EXTENDS NativeModel
=============================================================================
