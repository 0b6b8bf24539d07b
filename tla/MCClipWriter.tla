---------------------------- MODULE MCClipWriter ----------------------------
(* Model-checking instances of ClipWriter: two clips, five ticks, buffers   *)
(* of one tick.                                                              *)
EXTENDS ClipWriter
=============================================================================
