--------------------------- MODULE MCSegmentStore ---------------------------
(* Model-checking instances of SegmentStore: four segments over two or three *)
(* FFmpeg runs, a cap of two segments, one fault.                            *)
EXTENDS SegmentStore
=============================================================================
