---------------------------- MODULE MCVideoPlayer ----------------------------
EXTENDS VideoPlayer

(* Two segments; the first covers two instants. *)
MCSegOf == <<1, 1, 2>>

(* Nothing, a gap, and files of which the walk skips the first, or finds     *)
(* nothing but a corrupt one, from a seek or at the end of the first.        *)
MCArchives == {<<{}, {}>>, <<{2}, {}>>, <<{1, 2}, {1}>>, <<{1, 2}, {2}>>}
==============================================================================
