-------------------------- MODULE MCProfileEngine ---------------------------
EXTENDS ProfileEngine

(* A curve flat below the floor and steep above it, as a client may draw it. *)
MCSteep == << <<45, 10>>, <<52, 20>>, <<55, 60>>, <<80, 70>>, <<90, 100>> >>
MCDrawn == {MCSteep}
=============================================================================
