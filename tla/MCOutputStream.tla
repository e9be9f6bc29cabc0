--------------------------- MODULE MCOutputStream ---------------------------
(* Instances of OutputStream for TLC.                                       *)
EXTENDS OutputStream

\* A resize and then output; and an event no buffer can hold.
Plain == <<"output", "resize", "output", "output">>
Bulky == <<"output", "resize", "huge">>
=============================================================================
