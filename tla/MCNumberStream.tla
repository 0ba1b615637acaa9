--------------------------- MODULE MCNumberStream ---------------------------
(* Numbers at each change of length of either format.                      *)
EXTENDS NumberStream

Boundaries ==
  {0, 23, 24, 127, 128, 255, 256, 16384, 65535, 65536, 2097152}
=============================================================================
