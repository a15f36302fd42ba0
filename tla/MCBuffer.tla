------------------------------- MODULE MCBuffer -------------------------------
(***************************************************************************)
(* Model values for Buffer: chunks of one, two and three different bytes.  *)
(***************************************************************************)
EXTENDS Buffer

MCChunks == {<<1>>, <<0, 1>>, <<1, 0, 0>>}
===============================================================================
