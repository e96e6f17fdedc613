-------------------------- MODULE MCLonglinkStream --------------------------
(* Bodies for the model-checking runs of LonglinkStream: an empty one, one  *)
(* and two words, and with MaxPackage = 5 one that is too large.            *)
EXTENDS LonglinkStream

MCBodies == {<<>>, <<1>>, <<2, 3>>, <<4, 5, 6, 7>>}
=============================================================================
