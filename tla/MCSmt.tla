------------------------------- MODULE MCSmt -------------------------------
(* Six keys that share prefixes of 0, 1, 2 and 3 bits, told apart by a tail *)
EXTENDS SmtTree

MCKeys == { <<0,0,0,0, 0,0,0>>, <<0,0,0,1, 0,0,1>>, <<0,0,1,0, 0,1,0>>,
            <<0,1,0,0, 0,1,1>>, <<1,0,0,0, 1,0,0>>, <<1,0,1,0, 1,0,1>> }
=============================================================================
