-------------------------- MODULE MC_KeyboardInput --------------------------
(* Values for the constants of KeyboardInput: one letter, one other key, a *)
(* ring of three slots, and reports that press, hold and release a key.     *)
EXTENDS KeyboardInput

MCReports == { [keys |-> << "d" >>, shift |-> FALSE],
               [keys |-> << "d", "bs" >>, shift |-> TRUE],
               [keys |-> <<>>, shift |-> FALSE] }
=============================================================================
