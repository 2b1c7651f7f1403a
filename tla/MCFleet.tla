------------------------------- MODULE MCFleet -------------------------------
(***************************************************************************)
(* Fleet with two workers under ids of their own: ann, and ben, to whom    *)
(* different faults happen.                                                *)
(***************************************************************************)
EXTENDS Fleet

CONSTANTS ann, ben, annFaults, benFaults

MCWorkers == {ann, ben}
MCId == [p \in MCWorkers |-> p]
MCFaults == [p \in MCWorkers |-> IF p = ann THEN annFaults ELSE benFaults]
=============================================================================
