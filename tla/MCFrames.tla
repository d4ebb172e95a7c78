------------------------------ MODULE MCFrames ------------------------------
(***************************************************************************)
(* TLC instance of FrameValidation: the frames that depart from a well-     *)
(* formed one in a bounded number of fields.                                *)
(***************************************************************************)
EXTENDS FrameValidation, FiniteSets

CONSTANT MaxFaults   \* bound: fields in which a frame departs from a well-formed one

\* The frames that depart from base in the fields X.
RECURSIVE Variants(_, _)
Variants(base, X) ==
    IF X = {} THEN {base}
    ELSE LET x == CHOOSE y \in X : TRUE
         IN  {[f EXCEPT ![x] = v] : f \in Variants(base, X \ {x}), v \in Values(x)}

NearFrames ==
    {NotJson, NotObject} \cup
    UNION {Variants(WellFormed(e), X) :
             e \in {Ongoing, Complete}, X \in {Y \in SUBSET Fields : Cardinality(Y) <= MaxFaults}}
=============================================================================
