------------------------------- MODULE MCParts -------------------------------
(***************************************************************************)
(* Four parts that share no state, side by side for TLC: the sample check  *)
(* of an upload, the polynomial that is posted, the texts of the           *)
(* coefficients, and the connection to the database.  A behaviour is one   *)
(* of a single part; the others stay as they are.                          *)
(***************************************************************************)
EXTENDS SampleCheck, PolySubmit, CoeffOrder, Connection

CONSTANT MaxNumber

VARIABLE part

\* The texts of the numbers up to MaxNumber, in three digits or less.
AnyTexts == {c \in UNION {[1 .. n -> Digits] : n \in 1 .. 3} : Value(c) <= MaxNumber}
CanonicalTexts == {c \in AnyTexts : Canonical(c)}

SampleIdle ==
    /\ stream = <<>> /\ scanned = 0 /\ buf = <<>> /\ records = <<>>
    /\ verdict = "accepted"

PartsInit ==
    /\ part \in {"check", "post", "texts", "connection"}
    /\ IF part = "check" THEN SampleInit ELSE SampleIdle
    /\ SubmitInit /\ OrderInit /\ ConnInit

PartsNext ==
    /\ UNCHANGED part
    /\ \/ /\ part = "check" /\ SampleNext
          /\ UNCHANGED <<submitVars, orderVars, connVars>>
       \/ /\ part = "post" /\ SubmitNext
          /\ UNCHANGED <<sampleVars, orderVars, connVars>>
       \/ /\ part = "texts" /\ OrderNext
          /\ UNCHANGED <<sampleVars, submitVars, connVars>>
       \/ /\ part = "connection" /\ ConnNext
          /\ UNCHANGED <<sampleVars, submitVars, orderVars>>

PartsSpec == PartsInit /\ [][PartsNext]_<<part, sampleVars, submitVars, orderVars, connVars>>
=============================================================================
