------------------------------ MODULE MCParser ------------------------------
(* Values for the constants of the parser: one lexeme of each type, and a  *)
(* second number that is too large for an index.                           *)
EXTENDS ParserGrammar

MCIdents  == {"A"}
MCNames   == {"a"}
MCStrs    == {"str"}
MCNums    == {"0", "99"}
MCBigNums == {"99"}
=============================================================================
