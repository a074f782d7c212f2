------------------------------ MODULE MCPages ------------------------------
(* AIDetection, whose loop reads three endpoints, ThreatScoring, which      *)
(* blanks on failure, Honeypot, whose sections come and go, and             *)
(* ShapExplainability, which survives an unreadable body and keeps what it  *)
(* shows when version 2 has nothing to explain; two loops, so that one of a *)
(* page left and one of the page shown run together.                        *)
EXTENDS Pages

MCTimeOf == <<1, 1>>
MCEmpties ==
    {<<"profiles", 1>>, <<"history", 2>>, <<"Model Online", 1>>, <<"stats", 1>>,
     <<"confirmed", 1>>, <<"uncorrelated", 2>>, <<"explanations", 2>>}
MCMatching == {Rows, CriticalRows}
=============================================================================
