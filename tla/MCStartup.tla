----------------------------- MODULE MCStartup -----------------------------
(* Startup without the deployments that only repeat others.  On PostgreSQL *)
(* development differs from production in accepting a weak setting, and is *)
(* then like production without one; and whether and where Settings or a   *)
(* factory refuses does not depend on the operator.                        *)
EXTENDS Startup

Telling ==
    /\ setting.url = "sqlite" \/ setting.production
    /\ setting.fault = "none" \/ setting.job = "none"

MCInit == Init /\ Telling

MCSpec == MCInit /\ [][Next]_vars /\ Fairness

=============================================================================
