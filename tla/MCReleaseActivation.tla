------------------------- MODULE MCReleaseActivation -------------------------
(* Two connectors, and two budgets with an evidence document each: a site and *)
(* the workload.                                                              *)
EXTENDS ReleaseActivation

MCSites      == {"naranjo-online", "obsync"}
MCEvidenceOf == [ns \in {"naranjo-online", "obsidian"} |->
                    IF ns = "obsidian" THEN "obsync evidence" ELSE "site evidence"]
===============================================================================
