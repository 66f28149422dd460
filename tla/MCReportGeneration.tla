-------------------------- MODULE MCReportGeneration --------------------------
(* ReportPage for TLC.  One stored report to begin with stands for all, as    *)
(* texts are interchangeable.                                                  *)
EXTENDS ReportPage

FirstReport == CHOOSE report \in Reports : TRUE
MCPageInit == PageInit /\ row \in {NoReport, FirstReport}
MCPageSpec == MCPageInit /\ [][PageNext]_allVars /\ PageFairness
=============================================================================
