--------------------------- MODULE MCReportDelivery ---------------------------
(* Two deployments of a stack, both with an estimate. *)
EXTENDS ReportDelivery

Report(subscriber, cycle, phase) ==
  [subscriber |-> subscriber, cycle |-> cycle, phase |-> phase]

TwoCycles ==
  {Report("slack", 1, "ESTIMATE"), Report("slack", 1, "CONFIRMED"),
   Report("slack", 2, "ESTIMATE"), Report("slack", 2, "CONFIRMED"),
   Report("email", 2, "CONFIRMED")}
==============================================================================
