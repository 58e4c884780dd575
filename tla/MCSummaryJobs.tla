--------------------------- MODULE MCSummaryJobs ---------------------------
(* SummaryJobs for TLC: a long paper with a short abstract, one with a long  *)
(* plain text that its rebuild takes past the input cap, and one with        *)
(* neither that a rebuild brings back under the cap.                         *)
EXTENDS SummaryJobs

RouteOf(plain, stale, current) ==
    [s \in Sources |-> CASE s = "plain" -> plain [] s = "stale" -> stale [] OTHER -> current]

MCRoutes == {RouteOf("inline", "job", "job"), RouteOf("job", "job", "over_cap"),
             RouteOf("absent", "over_cap", "inline")}
=============================================================================
