---------------------------- MODULE MCNotifications ----------------------------
(* Instances of Notifications for TLC. *)
EXTENDS Notifications

CONSTANTS breach, outage

\* A breach of a Guardian threshold, and a critical result of the health checks.
MCFingerprints == {breach, outage}
MCSource       == [k \in MCFingerprints |-> IF k = breach THEN "guardian" ELSE "health"]
MCSeverity     == [k \in MCFingerprints |-> IF k = breach THEN "warning" ELSE "critical"]

\* The day has two ticks.  Everything, with quiet hours that pass midnight (from tick 1 of
\* a day to its end), and Guardian alone, with the first half of the day quiet.
MCChoices ==
  {[enabled |-> TRUE, sources |-> {}, severities |-> {}, start |-> 1, end |-> 0],
   [enabled |-> TRUE, sources |-> {"guardian"}, severities |-> {"warning"}, start |-> 0, end |-> 1]}
===============================================================================
