----------------------- MODULE MCConversionOutcomes -----------------------
(* Small instances of ConversionOutcomes for TLC.                          *)
EXTENDS ConversionOutcomes, TLC

CONSTANTS a, b, l1, l2

Report(id, intent, version, status, at) ==
    [id |-> id, intent |-> intent, version |-> version, status |-> status, at |-> at,
     corrects |-> None, reason |-> FALSE]

Correction(report, id, reason) == [report EXCEPT !.corrects = id, !.reason = reason]

\* Two candidates, one intent each.
CandidateNumbers == [i \in Intents |-> i]

\* A request; two reports that compete for the next version, one a correction;
\* an id for two intents; a report ahead of its stream, or that continues the
\* stream that was migrated.
RaceReports ==
    {Report(a, 1, 1, "requested", 1), Report(b, 1, 2, "failed", 2),
     Correction(Report(b, 1, 2, "completed", 2), a, TRUE),
     Report(b, 2, 1, "accepted", 1), Report(a, 2, 3, "completed", 3)}

\* Nothing was migrated, or intent 2 was accepted after it had failed.
RaceLegacies == {{Report(l1, 2, 1, "failed", 1), Report(l2, 2, 2, "accepted", 1)}}
=============================================================================
