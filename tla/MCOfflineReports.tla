-------------------------- MODULE MCOfflineReports --------------------------
(* A Thursday, a Friday, a day of the weekend and a Monday; the votes are   *)
(* followed for the first three of them.                                    *)
EXTENDS OfflineReports

ThursdayOn == <<TRUE, TRUE, FALSE, TRUE>>

ThreeDaysOfVotes == study = "votes" => DayOf(now) < 3
=============================================================================
