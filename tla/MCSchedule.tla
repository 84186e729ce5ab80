----------------------------- MODULE MCSchedule -----------------------------
(***************************************************************************)
(* A small calendar: two minutes to the hour, two hours to the day, a week *)
(* of three days and months of two days, of which there are two.  One      *)
(* schedule comes every minute; the other on the last minute of the first  *)
(* day of a month or of the second day of a week, whichever.               *)
(***************************************************************************)
EXTENDS Triggers, TLC

EveryMinute ==
    [minutes |-> {0, 1}, hours |-> {0, 1}, days |-> {1, 2}, months |-> {1, 2},
     weekdays |-> {1, 2, 3}, domStar |-> TRUE, dowStar |-> TRUE]

FirstOrTuesday ==
    [minutes |-> {1}, hours |-> {1}, days |-> {1}, months |-> {1, 2},
     weekdays |-> {2}, domStar |-> FALSE, dowStar |-> FALSE]

Plans == {[cron |-> EveryMinute, policy |-> "skip"],
          [cron |-> FirstOrTuesday, policy |-> "catch_up"]}

Days == 0..12
CalMonth   == [d \in Days |-> ((d \div 2) % 2) + 1]
CalDay     == [d \in Days |-> (d % 2) + 1]
CalWeekday == [d \in Days |-> (d % 3) + 1]

Symmetric == Permutations(Editor) \cup Permutations(Replica)
=============================================================================
