---------------------------- MODULE MCScheduler ----------------------------
(* Small instances of Scheduler: a day of two hours of two minutes. *)
EXTENDS SchedulerProps, TLC

CONSTANTS p1, p2, s1, s2, day

Every(n)   == [kind |-> "interval", every |-> n]
Cron(m, h) == [kind |-> "cron", minute |-> m, hour |-> h]
Daily      == [name |-> day, date |-> TRUE, hour |-> FALSE]
Row(spec, template, wake) == [spec |-> spec, template |-> template, wake |-> wake]

\* a daily digest by interval, and a silent one with the same dedupe template
SharedKey == (s1 :> Row(Every(2), Daily, "when_due")) @@ (s2 :> Row(Every(1), Daily, "none"))

\* an interval and a cron expression, no dedupe template
Chores == (s1 :> Row(Every(2), NoKey, "when_due")) @@ (s2 :> Row(Cron(1, -1), NoKey, "none"))
=============================================================================
