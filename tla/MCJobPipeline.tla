--------------------------- MODULE MCJobPipeline ---------------------------
(* Three requests at a time: an upload to a new campaign beside a schedule,*)
(* an upload that is qualified by a second call, reviewers of one thread   *)
(* who do not agree, two schedules in one queue, events that start what a  *)
(* route or a schedule starts otherwise, on a reviewer's thread, and       *)
(* events of which one has no handler and one no route.                    *)
EXTENDS JobPipeline, TLC

CONSTANTS r1, r2, r3, c1, t1, t2, t3

MCScenarios ==
  LET Req(call, type, c, t, a) ==
        [call |-> call, type |-> type, campaign |-> c, thread |-> t, approved |-> a]
      Three(x, y, z) == (r1 :> x) @@ (r2 :> y) @@ (r3 :> z)
      New == Req("create", "unknown", c1, NoThread, FALSE)
      Due(t) == Req("tick", t, NoCampaign, NoThread, FALSE)
      Event(t) == Req("event", t, NoCampaign, NoThread, FALSE)
      EventOn(t) == Req("event", t, NoCampaign, t1, FALSE)
      Review(a) == Req("event", "brief_approval", NoCampaign, t1, a)
  IN {Three(New, Req("ingest", "qualification_batch", c1, NoThread, FALSE),
            Event("unknown")),
      Three(New, Req("upload", "unknown", c1, NoThread, FALSE),
            Req("start", "qualification_batch", c1, NoThread, FALSE)),
      Three(Review(TRUE), Review(FALSE), Event("unknown")),
      Three(Review(TRUE), Review(TRUE), Event("unknown")),
      Three(Review(FALSE), EventOn("qualification_batch"), Event("unknown")),
      Three(Due("daily_rescore"), Event("unknown"), Event("unknown")),
      Three(Due("signal_refresh"), Event("check_replies"), Event("crm_sync")),
      Three(Due("brief_refresh"), EventOn("signal_refresh"), Event("unknown"))}

MCConcurrency == [q \in Queues |-> IF q = "interactive" THEN 1 ELSE 2]
=============================================================================
