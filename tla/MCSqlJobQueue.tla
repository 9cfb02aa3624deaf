----------------------------- MODULE MCSqlJobQueue -----------------------------
(* Two extraction messages; two ticks that overlap in one process, and one  *)
(* in another that cannot make thumbnails.  A batch may hold both messages.  *)
EXTENDS SqlJobQueue, TLC

CONSTANTS m1, m2, p1, p2, t1, t2, t3

MCMessages == {m1, m2}
MCQueues == {"extraction", "thumbnail"}
MCQueueOf == m1 :> "extraction" @@ m2 :> "extraction"
MCDelay == [extraction |-> 1, thumbnail |-> 0]
MCConsumers == p1 :> MCQueues @@ p2 :> {"extraction"}
MCProcesses == {p1, p2}
MCTicks == {t1, t2, t3}
MCProcessOf == t1 :> p1 @@ t2 :> p1 @@ t3 :> p2
===============================================================================
