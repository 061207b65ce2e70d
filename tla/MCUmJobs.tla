------------------------------- MODULE MCUmJobs -------------------------------
EXTENDS UmJobs, TLC

MCClients == {"c1", "c2"}
Both(k1, k2) == "c1" :> k1 @@ "c2" :> k2
MCPlans == {Both("limited", "ends"), Both("endless", "stop"), Both("bad", "ends")}
===============================================================================
