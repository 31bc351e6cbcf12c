--------------------------- MODULE MCRunLifecycle ---------------------------
(* Small plans that between them take every branch of Run.                  *)
EXTENDS RunLifecycle

CLI(commands, observers, allowed) ==
    [commands |-> commands, docker |-> TRUE, observers |-> observers,
     allowed |-> allowed, file |-> TRUE, journey |-> 0]

HTTP(commands, docker, observers, allowed) ==
    [commands |-> commands, docker |-> docker, observers |-> observers,
     allowed |-> allowed, file |-> FALSE, journey |-> 1]

AllPlans ==
    {CLI(<<"setup", "exercise">>, {"filesystem-write"}, FALSE),
     CLI(<<"exercise", "cleanup">>, {"resource-usage"}, TRUE),
     HTTP(<<"service">>, TRUE, {"port-listen"}, TRUE),
     HTTP(<<"build", "service">>, FALSE, {"port-listen"}, FALSE)}

\* The plan of the run about what the documents say of a peer.
PeerPlan == {HTTP(<<"build", "service">>, TRUE, {"port-listen"}, TRUE)}
=============================================================================
