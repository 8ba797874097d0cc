---------------------------- MODULE MCFipsTables ----------------------------
(***************************************************************************)
(* The pending wants and the life of a FIPS client side by side; mode says *)
(* which of them a behaviour is about.                                     *)
(***************************************************************************)
EXTENDS PendingWants, ClientLifecycle

VARIABLE mode

wantsVars == vars
allVars == <<mode, wantsVars, lifecycleVars>>

MCInit == mode \in {"wants", "life"} /\ Init /\ LifecycleInit /\ (mode = "wants" => slot = Tasks)

MCNext ==
    /\ \/ mode = "wants" /\ Next /\ UNCHANGED lifecycleVars
       \/ mode = "life" /\ LifecycleNext /\ UNCHANGED wantsVars
    /\ UNCHANGED mode

\* Time passes, and the transport loop calls retry_due on every turn; the
\* runtime polls tasks and callers, and its mutex is fair.
Wanting == mode = "wants"
Living == mode = "life"
MCFairness ==
    /\ WF_wantsVars(Wanting /\ Tick) /\ WF_wantsVars(Wanting /\ RetryDue)
    /\ \A t \in Tasks : WF_lifecycleVars(Living /\ Ends(t))
    /\ \A c \in Callers : /\ SF_lifecycleVars(Living /\ Lock(c))
                          /\ WF_lifecycleVars(Living /\ JoinTask(c))
                          /\ WF_lifecycleVars(Living /\ Returns(c))

MCSpec == MCInit /\ [][MCNext]_allVars /\ MCFairness
=============================================================================
