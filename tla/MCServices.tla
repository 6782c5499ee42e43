----------------------------- MODULE MCServices -----------------------------
(***************************************************************************)
(* Eight services of a server that share nothing but its clock.  Each is   *)
(* checked on its own in the same run: the first state picks the subject,  *)
(* and only its actions happen.                                            *)
(***************************************************************************)
EXTENDS PeerRequests, LoginSessions, Limiter, Scheduler, SessionMesh,
        WikiSupervisor, GroupNaming, SessionNames

VARIABLE subject

MCBackoffSteps == <<2>>

MCSettings ==
  { [enabled |-> TRUE, period |-> 2, cap |-> 1, remote |-> FALSE],
    [enabled |-> FALSE, period |-> 1, cap |-> 0, remote |-> TRUE] }

namingVars == <<groupNamingVars, sessionNamesVars, moment>>
servicesVars == <<subject, clock, reqVars, loginVars, limiterVars, schVars, meshVars,
                  wikiVars, namingVars>>

\* The state of the service at hand has its type.
ServicesTypeOK ==
  CASE subject = "requests" -> RequestsTypeOK [] subject = "login" -> LoginTypeOK
    [] subject = "limiter" -> LimiterTypeOK [] subject = "scheduler" -> SchedulerTypeOK
    [] subject = "mesh" -> MeshTypeOK [] subject = "wiki" -> WikiTypeOK
    [] subject = "groups" -> NamingTypeOK [] subject = "names" -> NamesTypeOK

ServicesInit ==
  /\ subject \in {"requests", "login", "limiter", "scheduler", "mesh", "wiki", "groups", "names"}
  /\ RequestsInit /\ LoginInit /\ LimiterInit /\ SchedulerInit /\ MeshInit /\ WikiInit
  /\ NamingInit /\ NamesInit
  /\ subject # "wiki" => live = "absent"

ServicesNext ==
  /\ UNCHANGED subject
  /\ \/ /\ subject = "requests" /\ RequestsNext
        /\ UNCHANGED <<loginVars, limiterVars, schVars, meshVars, wikiVars, namingVars>>
     \/ /\ subject = "login" /\ LoginNext
        /\ UNCHANGED <<reqVars, limiterVars, schVars, meshVars, wikiVars, namingVars>>
     \/ /\ subject = "limiter" /\ LimiterNext
        /\ UNCHANGED <<clock, reqVars, loginVars, schVars, meshVars, wikiVars, namingVars>>
     \/ /\ subject = "scheduler" /\ SchedulerNext
        /\ UNCHANGED <<reqVars, loginVars, limiterVars, meshVars, wikiVars, namingVars>>
     \/ /\ subject = "mesh" /\ MeshNext
        /\ UNCHANGED <<reqVars, loginVars, limiterVars, schVars, wikiVars, namingVars>>
     \/ /\ subject = "wiki" /\ WikiNext
        /\ UNCHANGED <<clock, reqVars, loginVars, limiterVars, schVars, meshVars, namingVars>>
     \/ /\ subject = "groups" /\ NamingNext
        /\ UNCHANGED <<clock, reqVars, loginVars, limiterVars, schVars, meshVars, wikiVars, sessionNamesVars>>
     \/ /\ subject = "names" /\ NamesNext
        /\ UNCHANGED <<clock, reqVars, loginVars, limiterVars, schVars, meshVars, wikiVars, groupNamingVars>>

ServicesSpec == ServicesInit /\ [][ServicesNext]_servicesVars
=============================================================================
