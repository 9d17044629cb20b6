----------------------------- MODULE MCRelayParts -----------------------------
(***************************************************************************)
(* Four parts of the push relay that share no state, checked in one run:   *)
(* the device registry, the enrollment, the request limiter and the usage  *)
(* counters.  Each behaviour is one of one part; the others stay as they   *)
(* are at the start.                                                       *)
(***************************************************************************)
EXTENDS DeviceRegistry, Enrollment, RateLimiter, UsageRollup, TLC

CONSTANTS c1, c2, a1, k1, k2, ticket1

\* Both devices are of one Agent; both Agents were given the same ticket.
MCCredentialOf == (c1 :> a1) @@ (c2 :> a1)

MCTicketOf == (k1 :> ticket1) @@ (k2 :> ticket1)

VARIABLE part

relayPartVars == <<part, registryVars, enrollmentVars, limiterVars, usageVars>>

RelayPartsInit ==
    /\ part \in {"registry", "enrollment", "limiter", "usage"}
    /\ RegistryInit
    /\ EnrollmentInit
    /\ LimiterInit
    /\ UsageInit
    /\ part # "enrollment" => mode = "closed"

RelayPartsNext ==
    /\ UNCHANGED part
    /\ \/ /\ part = "registry"
          /\ RegistryNext
          /\ UNCHANGED <<enrollmentVars, limiterVars, usageVars>>
       \/ /\ part = "enrollment"
          /\ EnrollmentNext
          /\ UNCHANGED <<registryVars, limiterVars, usageVars>>
       \/ /\ part = "limiter"
          /\ LimiterNext
          /\ UNCHANGED <<registryVars, enrollmentVars, usageVars>>
       \/ /\ part = "usage"
          /\ UsageNext
          /\ UNCHANGED <<registryVars, enrollmentVars, limiterVars>>

RelayPartsSpec == RelayPartsInit /\ [][RelayPartsNext]_relayPartVars

RelayPartsTypeOK ==
    /\ RegistryTypeOK
    /\ EnrollmentTypeOK
    /\ LimiterTypeOK
    /\ UsageTypeOK
==============================================================================
