----------------------------- MODULE MCProviders -----------------------------
(***************************************************************************)
(* The adapters and the tunnel's broker, side by side: a behavior is one   *)
(* of the one or of the other.                                             *)
(***************************************************************************)
EXTENDS Providers, TunnelBroker

VARIABLE part
mcVars == <<part, pvars, brokerVars>>

MCInit == part \in {"adapters", "broker"} /\ ProvidersInit /\ BrokerInit
             /\ (part = "broker" => kind = "null")

MCNext ==
    \/ part = "adapters" /\ ProvidersNext /\ UNCHANGED <<part, brokerVars>>
    \/ part = "broker" /\ BrokerNext /\ UNCHANGED <<part, pvars>>

MCSpec == MCInit /\ [][MCNext]_mcVars /\ (part = "adapters" => ProvidersFairness)
=============================================================================
