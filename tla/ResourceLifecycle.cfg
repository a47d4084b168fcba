SPECIFICATION FairSpec
CHECK_DEADLOCK FALSE
CONSTANTS
    v1 = v1
    v2 = v2
    Workers <- MCWorkers
    ToolHosts <- MCToolHosts
    MaxEvents = 2
INVARIANTS RuntimeInStep Watched 
PROPERTIES ProvisioningEnds
