SPECIFICATION MCSpec
INVARIANTS
    ApprovalsStand
    RunsAreAuthorized
    ProposalsKeepIdentity
    PlansMeetTheirDecision
    
    PlanningIsSafe
    
PROPERTIES
    CaptureIsBound
    InvocationsAreSealed
    
    WavesAreEarned
