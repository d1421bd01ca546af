SPECIFICATION FairSpec
CONSTANTS
    lab = lab
    archive = archive
    ore = ore
    alloy = alloy
    LastOrder = 4
    LastCase = 2
    Departments <- Two
    Materials <- Stuff
    Processing <- MCProcessing
    CaseOf <- MCCaseOf
    DepartmentOf <- MCDepartmentOf
    RequiredWork <- MCRequiredWork
    Prerequisites <- MCPrerequisites
    Inputs <- MCInputs
    Outputs <- MCOutputs
    Requested <- MCRequested
    FinalInputs <- MCFinalInputs
    Slots <- MCSlots
    InitialStock <- MCStock
    MaxTrades = 1
INVARIANTS LanesSound OneOrderPerCase ReservationsBackLanes PrerequisitesFirst FabricatedFromOutputs
PROPERTIES TerminalClosesCase KeepsBooks QueuedWorkEnds
