SPECIFICATION Spec
CONSTANTS
    k1 = k1
    k2 = k2
    k3 = k3
    Campaigns = {k1, k2, k3}
    Names = 3
    Needs <- Ring
    Dir <- OneDir
    None = None
    Faults = {"killed"}
INVARIANTS ResourcesExclusive SomeCampaignRuns
