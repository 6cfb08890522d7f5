SPECIFICATION ToolSpec
CONSTANTS
    Tenants <- MCTenants
    Rules <- MCRules
    Alerts <- MCAlerts
    For <- MCFor
    Step = 2
    Lookback = 10
    MinActive = 2
    MaxTicks = 11
    Tenant = "ottawa"
    Metrics <- MCMetrics
    Matchers <- MCMatchers
    Values <- MCValues
    RuleSets <- MCRuleSets
    MaxIngested = 1
INVARIANTS ExitOneIsAMismatch
CHECK_DEADLOCK FALSE
