\* Four readings, a breaker that opens after two failures for two ticks.
SPECIFICATION DSpec
CONSTANTS
    Readings = {1, 2, 3, 4}
    Telemetry <- MCTelemetry
    LLMAnswers <- MCLLMAnswers
    MLAnswers <- MCMLAnswers
    NewTypes = {"DONANIM", "ISINMA"}
    Threshold = 2
    Cooldown = 2
    Scenarios <- MCScenarios
INVARIANTS
    IncidentsHavePredictions
    AccuracyIsAShare
PROPERTIES
    OutageSparesTheLLM
    HealthyLLMIsAsked
CHECK_DEADLOCK FALSE
