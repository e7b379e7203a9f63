\* One edit, one rule-set version, one amendment and one failure, among the
\* three jobs that ARQ accepts.
SPECIFICATION Spec
CONSTANTS
    Pipelines = {process, reprocess}
    Editors = {e1}
    None = None
    MaxEdits = 1
    MaxRuleSaves = 1
    MaxAmends = 1
    MaxFailures = 1
    MaxJobs = 3
INVARIANTS
    TypeOK
    
PROPERTIES
    CalmRunsSettle
SYMMETRY McSymmetry
\* ARQ accepts MaxJobs jobs, and then everything is done.
CHECK_DEADLOCK FALSE
