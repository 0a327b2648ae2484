\* Two tasks, three requests, a failure or a restart, the fair worker beside them;
\* no symmetry, for liveness.
SPECIFICATION FairSpec
CONSTANTS
    project = project
    t1 = t1
    t2 = t2
    r1 = r1
    r2 = r2
    r3 = r3
    r4 = r4
    Projects = {project}
    ProjectOf <- MCProjectOf
    Tasks = {t1, t2}
    Requests = {r1, r2, r3}
    LastDate = 1
    MaxFailures = 1
INVARIANTS
    TypeOK
    PostsBound
PROPERTIES
    PutAwayStays
    WaitingIsHandled
