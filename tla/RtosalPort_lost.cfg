CONSTANTS
    t1 = t1  t2 = t2  t3 = t3
    Tasks <- MCTasks
    Creations = 2
    MaxNesting = 2
    MaxDisables = 4
SPECIFICATION Spec
PROPERTY InterruptsStatusIsPreserved
