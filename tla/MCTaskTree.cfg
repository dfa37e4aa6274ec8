SPECIFICATION TreeSpec
CONSTANTS
    t1 = t1
    t2 = t2
    t3 = t3
    None = None
    Goals = {1}
    Tasks = {t1, t2, t3}
    GoalOf <- OneGoal
    GoalEdits = {"active", "paused"}
    TaskEdits = {"ready", "paused"}
    MaxNeeds = 1
    PatchOps = {"create", "supersede", "delete", "restore"}
SYMMETRY TaskSymmetry
INVARIANTS
    LiveBranch
    NoCircularWork
    BatchesReturnWhole
CHECK_DEADLOCK FALSE
