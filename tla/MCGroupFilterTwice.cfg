SPECIFICATION Spec
CONSTANTS
    Rows = {p1, p2, p3}
    gen_batch_size = 2
    train_batch_size = 1
    n = 2
    max_num_gen_batches = 0
    Replay = TRUE
SYMMETRY Symmetry
CHECK_DEADLOCK FALSE
INVARIANT GroupsAreMixed
