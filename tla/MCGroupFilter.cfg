SPECIFICATION Spec
CONSTANTS
    Rows = {p1, p2, p3}
    gen_batch_size = 3
    train_batch_size = 2
    n = 2
    max_num_gen_batches = 3
    Replay = TRUE
SYMMETRY Symmetry
CHECK_DEADLOCK FALSE
INVARIANTS TypeOK BatchIsWhole SingleDrawsAreMixed
