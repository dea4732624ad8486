SPECIFICATION Spec
CONSTANTS
    Uids = {u1, u2}
    Thoughts = {t1, t2, t3}
    Actions = {a1, a2, a4}
    Unhashable = {a4}
    Funcs = {f1}
    thought_buffer_size = 2
SYMMETRY Symmetry
INVARIANTS TypeOK SetsMirrorQueues BatchKeepsWhatItAdds
