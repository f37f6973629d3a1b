CONSTANTS
    b1 = b1 b2 = b2 c1 = c1 c2 = c2 t1 = t1 t2 = t2
    None = None
    Boards = {b1, b2}
    Clients = {c1, c2}
    Txs = {t1, t2}
SPECIFICATION Spec
SYMMETRY RowSymmetry
INVARIANTS TypeOK
PROPERTIES Serializable
