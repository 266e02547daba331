SPECIFICATION Spec
CONSTANTS
  NoPayload = NoPayload
  Bakers = {b1, b2, b3, z}
  Byzantine = {z}
  Quorums = {{b1, b2, b3}, {b1, b2, z}, {b1, b3, z}, {b2, b3, z}}
  Payloads = {p, q}
  Rounds = {0, 1, 2}
SYMMETRY Symmetry
CHECK_DEADLOCK FALSE
INVARIANTS Agreement Inv
