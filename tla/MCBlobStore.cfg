SPECIFICATION Spec
CONSTANTS
  Cids = {b1, b2}
  Mimes = {m1, m2}
INVARIANT StoredOnOk
