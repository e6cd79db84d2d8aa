SPECIFICATION Spec
CONSTANTS
  Proc = {p1, p2}
  Key = {k1}
  Val = {v1, v2}
  Addr = {a1, a2, a3}
  None = None
INVARIANT ReadsLive
