SPECIFICATION Spec
CONSTANTS
  clk = clk
  clk2 = clk2
  i = i
  rst = rst
  a = a
  b = b
  d = d
  p = p
  q = q
  x = x
  InputClock = {clk, clk2}
  Input = {i, rst}
  ResetPort = {rst}
  Register = {a, b, d}
  Clock = {p, q}
  Reset = {x}
  Designs <- ClockDesigns
  None = None
INVARIANTS
  OncePerStep
  EdgesServed
  ResetHolds
PROPERTY
  StepEnds
