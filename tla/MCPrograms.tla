------------------------------ MODULE MCPrograms ------------------------------
(* Instances of the boards' programs for TLC.                               *)
EXTENDS Programs

CONSTANTS s1, s2, f1, n1, n2, p1, r1, r2

Id(product, ver, type, type2, mode) ==
  [product |-> product, ver |-> ver, type |-> type, type2 |-> type2, mode |-> mode]
T(rate, format, crtscts, clocal) ==
  [rate |-> rate, format |-> format, crtscts |-> crtscts, clocal |-> clocal]
M(type, lines, first) == [type |-> type, lines |-> lines, first |-> first]

\* A CH344L, a chip with a clock, and one with fast rates of its own.
SomeIds == {Id(\h55D5, \h41, \hC0, 0, 0), Id(\h55EC, 0, 0, 0, 0), Id(\h55DA, 0, 0, 0, 0)}

\* B0, a rate that is far from its divisor's, one below every prescaler's, and one
\* that few chips have.
SomeSettings == {T(0, "8N1", FALSE, FALSE), T(576000, "8N1", TRUE, FALSE),
                 T(50, "7E1", FALSE, TRUE), T(50, "7E1", FALSE, FALSE),
                 T(14000000, "8N1", FALSE, FALSE)}

SomeMessages == {M({"lines"}, {"CD"}, 0), M({"brk", "parity"}, {}, 1),
                 M({"lines", "parity", "frame"}, {"CD", "CTS"}, 0)}
==============================================================================
