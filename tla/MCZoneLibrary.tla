--------------------------- MODULE MCZoneLibrary ---------------------------
EXTENDS ZoneLibrary

Zone2(u1, l1, u2, l2, d12, d21) ==
  Minimize(0 .. 2, [p \in (0 .. 2) \X (0 .. 2) |->
    CASE p = <<1, 0>> -> u1 [] p = <<0, 1>> -> -l1
      [] p = <<2, 0>> -> u2 [] p = <<0, 2>> -> -l2
      [] p = <<1, 2>> -> d12 [] p = <<2, 1>> -> d21 [] OTHER -> 0])

MCStarts ==
  {NewDBM(0 .. 1), NewDBM(0 .. 2),
   Zone2(2, 1, INF, 0, INF, INF), Zone2(3, 0, 4, 2, 0, 3),
   Zone2(INF, 1, INF, 0, 1, 2), Zone2(1, 0, 3, 2, INF, INF)}
=============================================================================
