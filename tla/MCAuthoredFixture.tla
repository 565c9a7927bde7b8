---------------------------- MODULE MCAuthoredFixture ----------------------------
(* Two to four points a frame, on an image of 8 by 8 pixels. *)
EXTENDS AuthoredFixture

\* A point is its pixel under the first correction; the second one shifts it.
MCScene(f) ==
  CASE f = 0 -> << <<1, 5>>, <<9, 9>>, <<2, 6>>, <<3, 4>> >>
    [] f = 1 -> << <<2, 4>>, <<4, 7>>, <<1, 4>>, <<0, 5>> >>
    [] f = 2 -> << <<8, 4>>, <<3, 3>>, <<4, 4>> >>
MCSeen(hidden, p) ==
  LET at == <<p[1] + hidden, p[2]>> IN IF InImage(at) THEN at ELSE Unseen

MCConfigs ==
  [hidden : {0, -1, 4}, noise : {0, 1}, fraction : {<<0, 1>>, <<1, 2>>, <<3, 5>>, <<1, 1>>}]
MCDraws(level) == IF level = 0 THEN {Zero} ELSE {<<1, 0>>, <<-1, 1>>}
MCOffset == <<3, -4>>
=============================================================================
