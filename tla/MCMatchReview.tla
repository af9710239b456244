---------------------------- MODULE MCMatchReview ----------------------------
(***************************************************************************)
(* Short recordings: a few looks at every rhythm that separates the rules  *)
(* (overlays hold for 2 to 12 s, windows span 14 to 18 s, rounds at least  *)
(* 35 s), longer ones of few looks, and one of rounds estimated from calm. *)
(***************************************************************************)
EXTENDS MatchReview

Blank == [text |-> {}, buy |-> 0, board |-> 0, report |-> 0, combat |-> 5, hit |-> FALSE,
          motion |-> 10, hud |-> 60]

MCLooks ==
  [buy |-> [Blank EXCEPT !.text = {"buy_phase"}, !.buy = 30],
   banner |-> [Blank EXCEPT !.buy = 92],
   death |-> [Blank EXCEPT !.text = {"combat_report", "death_report"}, !.report = 50],
   clear |-> [Blank EXCEPT !.text = {"combat_report", "death_report"}, !.report = 100],
   over |-> [Blank EXCEPT !.text = {"round_end", "scoreboard"}, !.board = 40],
   fight |-> [Blank EXCEPT !.combat = 60, !.hit = TRUE, !.motion = 20],
   skirmish |-> [Blank EXCEPT !.combat = 45, !.hit = TRUE, !.motion = 15],
   move |-> [Blank EXCEPT !.motion = 60],
   still |-> [Blank EXCEPT !.motion = 1]]

Sample(count, every, names) == [count |-> count, every |-> every, names |-> names]

MCSamples ==
  {Sample(n, every, {"buy", "death", "over", "fight", "move", "still", Broken}) :
     n \in 1 .. 3, every \in {2000, 8000, 20000}}
  \cup {Sample(4, 60000, {"buy", "death", "move"})}
  \cup {Sample(5, 5000, {"clear", "death", "still"}), Sample(5, 20000, {"buy", "fight", "skirmish"}),
        Sample(9, 15000, {"death", "fight"}), Sample(10, 11000, {"move", "still"})}

Label(type, category, at) == [type |-> type, category |-> category, at |-> at]

MCLabelSets ==
  {<<>>,
   <<Label("fight", "", 8000), Label("kill", "", 9000)>>,
   <<Label("death", "", 20000), Label("death", "", 4000), Label("hold", "", 8000)>>,
   <<Label("rotate", "", 9500), Label("macro_rotation", "", 9000), Label("round_start", "", 1000)>>,
   <<Label("", "death_review", 8000), Label("death", "", 10000)>>}
=============================================================================
