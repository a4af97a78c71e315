----------------------------- MODULE TEScreenMC -----------------------------
(* Programs and windows for TLC: what makes a state large is shared out. *)
EXTENDS TEScreen

MCSizes == {<<3, 2>>, <<2, 1>>, <<2, 2>>, <<2, 3>>, <<1, 2>>}

Case(groups, lines, columns, max) ==
    [uses |-> groups, size |-> <<lines, columns>>, max |-> max]

MCCases == { Case({"move", "edit", "margins"}, 3, 2, 0),
             Case({"move", "edit"}, 2, 3, 0),
             Case({"move", "edit"}, 2, 1, 0),
             Case({"move", "margins", "modes"}, 3, 2, 0),
             Case({"margins", "modes", "erase"}, 2, 2, 1),
             Case({"resize", "cursor"}, 2, 2, 1),
             Case({"resize", "margins"}, 3, 2, 0),
             Case({"move", "tabs"}, 2, 3, 0),
             Case({"resize", "tabs"}, 1, 2, 1),
             Case({"erase"}, 2, 2, 2),
             Case({"mouse", "margins"}, 2, 2, 0),
             Case({"mouse"}, 2, 2, 1) }
=============================================================================
