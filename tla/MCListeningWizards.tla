------------------------- MODULE MCListeningWizards -------------------------
(* Two bridges and at most two setup windows. *)
EXTENDS ListeningWizards, TLC

CONSTANTS b1, b2, w1, w2

MCUptime == b1 :> 14 @@ b2 :> 3

Frame(remote, sel, button, tabled) ==
  [remote |-> remote, sel |-> sel, button |-> button, tabled |-> tabled]

Mine(button) == Frame(Own, OwnSel, button, TRUE)

Nobody == [kind |-> "closed", bridges |-> {b1}]
Fleet(kind) == [kind |-> kind, bridges |-> Bridge]

Instance(first, second, sessions, presses, until, reboots, calm) ==
  [wizard |-> [f \in Flow |-> IF f = w1 THEN first ELSE second], sessions |-> sessions,
   presses |-> presses, until |-> until, reboots |-> reboots, calm |-> calm]

Alone(kind) == [kind |-> kind, bridges |-> {b1}]

Script(buttons) == [i \in DOMAIN buttons |-> {Mine(buttons[i])}]
Each(n, frames) == [i \in 1..n |-> frames]

strangers == {Frame("x", 1, "UP", TRUE), Frame("x", 2, "UP", TRUE)}
aside == Frame(Own, 2, "DOWN", TRUE)
trail == Frame(Own, OwnSel, "trail", FALSE)

\* A change of mind; a run too short and another one; one direction and the
\* other, or the same again; a run across a wrap or a restart of a bridge's
\* clock; strangers heard instead; a capture with rivals, with more presses than
\* are remembered, and the capture after it; windows that want the same bridges,
\* left at any moment.
MCCasts ==
  { Instance(Fleet("measure"), Nobody, 1, Script(<<"DOWN", "UP", "STOP">>), 3, 0, TRUE),
    Instance(Fleet("measure"), Nobody, 1, Script(<<"DOWN", "STOP", "UP", "STOP">>), 2, 0, TRUE),
    Instance(Alone("measure"), Nobody, 2,
             Script(<<"DOWN", "STOP">>) \o <<{Mine("UP"), Mine("DOWN")}>> \o Script(<<"STOP">>),
             2, 0, TRUE),
    Instance(Alone("measure"), Nobody, 1, Script(<<"DOWN", "STOP">>), 4, 1, TRUE),
    Instance(Alone("measure"), Nobody, 3, Each(3, strangers \cup {Mine("UP"), aside}), 0, 0, TRUE),
    Instance(Alone("learn"), Nobody, 1, Each(3, strangers \cup {Mine("UP"), aside, trail}), 2, 0, TRUE),
    Instance(Alone("learn"), Nobody, 1,
             Each(5, strangers \cup {Mine("UP"), Mine("DOWN"), Mine("STOP")}), 0, 0, TRUE),
    Instance(Alone("learn"), Nobody, 2, Script(<<"UP">>) \o Each(2, {Mine("UP"), Mine("DOWN"), aside}),
             1, 0, TRUE),
    Instance(Fleet("measure"), Nobody, 1, Script(<<"UP">>), 0, 0, FALSE),
    Instance(Alone("measure"), Fleet("learn"), 3, <<>>, 0, 0, FALSE),
    Instance(Alone("measure"), Fleet("measure"), 2, Script(<<"UP">>), 0, 0, FALSE) }
=============================================================================
