--------------------------- MODULE MCCoverFamily ---------------------------
(* A remote with four channels: a blind on two motors, one on a single     *)
(* motor, a group over all four, the last of which nobody models.          *)
EXTENDS CoverFamily, TLC

CONSTANTS Part, Up, Down, Stop, AllDown, AllStop, AllPart,
          one, two, all

MCOp == {Part, Up, Down, Stop, AllDown, AllStop, AllPart}
MCKind == Part :> "part" @@ Up :> "up" @@ Down :> "down" @@ Stop :> "stop"
            @@ AllDown :> "down" @@ AllStop :> "stop" @@ AllPart :> "part"
MCOn == [o \in MCOp |-> IF o \in {AllDown, AllStop, AllPart} THEN all ELSE one]
MCCover == {one, two, all}
MCChan == one :> {1, 2} @@ two :> {3} @@ all :> 1..4

Instance(ops, pressed, most, ups, reloads) ==
  [ops |-> ops, presses |-> pressed, most |-> most, upsets |-> ups, reloads |-> reloads,
   start |-> "open"]

whole == {<<"UP", {1, 2}>>, <<"STOP", {1, 2}>>}

\* A measured move under two presses, one of them perhaps on half the motors, and
\* a bridge that may restart; the same across reloads; a travel of the whole
\* remote that fails or is reloaded away; a fan-out under a press, a reload and
\* a group's STOP; a group's STOP against a measured move and a press.
MCCasts ==
  { Instance({Part}, whole \cup {<<"DOWN", {1}>>}, 2, 1, {}),
    Instance({Part}, whole, 1, 2, {"fresh"}),
    Instance({Part}, whole, 1, 2, {"kept"}),
    Instance({Up}, whole, 1, 2, {"kept"}),
    Instance({AllDown}, whole, 1, 1, {"kept", "fresh"}),
    Instance({AllDown}, {}, 0, 3, {"fresh"}),
    Instance({AllPart}, whole, 1, 0, {}),
    Instance({AllPart}, {}, 0, 1, {"kept", "fresh"}),
    Instance({AllPart, AllStop}, {}, 0, 0, {}),
    Instance({Part, AllStop}, {<<"UP", {1, 2}>>}, 1, 0, {}) }

\* A leaf's travel and a group's STOP that loses its caller, while the older
\* of the two is not acknowledged yet.
OlderCasts == { Instance({Up, AllStop}, {}, 0, 1, {}) }

\* A travel, of one leaf or of the remote, that a reload meets on its way.
ReloadedCasts == { Instance({Up}, {}, 0, 1, {"kept"}), Instance({Up}, {}, 0, 1, {"fresh"}),
                   Instance({AllDown}, {}, 0, 1, {"kept"}) }
=============================================================================
