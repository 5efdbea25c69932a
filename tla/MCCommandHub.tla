---------------------------- MODULE MCCommandHub ----------------------------
(* Small instances of CommandHub for TLC. *)
EXTENDS CommandHub

CONSTANTS up1, up2, more1, part, wave, halt1

\* Two covers on channels 1 and 2: full moves that may coalesce, a measured
\* move, a raw frame to both, and their STOPs.
MCChan == [c \in Command |-> CASE c \in {up1, more1, part, halt1} -> {1}
                               [] c = up2 -> {2}
                               [] OTHER -> {1, 2}]
MCKind == [c \in Command |-> CASE c \in {up1, up2, more1, part} -> "move"
                               [] c = halt1 -> "stop"
                               [] OTHER -> "raw"]
MCKey == [c \in Command |-> IF c \in {up1, up2, more1} THEN "up" ELSE NoKey]
MCMeasured == {part} \cap Command
\* A raw frame has no owner (async_send_raw).
MCOwner == [c \in Command |-> CASE c \in {up1, more1, part, halt1} -> "one"
                                [] c = wave -> Nobody
                                [] OTHER -> "two"]

Instance(commands, departing, reported, cap, waits, budget) ==
  [commands |-> commands, departing |-> departing, reported |-> reported, cap |-> cap,
   holds |-> waits, upsets |-> budget]

\* A batch, its sibling, a raw frame between them and a STOP, undisturbed; a
\* move, a raw frame and a STOP under an unload or another upset; two moves that
\* merge, and a measured one with them; the bridge's statuses, an unload and a
\* cap of one.
MCCasts == {Instance({up2, wave, more1, halt1}, {}, {}, 5, 0, 0),
            Instance({up1, wave, halt1}, {"one"}, {}, 5, 1, 1),
            Instance({up1, more1}, {}, {}, 5, 0, 2),
            Instance({up1, more1, part}, {}, {}, 5, 0, 1),
            Instance({up1, wave, halt1}, {"one"}, {up1}, 1, 0, 1),
            Instance({up1, halt1}, {"one"}, {up1, halt1}, 1, 1, 1)}
=============================================================================
