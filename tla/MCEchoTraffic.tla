---------------------------- MODULE MCEchoTraffic ----------------------------
(* Small instances of EchoTraffic for TLC: bridge A transmits, B listens. *)
EXTENDS EchoTraffic

CONSTANTS A, B, up, down, long, short, halt, plain, p1, p2, p3

Say(chans, button) == [chans |-> chans, button |-> button]
Send(chans, button, repeats, stopAfter) ==
    [bridge |-> A, chans |-> chans, button |-> button, repeats |-> repeats,
     stopAfter |-> stopAfter]

\* Two timed moves and a STOP of one cover, and moves of two others.
MCSent == [c \in Command |-> CASE c = up -> Send({1}, "UP", 1, 3)
                               [] c = down -> Send({1}, "DOWN", 1, 2)
                               [] c = halt -> Send({1}, "STOP", 2, 0)
                               [] c = plain -> Send({1}, "UP", 1, 0)
                               [] c = long -> Send({2}, "UP", 3, 0)
                               [] OTHER -> Send({3}, "UP", 2, 0)]
MCPressed == [p \in Press |-> CASE p = p1 -> Say({1}, "UP")
                                [] p = p2 -> Say({1, 2}, "STOP")
                                [] OTHER -> Say({2}, "UP")]
MCEntry == [x \in Command \cup Press |-> CASE x \in {up, plain, long, p1} -> {0}
                                           [] x \in {short, p2} -> {1}
                                           [] OTHER -> {2}]
\* A move that another displaces; neighbours that share the bridge; a move
\* between two presses.
MCCasts == {{up, down}, {long, short}, {plain, p1, p2}}
\* The first of them alone.
LateCasts == {{up, down}}

\* Three presses on the channels {1}, {1, 2} and {2}.
StaleCasts == {{p1, p2, p3}}

\* A STOP pressed while a move waits for its start, and the hub's own STOP.
HeldPressed == [p \in Press |-> Say({1}, "STOP")]
HeldEntry == [x \in Command \cup Press |-> IF x = up THEN {0} ELSE {0, 1}]
HeldCasts == {{up, halt, p1}}
=============================================================================
