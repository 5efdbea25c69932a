------------------------------ MODULE LeafModel ------------------------------
(***************************************************************************)
(* The position model of ZemismartCover (cover.py) as a value: what each   *)
(* method makes of the estimate.  A motor reports nothing; a position is   *)
(* dead reckoning from commands and heard presses.                         *)
(*                                                                         *)
(* A position is unknown, one of the two ends, or somewhere in part; the   *)
(* progress of a motion is left open, so an operator that integrates it    *)
(* returns the set of estimates it may reach.  The registry's view of the  *)
(* transmitting bridge is "unseen", "online" or "offline".                 *)
(***************************************************************************)

Unknown == "unknown"
Ends == {"closed", "open"}
Position == {Unknown, "closed", "part", "open"}

\* What set a motion going: nothing, <<"air", c>> for a command, or
\* <<"press", n>> for a heard press.
NoEvent == <<"none">>
ByCommand(m) == m.by[1] = "air"

NoMotion == [dir |-> "none", target |-> Unknown, start |-> Unknown, by |-> NoEvent,
             timed |-> FALSE, absolute |-> FALSE, recovered |-> FALSE]

\* _commit_motion fills in the start.
Motion(dir, target, by, timed, absolute) ==
  [NoMotion EXCEPT !.dir = dir, !.target = target, !.by = by, !.timed = timed,
                   !.absolute = absolute]

FullTravel(button, by) ==
  IF button = "UP" THEN Motion("up", "open", by, FALSE, TRUE)
  ELSE Motion("down", "closed", by, FALSE, TRUE)

PartTravel(button, by) ==
  Motion(IF button = "UP" THEN "up" ELSE "down", "part", by, TRUE, FALSE)

\* A new entity.  anchor is _unverified_anchor_command_id, stopped is
\* _stopped_by_heard.
Blank == [pos |-> Unknown, motion |-> NoMotion, anchored |-> FALSE, suspect |-> FALSE,
          anchor |-> NoEvent, anchorOffline |-> FALSE, stopped |-> FALSE]

Moving(f) == f.motion # NoMotion

\* position_confidence
Confidence(f) ==
  CASE f.pos = Unknown -> Unknown
    [] f.pos # Unknown /\ f.suspect -> "suspect"
    [] f.pos # Unknown /\ ~f.suspect /\ f.anchored -> "anchored"
    [] OTHER -> "assumed"

\* _estimated_position, at any progress
Estimates(f) ==
  IF ~Moving(f) \/ f.motion.start = Unknown THEN {f.pos}
  ELSE IF f.motion.start = f.motion.target THEN {f.motion.start}
  ELSE {f.motion.start, "part", f.motion.target}

\* _clear_motion
Cleared(f) == [f EXCEPT !.motion = NoMotion, !.stopped = FALSE]

\* Faulty variant: only the position goes.
ForgetPosition(f) == [f EXCEPT !.pos = Unknown]

\* _mark_unknown
MarkUnknown(f) == Blank

\* Faulty variant: an interruption clears the doubt about the estimate.
InterruptedTrusting(f) ==
  {[Cleared(f) EXCEPT !.pos = p, !.anchored = FALSE, !.suspect = FALSE] : p \in Estimates(f)}

\* _interrupt_motion
Interrupted(f) == {[Cleared(f) EXCEPT !.pos = p, !.anchored = FALSE] : p \in Estimates(f)}

\* _reconcile_unverified_anchor: a restored position that rests on a STOP of a
\* bridge not yet heard of is dropped when the bridge turns out to be offline,
\* unless a full travel is under way.
Reconciled(f, bridge) ==
  IF f.anchor = NoEvent THEN f
  ELSE IF bridge = "offline" \/ f.anchorOffline
    THEN IF Moving(f) /\ f.motion.absolute THEN [f EXCEPT !.anchorOffline = TRUE]
         ELSE MarkUnknown(f)
  ELSE IF bridge = "online" THEN [f EXCEPT !.anchor = NoEvent]
  ELSE f

\* _commit_motion behind its interruption.  displaced: hub.was_displaced knows
\* its command already.
Embarked(f, m, bridge, displaced) ==
  LET g == IF m.absolute THEN f ELSE Reconciled(f, bridge)
      h == [g EXCEPT !.motion = [m EXCEPT !.start = g.pos]]
  IN  IF m.timed /\ bridge = "offline" THEN {MarkUnknown(f)}
      ELSE IF ~m.absolute /\ g.pos = Unknown THEN {g}
      ELSE IF m.timed /\ displaced THEN Interrupted(h)
      ELSE {h}

\* _commit_motion
Committed(f, m, bridge, displaced) ==
  UNION {Embarked(g, m, bridge, displaced) : g \in Interrupted(f)}

\* _apply_stop: an untimed travel cut short by a STOP that nobody confirms
\* leaves the estimate suspect.
Stopped(f, provenance, bridge) ==
  LET doubtful == /\ provenance = "heard" /\ Moving(f)
                  /\ ~f.motion.timed /\ f.motion.target \in Ends
  IN  {[Reconciled([g EXCEPT !.suspect = @ \/ doubtful], bridge)
          EXCEPT !.stopped = (provenance = "heard")] : g \in Interrupted(f)}

\* _anchor_if_at_limit: only a travel somebody listened to all the time.
Anchored(f, observed) ==
  IF f.pos \in Ends /\ observed
    THEN [f EXCEPT !.anchor = NoEvent, !.anchorOffline = FALSE, !.anchored = TRUE,
                   !.suspect = FALSE]
    ELSE f

\* _async_track_motion at its deadline
Completed(f, bridge) ==
  LET g == Anchored([f EXCEPT !.pos = f.motion.target], ~f.motion.recovered)
  IN  Reconciled(Cleared([g EXCEPT !.suspect = @ \/ f.motion.recovered]), bridge)

\* _on_heard_press of a press that covers the leaf; otherwise part of its
\* motors moved.
Heard(f, button, covered, by, bridge) ==
  IF ~covered THEN {MarkUnknown(f)}
  ELSE IF button = "STOP" THEN Stopped(f, "heard", bridge)
  ELSE Committed(f, FullTravel(button, by), bridge, FALSE)

\* _on_displaced: the bridge flushed the STOP of a timed motion.
Frozen(f, c) ==
  IF f.motion.by = <<"air", c>> /\ f.motion.timed THEN Interrupted(f) ELSE {f}

\* Faulty variant: a timed motion goes on without its bridge.
MotionKept(f, bridge) == Reconciled(f, bridge)

\* _on_bridge_change
BridgeChanged(f, bridge) ==
  LET g == Reconciled(f, bridge)
  IN  IF g.motion.timed /\ bridge = "offline" THEN MarkUnknown(g) ELSE g

\* What the state machine keeps of an entity.
Persisted(f) ==
  [f EXCEPT !.anchored = FALSE, !.stopped = FALSE]

\* The end of a motion whose deadline passed meanwhile: the wall clock says
\* so and nobody listened.
Elapsed(f, bridge) ==
  LET g == Cleared([f EXCEPT !.pos = f.motion.target])
      unverified == /\ f.motion.timed /\ f.motion.target \notin Ends
                    /\ bridge # "online" /\ f.anchor = NoEvent
      h == Reconciled(IF unverified THEN [g EXCEPT !.anchor = f.motion.by] ELSE g, bridge)
  IN  [h EXCEPT !.suspect = (h.pos # Unknown)]

\* _async_restore_state from the persisted s
Restored(s, bridge, displaced, elapsed) ==
  LET f == Reconciled(s, bridge)
  IN  IF ~Moving(s) THEN {f}
      ELSE IF ~ByCommand(s.motion) \/ (s.motion.timed /\ (displaced \/ bridge = "offline"))
        THEN {MarkUnknown(s)}
      ELSE IF ~Moving(f) THEN {f}
      ELSE IF elapsed THEN {Elapsed(f, bridge)}
      ELSE {[f EXCEPT !.pos = p, !.motion.recovered = TRUE] : p \in Estimates(f)}
=============================================================================
