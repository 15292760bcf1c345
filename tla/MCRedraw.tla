------------------------------ MODULE MCRedraw ------------------------------
(* One view for TLC; the workers are alike, and so are the viewports.      *)
EXTENDS RedrawThread, TLC

Symmetry == Permutations(Workers) \cup Permutations(Viewports)

(* States that differ in what is overwritten before it is read are one:    *)
(* m_valid_region and the layers to restart once a drawing in full is due; *)
(* planes and thread too, if no cache entry is open to get them; the       *)
(* strips when no drawing is prepared; the history without an open entry.  *)
Drawing == gui.pc \in {"prepared", "started", "waiting", "woken"}
HasOpen == \E i \in DOMAIN cache : cache[i].open
Overwritten == canvas.clearing /\ canvas.force /\ ~Drawing
Valid == IF canvas.force /\ ~Drawing THEN "none" ELSE thread.valid

Seen ==
  <<gui, layout, worker, m_initial_update, screen, cache, posted,
    [job EXCEPT !.stray = @ /\ HasOpen],
    [canvas EXCEPT !.restart = IF canvas.clearing THEN {} ELSE @],
    IF Overwritten /\ ~HasOpen
      THEN <<>>
      ELSE <<plane, [thread EXCEPT !.strips = @ /\ (job.running \/ Drawing),
                                   !.valid = Valid]>> >>

(* Bound: a layout is built while no worker is late and no strips are due, *)
(* and three deferred methods wait only when neither is the case.          *)
Bound ==
  /\ layout.building # "no" => job.late = {} /\ Valid # "part"
  /\ Len(posted) = 3 => job.late = {} /\ layout.building = "no"
=============================================================================
