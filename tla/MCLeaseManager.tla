---------------------------- MODULE MCLeaseManager ----------------------------
(* Two job slots of one process, which share its worker_id, and two callers  *)
(* with worker_ids of their own: a slot of another process and a supervisor. *)
EXTENDS LeaseManager, TLC

CONSTANTS slot1, slot2, slot3, reaper, w1, w2, supervisor

MCCallers == {slot1, slot2, slot3, reaper}
MCWorkerOf == (slot1 :> w1) @@ (slot2 :> w1) @@ (slot3 :> w2)
                @@ (reaper :> supervisor)
===============================================================================
