---------------------------- MODULE MCRunLifecycle ----------------------------
(* Two processes with one job slot each.  The second is a worker process, with *)
(* a supervisor; the first is another worker process, with a supervisor or one *)
(* that sleeps, or the API process.                                            *)
EXTENDS RunLifecycle, TLC

CONSTANTS h1, h2, s1, s2, p1, p2, supervisor1, supervisor2

MCSlots == {h1, h2}
MCSupervisors == {s1}
MCTwoSupervisors == {s1, s2}
MCHostOf == (h1 :> p1) @@ (h2 :> p2) @@ (s1 :> p2) @@ (s2 :> p1)
MCWorkerOf == (h1 :> p1) @@ (h2 :> p2) @@ (s1 :> supervisor1)
                 @@ (s2 :> supervisor2)
Budget(crashes, lapses, publications, calls) ==
    [crash |-> crashes, lapse |-> lapses, publish |-> publications, call |-> calls]
MCNoFaults == {Budget(0, 0, 0, 0)}
MCOneLapse == {Budget(0, 1, 0, 0)}
MCCrashAndLapse == {Budget(1, 1, 0, 0)}
MCFaults == {Budget(1, 1, 0, 0), Budget(1, 0, 1, 0), Budget(1, 0, 0, 1)}
MCOneSlot == {h1}
\* Both slots belong to the API process.
MCApiHostOf == (h1 :> p1) @@ (h2 :> p1) @@ (s1 :> p2) @@ (s2 :> p1)
===============================================================================
