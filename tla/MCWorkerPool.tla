----------------------------- MODULE MCWorkerPool ------------------------------
(* WorkerPool for TLC: two builds, and a slot that an earlier one left.         *)
EXTENDS WorkerPool

MCThreads == {1, 2}
MCProcesses == {"p", "q"}
MCHome == <<"p", "q">>
MCWant == <<3, 2>>

MCInit == Init /\ dir = <<Past, "none", "none">>
MCSpec == MCInit /\ [][Next]_vars /\ Fairness
=============================================================================
