----------------------------- MODULE MCThreadPool -----------------------------
(* Instances of ThreadPool for TLC. *)
EXTENDS ThreadPool

CONSTANTS w1, w2, t1, t2, t3, main, accept

TwoWorkers == {w1, w2}
TwoTasks == {t1, t2}
ThreeTasks == {t1, t2, t3}

\* The main thread of SyncManager::syncLocal and the accept thread of
\* SyncServer::start.
MainAndAccept == {main, accept}
MainOnly == {main}

\* Thread counts; 0 is the empty pool that -t 0 creates.
ZeroToTwo == {0, 1, 2}
Two == {2}
=============================================================================
