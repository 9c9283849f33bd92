---------------------------- MODULE MCDbRepository ----------------------------
(* Two databases and two transactions that touch both of them.             *)
EXTENDS DbRepository

CONSTANTS w1, w2, a, b, k1, k2, t1, t2, v1, v2

TwoThreads == {w1, w2}
MCDbs == {a, b}
MCPriority == <<b, a>>
MCKeys == {k1, k2}
MCValues == {v1, v2}
MCTxIds == {t1, t2}

\* The default configuration is without a write-ahead log.
Setting(wal, limit, fails, serial) ==
    [wal |-> wal, limit |-> limit, fails |-> fails, serial |-> serial]

MCSettings ==
    {Setting(TRUE, 1, FALSE, FALSE), Setting(FALSE, 1, FALSE, FALSE),
     Setting(TRUE, 1, TRUE, FALSE), Setting(TRUE, 50, FALSE, TRUE)}
FailingSettings == {Setting(TRUE, 50, TRUE, FALSE)}

Put(k, v) == [key |-> k, val |-> v]
Delete(k) == [key |-> k, val |-> Deleted]

\* t1 and t2 disagree on k1 in both databases; t2 deletes what it puts first.
MCOps ==
    [t \in MCTxIds |->
        [d \in MCDbs |->
            CASE t = t1 /\ d = a -> <<Put(k1, v1), Put(k2, v1)>>
              [] t = t1 /\ d = b -> <<Put(k1, v1), Delete(k2)>>
              [] t = t2 /\ d = a -> <<Put(k2, v2), Delete(k2), Put(k1, v2)>>
              [] t = t2 /\ d = b -> <<Put(k1, v2)>>]]
===============================================================================
