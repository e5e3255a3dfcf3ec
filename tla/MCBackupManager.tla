--------------------------- MODULE MCBackupManager ---------------------------
(* An instance of BackupManager for TLC. INT_MAX is 100 and LONG_MAX 1000, so *)
(* that "500" fits a long only and "5000" neither.                            *)
EXTENDS BackupManager, TLC

SmallNumber ==
  "0" :> 0 @@ "1" :> 1 @@ "8" :> 8 @@ "500" :> 500 @@ "5000" :> 5000

Headers ==
  {Header("backup", TRUE), Header("backup", FALSE), Header("restore", TRUE)}
Pairs ==
  {Pair("thread_count", "8"), Pair("thread_count", "5000"),
   Pair("sleep_msecs", "500"), Pair("no_check", "true"), Pair("no_check", "0"),
   Pair("compress", "8"), Pair("partial_recovery", "1")}

\* files with one line, one pair under a header, a second pair after a valid one,
\* a second header after a valid pair, and all that the file alone can set
SmallFiles ==
  {<<>>, <<Other>>, <<Pair("thread_count", "8")>>}
  \cup {<<Header("backup", TRUE), p>> : p \in Pairs}
  \cup {<<h, p>> : h \in Headers,
                    p \in {Pair("no_check", "true"), Pair("partial_recovery", "1")}}
  \cup {<<Header("backup", TRUE), p, q>> :
           p \in {Pair("thread_count", "8"), Pair("no_check", "true")},
           q \in {Pair("thread_count", "5000"), Pair("no_check", "0")}}
  \cup {<<Header("backup", TRUE), Pair("no_check", "true"), h, q>> :
           h \in Headers, q \in {Pair("no_check", "0"), Pair("partial_recovery", "1")}}
  \cup {<<Header("backup", TRUE), Pair("thread_count", "8"),
          Pair("sleep_msecs", "1"), Pair("except_active_log", "1"),
          Header("restore", TRUE), Pair("partial_recovery", "1")>>}

\* a full command line, one that leaves all to the file, and refused ones
SmallInfos ==
  {[level |-> 0, flag |-> [f \in BackupFlags |-> -1]],
   [level |-> 2, flag |-> [f \in BackupFlags |-> 1]],
   [level |-> 1, flag |-> [f \in BackupFlags |-> IF f = "no_check" THEN 0 ELSE 1]],
   [level |-> 3, flag |-> [f \in BackupFlags |-> 0]],
   [level |-> 0, flag |-> [f \in BackupFlags |-> 2]]}

Symmetric == Permutations(Places)
=============================================================================
