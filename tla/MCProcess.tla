----------------------------- MODULE MCProcess -----------------------------
(* Small instances of Process and Lifecycle.                               *)
EXTENDS Process, TLC

usual ==
    [readable |-> TRUE, blank |-> {}, Concurrency |-> 10, PollInterval |-> 10, ShutdownTimeout |-> 30,
     MaxMessages |-> 10, VisibilityTimeout |-> 20, WaitTime |-> 20, Indent |-> 2]
(* Every setting at and next to its limits.                                *)
edge == [Concurrency |-> {-1, 0, 1, 11}, PollInterval |-> {-1, 0}, ShutdownTimeout |-> {0, 1},
         MaxMessages |-> {-1, 0, 1, 11}, VisibilityTimeout |-> {0, 1, 43200, 43201},
         WaitTime |-> {0, 1, 21}, Indent |-> {1, 9, 10}]
required == {"RulePath", "ApplicationID", "InstallationID", "Username", "PrivateKeyPath", "QueueURL"}
MCEnvironments ==
    {usual, [usual EXCEPT !.readable = FALSE]}
      \cup {[usual EXCEPT !.blank = {f}] : f \in required}
      \cup UNION {{[usual EXCEPT ![s] = v] : v \in edge[s]} : s \in DOMAIN edge}
=============================================================================
