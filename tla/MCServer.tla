------------------------------ MODULE MCServer ------------------------------
EXTENDS Server

MCRequests == {"r1", "r2"}
\* The defaults; one use, of a process with one slot; two slots, no queue and
\* a sandbox that is required, with a token; and three that must not start.
MCSetups ==
    {[file |-> <<>>, env |-> <<>>],
     [file |-> [max_sessions |-> 2, max_queue |-> 0],
      env |-> [single_use |-> "yes", calibrate |-> "1", max_queue |-> 1]],
     [file |-> [max_sessions |-> 1, max_queue |-> 0, min_ready |-> 0,
                require_sandbox |-> TRUE],
      env |-> [token |-> "s3", proxy |-> "off"]],
     [file |-> [require_sandbox |-> TRUE], env |-> [no_sandbox |-> "on"]],
     [file |-> <<>>, env |-> [max_queue |-> Junk]],
     [file |-> [max_sessions |-> 0], env |-> <<>>]}
MCCredentials == {[query |-> "none", bearer |-> "good", origin |-> "none"],
                  [query |-> "bad", bearer |-> "good", origin |-> "remote"]}
MCLoads == {{}, {"cpu"}, {"memory", "threads"}}
=============================================================================
