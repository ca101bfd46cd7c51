---------------------------- MODULE MCCalibrate ----------------------------
EXTENDS Calibrate

Process(pid, ppid, bytes, threads) ==
    [pid |-> pid, ppid |-> ppid, bytes |-> bytes, threads |-> threads]

\* A browser, its zygote and its renderer; others of the host beside them.
Others == {Process(9, 0, 400, 30), Process(8, 9, 70, 7)}
MCBrowsers ==
  <<[footprint |-> [bytes |-> 150, threads |-> 40],
     procs |-> {Process(1, 9, 60, 20), Process(2, 1, 40, 10), Process(3, 2, 50, 10)}
                   \cup Others],
    [footprint |-> [bytes |-> 100, threads |-> 60],
     procs |-> {Process(1, 9, 70, 40), Process(2, 1, 30, 20)} \cup Others]>>

Host(mem, pids, cpus, base) ==
    [limits |-> [mem |-> mem, pids |-> pids, cpus |-> cpus], base |-> base,
     beside |-> {0}, metered |-> TRUE, linux |-> TRUE]

\* The replenisher's browser comes and goes next to calibrate's.
Shared(base) == [Host(1000, Unlimited, 8, base) EXCEPT !.beside = {0, 50}]
MCHosts ==
    {Host(1000, Unlimited, 8, 749), Host(1000, Unlimited, 8, 760), Shared(760),
     [Host(1000, Unlimited, 8, 749) EXCEPT !.metered = FALSE],
     Host(4000, 300, 8, 0), Host(Unlimited, Unlimited, 0, 0),
     [Host(9000, 4000, 4, 0) EXCEPT !.linux = FALSE]}
MCEstimate == [bytes |-> 800, threads |-> 160]
=============================================================================
