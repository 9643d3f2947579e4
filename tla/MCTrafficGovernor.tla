-------------------------- MODULE MCTrafficGovernor --------------------------
(* Instances of TrafficGovernor for TLC.                                   *)
EXTENDS TrafficGovernor, TLC

CONSTANTS t1, t2, t3, s1, s2

Request(s, p, k) == [source |-> s, priority |-> p, kind |-> k]

(* Health checks, follow checks and read-ahead, and a reader and a         *)
(* download that meet them at both kinds of lease.                         *)
MCRequests(t) ==
  CASE t = t1 -> {Request(s1, 6, "browser"), Request(s1, 4, "http")}
    [] t = t2 -> {Request(s1, 1, "browser"), Request(s2, 6, "http")}
    [] OTHER  -> {Request(s2, 5, "browser"), Request(s2, 3, "http")}

MCLimits == { [concurrency |-> 1, interval |-> 0], [concurrency |-> 2, interval |-> 1] }

=============================================================================
