--------------------------- MODULE MCCredentials ---------------------------
(***************************************************************************)
(* Credentials for TLC, in two scenarios where the administrator decides:  *)
(* two sessions that race for one record, with two secrets, in one instant *)
(* and with one cost of hashing (the constants of Credentials.cfg); and    *)
(* one session whose requests are spread over time, with pruning of the    *)
(* rate limiter, failures and a restart with another cost.  In the third,  *)
(* RehashSpec, he does not.                                                *)
(***************************************************************************)
EXTENDS Credentials

CONSTANTS s1, s2, k1, k2
VARIABLE scenario

MCConfigs == {[cost |-> 1, attempts |-> 3]}
Alone == INSTANCE Credentials WITH
             Sessions <- {s1}, Secrets <- {k1}, PruneThreshold <- 1,
             Configs <- [cost : {1, 2}, attempts : {1}], MaxRestarts <- 1

MCInit == \/ scenario = "race" /\ CredInit /\ now = MaxTime
          \/ scenario = "alone" /\ Alone!CredInit
MCNext == /\ \/ scenario = "race" /\ CredNext
             \/ scenario = "alone" /\ Alone!CredNext
          /\ UNCHANGED scenario
MCSpec == MCInit /\ [][MCNext]_<<scenario, cvars>>

(* Two sessions and a restart that changes the cost of hashing.            *)
MCTwoCosts == [cost : {1, 2}, attempts : {3}]
RehashSpec == /\ scenario = "rehash" /\ CredInit
              /\ [][CredNext /\ UNCHANGED scenario]_<<scenario, cvars>>

\* Sessions are alike, and so are secrets.
MCSymmetry == Permutations({s1, s2}) \cup Permutations({k1, k2})
=============================================================================
