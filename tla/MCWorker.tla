------------------------------ MODULE MCWorker ------------------------------
(***************************************************************************)
(* Three jobs: one of each of two types and one of type 0, which nothing   *)
(* cancels.  Two clients, so that two cancellations overlap.               *)
(***************************************************************************)
EXTENDS Worker

CONSTANTS main, other, scan, load, plain, bit1, bit2

MCClients == {main, other}
MCJobs == {scan, load, plain}
MCBits == {bit1, bit2}
MCType == [j \in MCJobs |-> CASE j = scan -> {bit1} [] j = load -> MCBits [] OTHER -> {}]
=============================================================================
