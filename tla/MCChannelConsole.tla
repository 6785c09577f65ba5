-------------------------- MODULE MCChannelConsole --------------------------
(***************************************************************************)
(* An instance of ChannelConsole for TLC: two channels with one job each,  *)
(* one ready to run, the other missing or failed; behaviours with two      *)
(* changes of channel or workspace, or one and a handler of each form, or  *)
(* any handler and a failure, or two of some handlers at once.             *)
(* Exchanging the channels together with their jobs is a symmetry.         *)
(***************************************************************************)
EXTENDS ChannelConsole, TLC

CONSTANTS A, B, a1, b1

MCChannels == {A, B}
MCJobs == {a1, b1}
MCChannelOf == [j \in MCJobs |-> IF j = a1 THEN A ELSE B]
MCFirstTables ==
    {f \in [MCJobs -> {None, "launchable", "failed"}] :
        f[a1] # f[b1] /\ \E j \in MCJobs : f[j] = "launchable"}
MCBudgets ==
    {[switches |-> 2, calls |-> 0, failures |-> 1, ops |-> {}],
     [switches |-> 1, calls |-> 1, failures |-> 0,
      ops |-> {"sync", "retry", "bulkQueue", "preflight", "live", "started", "finished",
               "reconnect", "probe", "target"}],
     [switches |-> 0, calls |-> 1, failures |-> 1, ops |-> Ops],
     [switches |-> 0, calls |-> 2, failures |-> 1,
      ops |-> {"live", "finished", "other", "bulkQueue"}],
     [switches |-> 0, calls |-> 2, failures |-> 0, ops |-> {"probe", "commit", "target"}]}
Exchange == (A :> B) @@ (B :> A) @@ (a1 :> b1) @@ (b1 :> a1)
MCSymmetry == {Exchange}
=============================================================================
