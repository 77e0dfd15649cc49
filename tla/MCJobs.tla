------------------------------- MODULE MCJobs -------------------------------
(***************************************************************************)
(* Jobs with four scripts: the shape of the solver jobs (submit, read      *)
(* back), one that fails early with its submit still in flight, one that   *)
(* adds stages from a stage (the h-sweep of the gradcheck), and a CPU job  *)
(* that never submits, yields, and drains its queue without a verdict.     *)
(***************************************************************************)
EXTENDS Jobs

Stage(touch, submit, verdict, yield, next) ==
  [touch |-> touch, submit |-> submit, verdict |-> verdict, yield |-> yield, next |-> next]
Upload  == Stage(TRUE, FALSE, FALSE, FALSE, <<>>)
Submit  == Stage(TRUE, TRUE, FALSE, FALSE, <<>>)
Compare == Stage(TRUE, FALSE, TRUE, FALSE, <<>>)
Cpu     == Stage(FALSE, FALSE, FALSE, FALSE, <<>>)

SolverJob == [roots |-> <<1, 2, 3, 4>>, stage |-> <<Upload, Submit, Submit, Compare>>]
EarlyFail == [roots |-> <<1, 2>>, stage |-> <<Stage(TRUE, TRUE, TRUE, FALSE, <<>>), Compare>>]
Sweep     == [roots |-> <<1, 5>>,
              stage |-> <<Stage(TRUE, FALSE, FALSE, FALSE, <<2, 4>>),
                          Stage(TRUE, TRUE, FALSE, FALSE, <<3>>), Cpu, Upload, Compare>>]
CpuJob    == [roots |-> <<1, 2, 3>>,
              stage |-> <<Cpu, Stage(FALSE, FALSE, FALSE, TRUE, <<>>), Cpu>>]

MCScripts == [solver |-> SolverJob, early |-> EarlyFail, sweep |-> Sweep, cpu |-> CpuJob]
=============================================================================
