---------------------------- MODULE PipelineDocs ----------------------------
(***************************************************************************)
(* What a docstring of scrape_pipeline.py says and the code does not do: a *)
(* run finds a behaviour that contradicts it.                              *)
(***************************************************************************)
EXTENDS Pipeline

\* "Also fires immediately when step2_done is set (all step-2 workers finished),
\* so step-3 workers don't wait forever when the queue is small"
\* (_trigger_watcher): when step 2 is over while the watcher polls, step 3 starts
\* or the watcher dies.
Step3Starts ==
  (main = "trigger" /\ watcher = "polling" /\ \A w \in Step2Workers : step2[w] = "exited")
     ~> (ready \/ watcher = "dead" \/ main # "trigger")
=============================================================================
