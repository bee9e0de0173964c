------------------------------- MODULE MCAiJob -------------------------------
(* Model values and symmetry for checking AiJob with TLC.                    *)
EXTENDS AiJob, TLC

\* Submissions and workers are interchangeable; sound for safety runs only.
Simetri == Permutations(Req) \cup Permutations(Worker) \cup Permutations(Mode)
===============================================================================
