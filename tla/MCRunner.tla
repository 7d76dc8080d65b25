------------------------------ MODULE MCRunner ------------------------------
(* Instances of Runner for TLC: the retry budgets of the models and *)
(* which of them are reached over HTTP.                                 *)
EXTENDS Runner

RetriesOnce == <<1>>
RetriesMixed == <<1, 0>>
=============================================================================
