------------------------------ MODULE MCResearch ------------------------------
(* Instances of Research for TLC: the two models in use, in their order.      *)
EXTENDS Research

TwoModels == <<"claude", "gemini">>

=============================================================================
