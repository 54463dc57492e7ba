------------------------------- MODULE MCStream -------------------------------
(* Small instances of Stream for TLC.                                      *)
EXTENDS Stream

\* One piece the estimator rounds down to a token, and one of two tokens.
ShortAndLong == {1, 8}
==============================================================================
