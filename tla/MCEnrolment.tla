------------------------------ MODULE MCEnrolment ------------------------------
(* Small instances of Enrolment for TLC.                                   *)
EXTENDS Enrolment

CONSTANTS alice, bob

MemberSymmetry == Permutations(Members)
==============================================================================
