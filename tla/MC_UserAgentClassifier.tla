----------------------- MODULE MC_UserAgentClassifier -----------------------
(* A small instance of UserAgentClassifier for TLC.                       *)
EXTENDS UserAgentClassifier

(* An outer layer may have put no UA or one of its own in the context.   *)
MCOuterUAs == {NoUA, UANew("u1")}

=============================================================================
