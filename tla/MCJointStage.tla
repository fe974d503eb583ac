---------------------------- MODULE MCJointStage ----------------------------
(* JointStage for TLC: JointStage.cfg gives every constant its value. *)
EXTENDS JointStage
=============================================================================
