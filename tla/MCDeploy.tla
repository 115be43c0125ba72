------------------------------ MODULE MCDeploy ------------------------------
(* Four commands: a bootstrap that is cut short needs the VM before it and a second run after it. *)
EXTENDS Deploy
=============================================================================
