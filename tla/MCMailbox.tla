----------------------------- MODULE MCMailbox -----------------------------
(***************************************************************************)
(* Instances of Mailbox for TLC: three messages of different classes.      *)
(***************************************************************************)
EXTENDS Mailbox, TLC

CONSTANTS bye, task, chat

ThreeClasses == bye :> "shutdown" @@ task :> "lead" @@ chat :> "peer"
=============================================================================
