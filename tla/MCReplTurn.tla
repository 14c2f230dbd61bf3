----------------------------- MODULE MCReplTurn -----------------------------
(***************************************************************************)
(* Instances of ReplTurn for TLC.  A command is a string that names its    *)
(* kind; each configuration picks a few of them.                           *)
(***************************************************************************)
EXTENDS ReplTurn, TLC

Kind(mode, prio, slash, main, meta, src) ==
    [mode |-> mode, prio |-> prio, slash |-> slash, main |-> main,
     meta |-> meta, src |-> src]

Kinds ==
    [prompt1   |-> Kind("prompt", "next", FALSE, TRUE, FALSE, "user"),
     prompt2   |-> Kind("prompt", "next", FALSE, TRUE, FALSE, "user"),
     urgent    |-> Kind("prompt", "now", FALSE, TRUE, FALSE, "user"),
     bash      |-> Kind("bash", "next", FALSE, TRUE, FALSE, "user"),
     slash     |-> Kind("prompt", "next", TRUE, TRUE, FALSE, "user"),
     chained   |-> Kind("prompt", "next", FALSE, TRUE, FALSE, "chain"),
     report    |-> Kind("task-notification", "later", FALSE, TRUE, FALSE,
                        "notify"),
     killed    |-> Kind("task-notification", "later", FALSE, TRUE, FALSE,
                        "notify"),
     subagent  |-> Kind("task-notification", "next", FALSE, FALSE, FALSE,
                        "notify"),
     cron      |-> Kind("prompt", "later", FALSE, TRUE, TRUE, "notify"),
     teammate  |-> Kind("prompt", "next", FALSE, TRUE, FALSE, "incoming"),
     plan      |-> Kind("prompt", "next", FALSE, TRUE, FALSE, "initial")]

MCAttr == [c \in Cmds |-> Kinds[c]]

TurnSymmetry == Permutations(Turns)
=============================================================================
