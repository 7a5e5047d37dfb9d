------------------------------- MODULE MCAgent -------------------------------
(***************************************************************************)
(* Small instances of Agent: one reading tool stands for the three (the    *)
(* loop treats them alike), one name that is not registered.               *)
(***************************************************************************)
EXTENDS Agent

MCReadTools    == {"fetch_pr_diff"}
MCUnknownTools == {"made_up_tool"}
=============================================================================
