-------------------------------- MODULE MCCli --------------------------------
(***************************************************************************)
(* The test mode on a missing file, a file that is no JSON, an issue, a    *)
(* pull request without a number and one that can be reviewed; the server  *)
(* with a --port or without; and environments that lack each of the        *)
(* variables, or have it empty or out of range.                            *)
(***************************************************************************)
EXTENDS Cli

MCReadTools    == {"fetch_pr_diff"}
MCUnknownTools == {"made_up_tool"}
KrewIndex      == <<"kubernetes-sigs", "krew-index">>

MCFiles == {{}, {NotJSON},
            {Event("opened", FALSE, 0, 0, KrewIndex)},
            {Event("opened", TRUE, 0, 0, KrewIndex)},
            {Event("opened", TRUE, 0, 7, KrewIndex)}}

MCPorts == {0, 9000, 70000}

MCEnvironments ==
  {[name \in AgentRequired \cup {"MAX_ITERATIONS", "PORT"} |->
      CASE name = "MAX_ITERATIONS" -> iterations
        [] name = "PORT" -> port_
        [] OTHER -> required[name]] :
     required   \in [AgentRequired -> {Text, Empty}],
     iterations \in {Text, Whole(-1), Whole(0), Whole(1)},
     port_      \in {Unset, Text, Whole(0), Whole(1), Whole(65535), Whole(65536)}}
==============================================================================
