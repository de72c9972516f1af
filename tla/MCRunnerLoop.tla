---------------------------- MODULE MCRunnerLoop ----------------------------
(* Commands for RunnerLoop: two pings and a search of the page, a download,  *)
(* a link and a command longer than the pipe takes whole of the component,   *)
(* and the quit of the component.                                            *)
EXTENDS RunnerLoop

CmdFrom == [c \in Commands |-> IF c \in {"ping1", "ping2", "search"} THEN "page" ELSE "component"]
CmdWhat == [c \in Commands |->
  CASE c \in {"ping1", "ping2"} -> "ping"
    [] c \in {"search", "link"} -> "script"
    [] c \in {"fetch", "long"}  -> "download"
    [] c = "quit"               -> "quit"]
CmdSize == [c \in Commands |-> IF c = "long" THEN 3 ELSE IF c \in {"ping1","ping2","quit"} THEN 1 ELSE 2]
Load(cmds, t, r) == [send |-> cmds, timers |-> t, requests |-> r]
CmdLoads ==
  {Load({"ping1", "ping2", "long"}, 0, 0), Load({"ping1", "fetch", "quit"}, 0, 0),
   Load({"search"}, 3, 0), Load({"search"}, 1, 1), Load({"search"}, 0, 2),
   Load({"link", "fetch"}, 1, 0), Load({"link", "fetch"}, 0, 1)}
=============================================================================
