---------------------------- MODULE MCDevkitSync ----------------------------
(* Two instances of DevkitSync for TLC.  Files: a hook that can move, be      *)
(* respelled and be withheld, and a file with a region that a higher rung     *)
(* takes over.  Tasks: a gate task, one that needs the blueprint, and one of  *)
(* the blueprint, beside a single file.                                       *)
EXTENDS DevkitSync

MCAssets == {"hook", "base", "over"}

MCPaths == {"hooks", "./hooks", "git", "ws"}

MCPlaces == {"Hooks", "Git", "Ws"}

MCPlaceOf == [p \in MCPaths |-> CASE p \in {"hooks", "./hooks"} -> "Hooks"
                                  [] p = "git" -> "Git" [] p = "ws" -> "Ws"]

MCGroupOf == [a \in MCAssets |-> CASE a = "hook" -> 1 [] a = "base" -> 2 [] a = "over" -> 3]

MCRungOf == <<1, 1, 2>>

MCPlacements == {"plain", "dotted", "moved"}

MCTargetOf ==
  [a \in MCAssets |-> [p \in MCPlacements |->
     IF a # "hook" THEN "ws"
     ELSE CASE p = "plain" -> "hooks" [] p = "dotted" -> "./hooks" [] p = "moved" -> "git"]]

Version(ships, retires, tasks) == [ships |-> ships, retires |-> <<{}, retires>>, tasks |-> tasks]

Cfg(profile, placement, answer, unmet, missingBins) ==
  [profile |-> profile, placement |-> placement, answer |-> answer, unmet |-> unmet,
   missingBins |-> missingBins]

Text(text, answer) == [text |-> text, answer |-> answer]

-----------------------------------------------------------------------------

\* The first version; the next, whose higher rung retires what it took over;
\* and an unpacked half of that.
FileKits ==
  { Version([a \in MCAssets |-> CASE a = "hook" -> "h1" [] a = "base" -> "b1" [] a = "over" -> "o1"],
            {}, <<>>),
    Version([a \in {"hook", "base"} |-> IF a = "hook" THEN "h2" ELSE "b2"], {"base"}, <<>>),
    Version([a \in {"base"} |-> "b2"], {"base"}, <<>>) }

FileConfigs ==
  { Cfg(1, "plain", "yes", {}, {}), Cfg(2, "dotted", "yes", {}, {}),
    Cfg(1, "moved", "yes", {"base"}, {}), Cfg(1, "plain", None, {}, {}) }

\* Nothing, a directory, a text of their own, an old text, a region.
FileNodes ==
  { Absent, Directory, FileOf(Text("mine", None), None), FileOf(Text("h1", "yes"), None),
    FileOf(Text("b2", None), "catalog") }

NoTasks == {}

-----------------------------------------------------------------------------

MCTasks == {"check", "verify", "build"}

MCTaskRung == [t \in MCTasks |-> IF t = "check" THEN 1 ELSE 2]

\* The next version changes two commands and drops the third task; another
\* drops the blueprint's.
TaskKits ==
  { Version([a \in {"hook"} |-> "h1"], {}, [t \in MCTasks |-> "c1"]),
    Version([a \in {"hook"} |-> "h1"], {}, [t \in {"check", "build"} |-> "c2"]),
    Version([a \in {"hook"} |-> "h1"], {}, [t \in {"check", "verify"} |-> "c1"]) }

TaskConfigs ==
  { Cfg(1, "plain", "yes", {}, {}), Cfg(2, "plain", "yes", {}, {}),
    Cfg(2, "plain", "yes", {}, {"check", "verify"}) }

TaskNodes == {FileOf(Text("h1", "yes"), None)}
=============================================================================
