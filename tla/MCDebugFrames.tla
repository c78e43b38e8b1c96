------------------------------ MODULE MCDebugFrames ------------------------------
EXTENDS DebugFrames

Lua(file, env) == [file |-> file, source |-> TRUE, env |-> env]
C == [file |-> "c", source |-> FALSE, env |-> FALSE]
\* Only a.lua is in the workspace.
MCFound == [file \in {"a", "b", "c"} |-> IF file = "a" THEN "a.lua" ELSE NoPath]
MCStacks == {<<Lua("a", FALSE), C, Lua("b", TRUE)>>, <<Lua("b", FALSE), C>>, <<Lua("a", TRUE), Lua("a", FALSE)>>}
MCMembers == <<"group", "t">>
===============================================================================
