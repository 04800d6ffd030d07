----------------------------- MODULE MCPipeline -----------------------------
(* Command lines for Pipeline.                                             *)
EXTENDS Pipeline

Cmd(do, redirs) == [do |-> do, redirs |-> redirs]
Only(do) == Cmd(do, <<>>)
Redir(op, n, to) == [op |-> op, n |-> n, all |-> FALSE, to |-> to]
Both(op, to) == [op |-> op, n |-> 0, all |-> TRUE, to |-> to]
In(form, cmds) == [form |-> form, cmds |-> cmds]

HereText == Redir("<<", 0, 0)
ToF      == Redir(">", 0, 0)
ErrToOut == Redir(">&", 2, 1)
Missing  == Redir("<", 0, -1)

(* Alone, every way a command is run; in pipelines, with readers that read  *)
(* on and one that does not, and a text in front; the redirections; the     *)
(* commands that fail to start, or run in the shell, or never end.          *)
Alone == {In(f, <<Only(d)>>) : f \in {"fg", "bg", "get"}, d \in {"gen", "warn"}}
Pairs == {In(f, <<Only("gen"), Only(d)>>) : f \in {"fg", "bg", "get"}, d \in {"cat", "head"}}
Texts == {In(f, <<Cmd("cat", <<HereText>>), Only(d)>>) : f \in {"fg", "get"}, d \in {"cat", "head"}}
Redirections ==
  {In(f, <<Cmd("warn", <<ErrToOut>>)>>) : f \in {"fg", "get"}} \cup
  {In("fg", <<Only("gen"), Cmd("cat", <<ToF>>)>>),
   In("fg", <<Cmd("warn", <<Redir(">", 2, 0)>>), Only("cat")>>),
   In("fg", <<Cmd("cat", <<HereText, Both(">", 0)>>)>>),
   In("fg", <<Cmd("gen", <<Redir(">&", 1, 2)>>)>>),
   In("fg", <<Cmd("cat", <<Redir("<", 0, 0)>>)>>)}
Others ==
  {In("get", <<Only("gen"), Only("cat"), Only("cat")>>),
   In("bg", <<Only("gen"), Only("warn")>>),
   In("get", <<Only("cd")>>),
   In("fg", <<Only("cd")>>),
   In("get", <<Only("bad")>>),
   In("fg", <<Only("bad"), Only("cat")>>),
   In("fg", <<Cmd("cat", <<HereText, Missing>>)>>)}

First == Alone \cup Pairs \cup Texts \cup Redirections \cup Others
\* What follows meets what the first line left open, or still runs.
Second == {In("get", <<Only("gen"), Only("cat")>>),
           In("get", <<Only("warn")>>),
           In("fg", <<Cmd("cat", <<HereText>>), Only("cat")>>)}
MCLines == <<First, Second>>
=============================================================================
