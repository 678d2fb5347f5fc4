--------------------------- MODULE MCWorkspaceWrite ---------------------------
(* Two calls of two processes, at the same time or one after the other, so that
   the worker of the first may outlive it and meet the second.  Each asks for
   anything and is answered by ports that may misbehave. *)
EXTENDS WorkspaceWrite, TLC
CONSTANTS c1, c2, p1, p2

MCRegistered == {"workspace.write", "workspace.read", "workspace.list", "mail.send"}
MCEffectOf == [n \in MCRegistered |-> CASE n = "workspace.write" -> "workspace_write"
                                        [] n \in {"workspace.read", "workspace.list"} -> "read_only"
                                        [] n = "mail.send" -> "external_write"]
MCPieces == (c1 :> 2) @@ (c2 :> 3)
MCTwoProcesses == (c1 :> p1) @@ (c2 :> p2)
MCAnything == (c1 :> Ask) @@ (c2 :> Ask)
===============================================================================
