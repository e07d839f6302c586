---------------------------- MODULE MCMcpRequests ----------------------------
(***************************************************************************)
(* Instances of McpRequests for TLC.                                       *)
(***************************************************************************)
EXTENDS McpRequests

CONSTANTS u1, u2

Founding(u) == [op |-> "create", by |-> u]
Pats(op, u) == [op |-> op, by |-> u]
Member(op, u, v, r) == [op |-> op, by |-> u, whom |-> v, role |-> r]
Removal(u, v) == [op |-> "remove", by |-> u, whom |-> v]
Tool(u, need) == [op |-> "tool", by |-> u, cred |-> "pat", on |-> "project",
                  need |-> need, keyed |-> FALSE, curation |-> FALSE]
SharedTool(u, cred, curation) ==
    [op |-> "tool", by |-> u, cred |-> cred, on |-> "shared",
     need |-> "write", keyed |-> TRUE, curation |-> curation]

(* Owners and members at each other; two founders; tools while rights and   *)
(* tokens change; the shared scope; tools of one session.                  *)
Meetings ==
    << {Member("add", u1, u2, "member"), Member("add", u1, u2, "owner"),
       Member("role", u1, u2, "owner"), Member("role", u1, u1, "member"),
       Removal(u2, u1), Removal(u2, u2)},
      {Founding(u1), Founding(u2), Pats("newpat", u1), Tool(u1, "maintain")},
      {Tool(u2, "write"), Tool(u2, "maintain"), Removal(u1, u2), Pats("revokepat", u2)},
      {SharedTool(u1, "pat", FALSE), SharedTool(u1, "oauth", FALSE),
       SharedTool(u1, "automation", FALSE), SharedTool(u2, "pat", TRUE)},
      {Tool(u1, "read"), Tool(u1, "write")} >>

LocalAndCloud == {<<"sqlite", "local-session">>, <<"firestore", "stateless">>}

=============================================================================
