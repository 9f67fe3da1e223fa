-------------------------- MODULE MCStatusUpdater --------------------------
(* Requests and foreign writes of a small instance for TLC. *)
EXTENDS StatusUpdater

CONSTANTS peer, v1

Cond(word) == [word |-> word, msg |-> ""]

\* The final reports of a deploy and of an undeploy job, and the placement job.
MCJobRequests ==
  { [kind |-> "condition", type |-> "Deployment", cond |-> Cond("Done"),
     remove |-> {"Undeployment", "Local"}],
    [kind |-> "placement", cond |-> Cond("Done")] }

\* The first pass; a pass that starts a deployment; and one that found the
\* zone's section obsolete while the global state changed: the section is then
\* dropped with the write.
MCPassRequests ==
  { [kind |-> "initialize"],
    [kind |-> "merge", later |-> {},
     new |-> [NewStatus EXCEPT !.state = "Operational", !.epoch = 1]],
    [kind |-> "merge", later |-> {"Deployment"},
     new |-> [NewStatus EXCEPT !.state = "Relocation",
                !.zones[Self] = [version |-> 0, chart |-> v1,
                  conds |-> [NoConditions EXCEPT !["Deployment"] = Cond("Pull")]]]] }

MCPeerSections == {NewZone}

MCPeerPlacements == {{peer}}
=============================================================================
