--------------------------- MODULE MCImageReading ---------------------------
(***************************************************************************)
(* A small instance of ImageReading: the deployed image alone, or images   *)
(* of other repositories under the same container's name and another's.    *)
(***************************************************************************)
EXTENDS ImageReading

MCAcceptedBuilds == {{"platform"}, Unread}

Container(role, deployed, image) == [role |-> role, deployed |-> deployed, image |-> image]

MCPodTemplates ==
    [new   |-> [app |-> Container("app", TRUE, Image)],
     again |-> [app |-> Container("app", TRUE, Image),
                log |-> Container("sidecar", FALSE, "logger")],
     other |-> [app   |-> Container("app", FALSE, "server"),
                setup |-> Container("init", FALSE, "setup")]]
=============================================================================
