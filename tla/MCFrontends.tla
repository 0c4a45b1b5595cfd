---------------------------- MODULE MCFrontends ----------------------------
(* Instance of Frontends for TLC. *)
EXTENDS Frontends, TLC

CONSTANTS p1, p2

\* One process with two concurrent handlers; the other one competes for the files.
MCWorkers == p1 :> 2 @@ p2 :> 1
MCRuns    == p1 :> {"serve", "inspect", "inspectFile", "query"} @@ p2 :> {"serve", "mcp", "inspectFile"}

Request(defect, bearer, route, page) ==
  [defect |-> defect, bearer |-> bearer, route |-> route, page |-> page]

\* The process with two handlers serves pages; the other one gets a request for each
\* check that can refuse it.  Empty pages and operations without one are left to mcp.
MCHttpRequests ==
  p1 :> {Request("none", "file", "payload", "whole")} @@
  p2 :> {Request("forbidden", "file", "info", "empty"), Request("body", "file", "payload", "whole"),
         Request("querytoken", "file", "info", "empty"), Request("none", "other", "payload", "whole"),
         Request("none", "file", "other", "empty"), Request("params", "file", "payload", "whole")}
=============================================================================
