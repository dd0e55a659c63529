----------------------------- MODULE MCScmSync -----------------------------
(***************************************************************************)
(* Instances of ScmSync for TLC.                                           *)
(***************************************************************************)
EXTENDS ScmSync, TLC

Site(git, sqlite, codegraph, kind) ==
    [git |-> git, sqlite |-> sqlite, codegraph |-> codegraph, kind |-> kind]

AllSites == { Site(TRUE, FALSE, FALSE, "run"), Site(FALSE, FALSE, TRUE, "evaluation"),
              Site(TRUE, TRUE, FALSE, "run"), Site(FALSE, TRUE, TRUE, "run"),
              Site(TRUE, TRUE, FALSE, "evaluation") }

GitPostgres == { Site(TRUE, FALSE, FALSE, "run") }
GitSqlite   == { Site(TRUE, TRUE, FALSE, "run") }
=============================================================================
