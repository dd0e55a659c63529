---------------------------- MODULE MCCliProcess ----------------------------
(***************************************************************************)
(* Instances of CliProcess for TLC. In AllSites every descendant that      *)
(* holds the pipes can be reached; two tasks run only with quiet ones.      *)
(***************************************************************************)
EXTENDS CliProcess, TLC

CONSTANTS t1, t2

Site(platform, kids, tasks) == [platform |-> platform, kids |-> kids, tasks |-> tasks]

AllSites == { Site("posix", {"piped", "quiet"}, {t1}), Site("win32", {"quiet"}, {t1}),
              Site("posix", {"quiet"}, {t1, t2}) }

Held == { Site("posix", {"escaped"}, {t1}), Site("win32", {"piped"}, {t1}) }
=============================================================================
