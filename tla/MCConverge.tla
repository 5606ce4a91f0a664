----------------------------- MODULE MCConverge -----------------------------
(* Small instances of Converge for TLC. *)
EXTENDS Converge

CONSTANTS ra, rb   \* two lists of routes

Content(routes, noCache) == [routes |-> routes, noCache |-> noCache]

\* No service, and a list of routes that is opted out.
OptOutContents == {Nothing, Content(ra, "empty")}

\* One route whose no-cache metadata changes.
NoCacheContents == {Nothing, Content(ra, "absent"), Content(ra, "codes")}

\* The routes alone.
TwoContents == {Nothing, Content(ra, "absent"), Content(rb, "absent")}
=============================================================================
