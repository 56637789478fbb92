------------------------------ MODULE MCHttpd ------------------------------
(* Two clients and one file, which may be a page, a directory without an   *)
(* index page, a script or a stream that cannot be read.                   *)
EXTENDS Httpd, TLC
CONSTANTS c1, c2, t1

Rq(m, q, l) == [method |-> m, target |-> t1, alias |-> FALSE, query |-> q, length |-> l,
                reads |-> TRUE]
F(st, op, cg, n) == [stat |-> st, open |-> op, cgi |-> cg, exec |-> cg, size |-> n]

MCClients == {c1, c2}
MCTargets == {t1}
Get == Rq("GET", FALSE, FALSE)
Deaf == [Get EXCEPT !.reads = FALSE]
Page == F("file", "ok", FALSE, 3)
FullPage == F("file", "ok", FALSE, 2)
Script == F("file", "ok", TRUE, 1)
BareDir == F("dir", "absent", FALSE, 0)
Unreadable == F("dir", "broken", FALSE, 0)

MCRequests == {Get, Rq("GET", TRUE, FALSE), Rq("POST", FALSE, TRUE),
               Rq("POST", FALSE, FALSE), Rq("POST", TRUE, TRUE), Rq("other", FALSE, FALSE), Deaf}
MCFiles == {Page, FullPage, Script, BareDir}
MCSymmetry == Permutations(MCClients)

\* Enough for the liveness runs: files and a script, served or not; threads are
\* about scripts, whose forks copy what belongs to the other thread.
MCGets == {Get, Deaf}
MCGet == {Get}
MCServed == {Page, Script, Unreadable}
MCServedThreads == {Script}

\* One directory, for the run that shows what becomes of it.
MCBareDir == {BareDir}
=============================================================================
