---------------------------- MODULE MCPullInstall ----------------------------
(* Small instances of PullInstall for TLC. *)
EXTENDS PullInstall, TLC

CONSTANTS p1, p2, r1, b1, b2, t1, t2, ann

\* Bounds on server changes, failing calls, deaths, power losses, edits and
\* annotation refreshes.
Allow(server, fault, crash, power, damage, refresh) ==
    [k \in Kinds |-> CASE k = "server"  -> server
                       [] k = "fault"   -> fault
                       [] k = "crash"   -> crash
                       [] k = "power"   -> power
                       [] k = "damage"  -> damage
                       [] k = "refresh" -> refresh]

\* Hashes, titles and pullers are interchangeable.
Symmetry == Permutations(Blobs) \cup Permutations(Titles)
            \cup Permutations(Pullers)

\* Deaths of the process and a failing call, or a power loss.
Faults == {Allow(1, 1, 2, 0, 0, 0), Allow(1, 1, 0, 1, 0, 0)}
\* Beside another pull: a changing village, a death and files edited before or
\* after it; a power loss; or an annotation refresh.
Races == {Allow(1, 0, 1, 0, 1, 0), Allow(0, 0, 0, 1, 0, 0),
          Allow(0, 0, 0, 0, 0, 1)}
\* A village that changes once.
OneChange == {Allow(1, 0, 0, 0, 0, 0)}
==============================================================================
