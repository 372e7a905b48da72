------------------------ MODULE MCWorldstateService ------------------------
(***************************************************************************)
(* Small instances of WorldstateService for TLC.  There are three scenes:  *)
(* two one-shots and a watch on one dataset, two watches and a third       *)
(* timer, and an owner of leases with an idle daemon.  They share no state *)
(* worth interleaving, so a behaviour plays one of them.                   *)
(***************************************************************************)
EXTENDS WorldstateService, TLC

CONSTANTS k1, a, b, c1, c2, w1, w2, w3, o1, t1, t2, t3

VARIABLE scene

\* All requests and watches are on one dataset.
KeyOfOne == [r \in OneShot \cup Watch |-> k1]

\* Decoded snapshots are interchangeable.
Contents == Permutations(Content)

PlayedIn == [requests |-> {a, b, w1}, watches |-> {w2, w3}, idle |-> {a}]

\* What is not part of the scene stays as it is.
InScene ==
  /\ \A r \in Request \ PlayedIn[scene] : status'[r] = "new" /\ clientUp'[r]
  /\ scene # "idle" => UNCHANGED <<policy, held, ownerUp>>
  /\ scene = "requests" => clientUp'[w1]
  /\ scene # "watches" => t3 \notin pollArmed' \cup idleArmed'

SceneInit ==
  /\ Init
  /\ scene \in {"requests", "watches", "idle"}
  /\ scene # "idle" => policy = "persistent"

SceneNext ==
  /\ Next \/ (scene \in {"requests", "watches"} /\ Restart)
  /\ InScene
  /\ scene' = scene

SceneSpec == SceneInit /\ [][SceneNext]_<<vars, scene>>

=============================================================================
