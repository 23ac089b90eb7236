----------------------------- MODULE GameWorld -----------------------------
(***************************************************************************)
(* examples/game-realtime: handlePlayer and the world it shares.  A player *)
(* is a connection; positions are on a line, in steps of a move, and       *)
(* health is in hits.                                                      *)
(***************************************************************************)
EXTENDS Serving, Integers

CONSTANTS
  Hits,   \* attacks that kill: Health / 10
  Reach   \* the range of an attack, in moves

ASSUME GameAssumption == Hits \in Nat \ {0} /\ Reach \in Nat

VARIABLES
  players,  \* gameWorld.players
  tick      \* gameWorld.tick

world == <<players, tick>>

Absent == [pos |-> 0, health |-> 0, score |-> 0, alive |-> FALSE]

WorldInit == players = [p \in Peers |-> Absent] /\ tick = 0

\* The handshake is done: spawn.  The player of another run has another ID.
Spawn(p) ==
  /\ runs[p] = 0
  /\ Join(p)
  /\ players' = [players EXCEPT ![p] = [pos |-> 0, health |-> Hits, score |-> 0, alive |-> TRUE]]
  /\ UNCHANGED tick

Moved(p, step) == [players EXCEPT ![p].pos = @ + step]

\* Mutant: the target may be dead already.
AttackedDead(p, target) ==
  LET far == players[p].pos - players[target].pos
      hurt == [players EXCEPT ![target].health = @ - 1]
  IN IF runs[target] > 0 /\ far \in (1 - Reach) .. (Reach - 1)
     THEN IF hurt[target].health <= 0
          THEN [[hurt EXCEPT ![target].alive = FALSE] EXCEPT ![p].score = @ + 1]
          ELSE hurt
     ELSE players

\* The target may be the player itself.
Attacked(p, target) ==
  LET far == players[p].pos - players[target].pos
      hurt == [players EXCEPT ![target].health = @ - 1]
  IN IF players[target].alive /\ far \in (1 - Reach) .. (Reach - 1)
     THEN IF hurt[target].health <= 0
          THEN [[hurt EXCEPT ![target].alive = FALSE] EXCEPT ![p].score = @ + 1]
          ELSE hurt
     ELSE players

\* applyAction; a player that is dead changes nothing.
ApplyAction(p) ==
  /\ Work(p, "sent", "work", None)
  /\ players' \in IF players[p].alive
                  THEN {Moved(p, step) : step \in {-1, 1}} \cup {Attacked(p, t) : t \in Peers}
                  ELSE {players}
  /\ UNCHANGED tick

\* A frame that decodes and is no game action is answered too.
OtherFrame(p) == Work(p, "sent", "work", None) /\ UNCHANGED world

\* snapshot, and the reply.
Snapshot(p) ==
  /\ tick' = tick + 1
  /\ Work(p, "work", "done",
          [tick |-> tick + 1, dead |-> {q \in Peers : runs[q] > 0 /\ ~ players[q].alive}])
  /\ UNCHANGED players

\* runClient sends its actions and reads a state after each.
Play(p) == ClientStep(p) /\ UNCHANGED world

WorldNext ==
  \E p \in Peers :
    \/ Spawn(p) \/ Play(p)
    \/ ApplyAction(p) \/ OtherFrame(p) \/ Snapshot(p)
=============================================================================
