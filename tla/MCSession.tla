----------------------------- MODULE MCSession ------------------------------
(***************************************************************************)
(* The instance of Session for TLC.  The history variable crossed holds    *)
(* the calls in progress that have met another call on their session.      *)
(***************************************************************************)
EXTENDS Session, TLC

VARIABLE crossed

Symmetry == Permutations(Conns)

MCVars == <<vars, crossed>>

SameSession(c, d) == c # d /\ ~ Idling(d) /\ call[d].sid = call[c].sid

Cross ==
  crossed' =
    {c \in Calls : (~ Idling(c))' /\ (c \in crossed \/ \E d \in Calls : SameSession(c, d)')}

MCInit == Init /\ crossed = {}

MCSpec == MCInit /\ [][Next /\ Cross]_MCVars

-----------------------------------------------------------------------------
Arrows == {<<"connecting", "active">>, <<"active", "sleeping">>, <<"active", "expired">>,
           <<"sleeping", "active">>, <<"sleeping", "expired">>}

\* TransitionSession reads the status in one command and writes its successor
\* in another.  A change of the status that is not an arrow of the state
\* diagram nevertheless is only made by a call that met another one on the
\* session; an aborted call, a TTL that runs out or a write to a session that
\* is gone never lead to one.
StatusSteps ==
  [][\A s \in Sessions :
       \/ hash[s].status = NoStatus
       \/ hash'[s].status \in {hash[s].status, NoStatus}
       \/ <<hash[s].status, hash'[s].status>> \in Arrows
       \/ \E c \in crossed : call[c].sid = s /\ At(c, "status") /\ ~ At(c, "status")']_MCVars

\* A session that has expired never is anything else again.
ExpiredIsFinal ==
  [][\A s \in Sessions :
       hash[s].status = "expired" => hash'[s].status \in {"expired", NoStatus}]_MCVars
=============================================================================
