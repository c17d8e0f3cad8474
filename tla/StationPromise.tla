---------------------------- MODULE StationPromise ----------------------------
(***************************************************************************)
(* What the connection manager promises the operator about a station: the  *)
(* status shown moves along the automaton below, a station the operator    *)
(* disconnected is left alone, a session the peer ended is dialled again   *)
(* and no dial goes unanswered for ever.  ConnectionManager implements it  *)
(* as long as the operator waits for a station to come to rest.            *)
(***************************************************************************)
CONSTANT Stations
VARIABLES shown,    \* the status of each station, "ABSENT" when unknown
          wanted    \* does the operator want it connected?
vars == <<shown, wanted>>

Init == /\ shown = [s \in Stations |-> "ABSENT"]
        /\ wanted = [s \in Stations |-> FALSE]

Show(s, from, to) == shown[s] \in from /\ shown' = [shown EXCEPT ![s] = to]
Want(s, w) == wanted' = [wanted EXCEPT ![s] = w]

Add(s)        == Show(s, {"ABSENT"}, "CONNECTING") /\ Want(s, TRUE)
Remove(s)     == shown[s] # "ABSENT" /\ Show(s, {shown[s]}, "ABSENT") /\ Want(s, FALSE)
Connect(s)    == Show(s, {"DISCONNECTED", "CONN_ERROR"}, "CONNECTING") /\ Want(s, TRUE)
Disconnect(s) == shown[s] # "ABSENT" /\ Show(s, {shown[s]}, "DISCONNECTED") /\ Want(s, FALSE)

(* The dial is answered or refused; a lost session and a refused dial are  *)
(* tried again, but only for a station that is wanted.                     *)
Answer(s) == /\ wanted[s] /\ UNCHANGED wanted
             /\ \E r \in {"CONNECTED", "CONN_ERROR"} : Show(s, {"CONNECTING"}, r)
Retry(s)  == /\ wanted[s] /\ UNCHANGED wanted
             /\ Show(s, {"DISCONNECTED", "CONN_ERROR"}, "CONNECTING")
Lose(s)   == wanted[s] /\ Show(s, {"CONNECTED"}, "DISCONNECTED") /\ UNCHANGED wanted

Next == \E s \in Stations :
    \/ Add(s) \/ Remove(s) \/ Connect(s) \/ Disconnect(s)
    \/ Answer(s) \/ Retry(s) \/ Lose(s)

(* A dial ends, and a lost session is dialled again, unless the operator   *)
(* acts first.                                                             *)
Redial(s) == shown[s] = "DISCONNECTED" /\ Retry(s)
Spec == /\ Init /\ [][Next]_vars
        /\ \A s \in Stations : WF_vars(Answer(s)) /\ WF_vars(Redial(s))
=============================================================================
