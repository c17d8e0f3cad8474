--------------------------- MODULE HandleLifecycle ---------------------------
(***************************************************************************)
(* What the life of a CS104_Connection handle may be, as lib60870 asks of  *)
(* its user: a handle is connected at most once and never after its        *)
(* destruction has begun; its handlers report one outcome of the dial and, *)
(* after OPENED, one CLOSED; its memory is released only by a destroy, and *)
(* only once the handle's thread has left the last handler.                *)
(*                                                                         *)
(* ConnectionManager implements this specification whatever its callers,   *)
(* its threads and the peer do: a step that would leave it (a handle that  *)
(* is used after it was freed, or connected twice) is a fault there.       *)
(***************************************************************************)
CONSTANT Conns
VARIABLES phase,    \* of each handle
          closing   \* has its destruction begun?
vars == <<phase, closing>>

Phases == {"free", "idle", "dialing", "up", "ending", "over"}

Init == /\ phase = [c \in Conns |-> "free"]
        /\ closing = [c \in Conns |-> FALSE]

Move(c, from, to) == /\ phase[c] \in from
                     /\ phase' = [phase EXCEPT ![c] = to]

(* createConnection; reconnectThreadFunc dials before anybody can see it.  *)
Create(c)  == /\ \E p \in {"idle", "dialing"} : Move(c, {"free"}, p)
              /\ UNCHANGED closing
Connect(c) == Move(c, {"idle"}, "dialing") /\ ~closing[c] /\ UNCHANGED closing
Open(c)    == Move(c, {"dialing"}, "up") /\ UNCHANGED closing
Fail(c)    == Move(c, {"dialing"}, "ending") /\ UNCHANGED closing
End(c)     == Move(c, {"up"}, "ending") /\ UNCHANGED closing
Destroy(c) == /\ phase[c] # "free"
              /\ closing' = [closing EXCEPT ![c] = TRUE]
(* A handler that returns may have handed a handle, its own or another, to *)
(* a thread that destroys it.                                              *)
Return(c)  == /\ Move(c, {"ending"}, "over")
              /\ UNCHANGED closing \/ \E d \in Conns : Destroy(d)
Free(c)    == /\ closing[c] /\ Move(c, {"idle", "over"}, "free")
              /\ closing' = [closing EXCEPT ![c] = FALSE]

Next == \E c \in Conns :
    \/ Create(c) \/ Connect(c) \/ Open(c) \/ Fail(c) \/ End(c) \/ Return(c)
    \/ Destroy(c) /\ UNCHANGED phase
    \/ Free(c)

Spec == Init /\ [][Next]_vars
=============================================================================
