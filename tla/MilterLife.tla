----------------------------- MODULE MilterLife -----------------------------
(***************************************************************************)
(* What an application may rely on about the life of a milter and of its   *)
(* sessions, whatever the event loop, the peers and the callbacks do.      *)
(*                                                                         *)
(* A milter serves from its creation on.  A session is opened once, ends   *)
(* once and never comes back.  Once the application has asked for the      *)
(* milter to be destroyed no session is opened any more, and the milter    *)
(* goes when, and not before, the last session has ended.                  *)
(***************************************************************************)
EXTENDS FiniteSets

CONSTANT Sessions

VARIABLES phase,        \* of the milter
          open,         \* the sessions being served
          ended         \* the sessions that are over

vars == <<phase, open, ended>>

Phases == {"absent", "serving", "closing", "gone"}

Init ==
  /\ phase = "absent"
  /\ open = {}
  /\ ended = {}

Create ==
  /\ phase = "absent"
  /\ phase' = "serving"
  /\ UNCHANGED <<open, ended>>

Open(s) ==
  /\ phase = "serving"
  /\ s \notin open \cup ended
  /\ open' = open \cup {s}
  /\ UNCHANGED <<phase, ended>>

(* The end of the last session of a closing milter may take the milter     *)
(* with it.                                                                *)
End(s) ==
  /\ s \in open
  /\ open' = open \ {s}
  /\ ended' = ended \cup {s}
  /\ \/ phase' = phase
     \/ phase = "closing" /\ open' = {} /\ phase' = "gone"

Destroy ==
  /\ phase = "serving"
  /\ phase' = "closing" \/ (open = {} /\ phase' = "gone")
  /\ UNCHANGED <<open, ended>>

Gone ==
  /\ phase = "closing"
  /\ open = {}
  /\ phase' = "gone"
  /\ UNCHANGED <<open, ended>>

Next ==
  \/ Create
  \/ Destroy
  \/ Gone
  \/ \E s \in Sessions : Open(s) \/ End(s)

Spec == Init /\ [][Next]_vars
=============================================================================
