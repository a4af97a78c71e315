----------------------------- MODULE DisplayLife ----------------------------
(***************************************************************************)
(* What kdm promises of its displays, as xdm.man and the comments of dm.c  *)
(* say it, without processes, signals and files: a display that is listed  *)
(* is idle until it gets a session, one session after the other, and is    *)
(* given up by ending it, from where there is no way back but to be listed *)
(* anew.                                                                   *)
(***************************************************************************)
CONSTANT Name

VARIABLE phase   \* phase[n]: "off" when n is not listed

Phases == {"off", "idle", "session", "ending"}

Unlisted == {n \in Name : phase[n] = "off"}

\* What the phases are when the displays ns are listed anew
Listed(ns) == [n \in Name |-> IF n \in ns THEN "idle" ELSE phase[n]]

\* The phases to which one display may go when it is not a session's start
After(p) ==
    CASE p = "off"     -> {"idle"}
      [] p = "idle"    -> {"ending", "off"}
      [] p = "session" -> {"idle", "ending", "off"}
      [] p = "ending"  -> {"off"}
-----------------------------------------------------------------------------
Init == phase = [n \in Name |-> "off"]

\* The list of displays is read.
List(ns) == phase' = Listed(ns)

\* A session starts, of one display at a time.
Login(n) == /\ phase[n] = "idle"
            /\ phase' = [phase EXCEPT ![n] = "session"]

\* A display's session ends, it is given up, or it is gone in the end; the
\* list may have been read at the same time.
Leave(n, ns) ==
    \E p \in After(phase[n]) : phase' = [Listed(ns) EXCEPT ![n] = p]

\* Everything is given up.
Shutdown ==
    /\ phase' \in [Name -> {"off", "ending"}]
    /\ \A n \in Name : phase'[n] = phase[n] \/ phase'[n] \in After(phase[n])

Next ==
    \/ \E n \in Name : Login(n)
    \/ \E ns \in SUBSET Unlisted : List(ns)
    \/ \E n \in Name, ns \in SUBSET Unlisted : n \notin ns /\ Leave(n, ns)
    \/ Shutdown

Spec == Init /\ [][Next]_phase
=============================================================================
