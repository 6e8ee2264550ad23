--------------------------- MODULE SessionLedger ---------------------------
(***************************************************************************)
(* What the broker promises about the record it keeps of each session, in  *)
(* the sessions table and in the audit log, faults included.               *)
(*                                                                         *)
(* Connections are opened only before the session has a row.  A row is     *)
(* opened, possibly flagged, and ended once its user is gone.  The log of  *)
(* a session is a refusal alone, or at most one session.start before       *)
(* anything else, at most one session.end, after the row has ended, and    *)
(* any number of session.killed, each for a flagged session that is cut    *)
(* off.  A fault may leave any of these out; it never adds one or changes  *)
(* their order.                                                            *)
(***************************************************************************)
EXTENDS Naturals, Sequences

CONSTANT Conns

VARIABLES
  row,     \* "none", "open" or "ended"
  flagged, \* sessions an administrator wants ended
  user,    \* sessions whose user is connected
  target,  \* sessions whose target is connected
  log      \* the audit events of each session, oldest first

vars == <<row, flagged, user, target, log>>

Init ==
  /\ row = [c \in Conns |-> "none"]
  /\ flagged = {} /\ user = {} /\ target = {}
  /\ log = [c \in Conns |-> <<>>]

Write(c, ev) ==
  /\ log' = [log EXCEPT ![c] = Append(@, ev)]
  /\ UNCHANGED <<row, flagged, user, target>>

Connect(c) ==
  /\ row[c] = "none"
  /\ \/ user' = user \cup {c} /\ UNCHANGED target
     \/ target' = target \cup {c} /\ UNCHANGED user
  /\ UNCHANGED <<row, flagged, log>>

\* Any connections may close, all of them at once when the process ends.
Disconnect ==
  /\ user' \in SUBSET user /\ target' \in SUBSET target
  /\ UNCHANGED <<row, flagged, log>>

Refuse(c) ==
  /\ row[c] = "none" /\ log[c] = <<>>
  /\ \E ev \in {"session.rejected", "authz.denied", "target.unreachable"} : Write(c, ev)

Open(c) ==
  /\ row[c] = "none" /\ row' = [row EXCEPT ![c] = "open"]
  /\ UNCHANGED <<flagged, user, target, log>>

Start(c) ==
  /\ row[c] = "open" /\ log[c] = <<>>
  /\ Write(c, "session.start")

Flag(c) ==
  /\ row[c] = "open" /\ flagged' = flagged \cup {c}
  /\ UNCHANGED <<row, user, target, log>>

\* A session may be killed again while its handler is still tearing it down.
Kill(c) ==
  /\ c \in flagged /\ c \notin user \cup target
  /\ Write(c, "session.killed")

End(c) ==
  /\ c \notin user
  /\ row[c] = "open" /\ row' = [row EXCEPT ![c] = "ended"]
  /\ UNCHANGED <<flagged, user, target, log>>

Finish(c) ==
  /\ row[c] = "ended"
  /\ \A i \in 1..Len(log[c]) : log[c][i] # "session.end"
  /\ Write(c, "session.end")

Next ==
  \/ Disconnect
  \/ \E c \in Conns :
       \/ Connect(c) \/ Refuse(c) \/ Open(c) \/ Start(c) \/ Flag(c) \/ Kill(c) \/ End(c)
       \/ Finish(c)

Spec == Init /\ [][Next]_vars
=============================================================================
