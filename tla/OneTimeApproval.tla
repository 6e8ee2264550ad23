-------------------------- MODULE OneTimeApproval --------------------------
(***************************************************************************)
(* What the browser sign-in promises.                                      *)
(*                                                                         *)
(* An attempt is decided at most once, by one subject.  It lets in nobody  *)
(* but the subject who approved it, after using the approval up, and only  *)
(* while that subject's account is active.  Signing in may create the      *)
(* approver's account; every other change of accounts is an                *)
(* administrator's and no part of a sign-in.                               *)
(***************************************************************************)
CONSTANTS Attempts, Subjects

VARIABLES
  decided,  \* the decisions made: <<"approved" or "denied", subject, attempt>>
  used,     \* the attempts whose approval is used up
  outcome,  \* "open", "granted" or "refused"
  active    \* the subjects with an active account

vars == <<decided, used, outcome, active>>

Init ==
  /\ decided = {}
  /\ used = {}
  /\ outcome = [a \in Attempts |-> "open"]
  /\ active \in SUBSET Subjects

Approved(a, s) == <<"approved", s, a>> \in decided

Decide(a, s, verdict) ==
  /\ \A d \in decided : d[3] # a
  /\ decided' = decided \cup {<<verdict, s, a>>}
  /\ UNCHANGED <<used, outcome, active>>

\* A step of an open attempt leaves it open or, if its reply is lost, refused.
OpenOrRefused(a) ==
  /\ outcome[a] = "open"
  /\ outcome' \in {outcome, [outcome EXCEPT ![a] = "refused"]}

Use(a) ==
  /\ a \notin used
  /\ used' = used \cup {a}
  /\ \E s \in Subjects : Approved(a, s)
  /\ OpenOrRefused(a)
  /\ UNCHANGED <<decided, active>>

Provision(a) ==
  /\ a \in used
  /\ \E s \in Subjects : Approved(a, s) /\ active' = active \cup {s}
  /\ OpenOrRefused(a)
  /\ UNCHANGED <<decided, used>>

Admit(a) ==
  /\ a \in used
  /\ \E s \in active : Approved(a, s)
  /\ outcome[a] = "open" /\ outcome' = [outcome EXCEPT ![a] = "granted"]
  /\ UNCHANGED <<decided, used, active>>

Refuse(a) ==
  /\ outcome[a] = "open" /\ outcome' = [outcome EXCEPT ![a] = "refused"]
  /\ UNCHANGED <<decided, used, active>>

Administer ==
  /\ active' \in SUBSET Subjects
  /\ UNCHANGED <<decided, used, outcome>>

Next ==
  \/ Administer
  \/ \E a \in Attempts : Use(a) \/ Provision(a) \/ Admit(a) \/ Refuse(a)
  \/ \E a \in Attempts, s \in Subjects, verdict \in {"approved", "denied"} :
       Decide(a, s, verdict)

Spec == Init /\ [][Next]_vars
=============================================================================
