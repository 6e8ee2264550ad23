----------------------------- MODULE CertIssuer -----------------------------
(***************************************************************************)
(* The certificate of a target connection: connectTarget, Issuer.Issue,    *)
(* the serial counter and the CA signer.                                   *)
(*                                                                         *)
(* A handler whose decision allows the target asks for a certificate.      *)
(* Issue caps the lifetime, takes a serial, reads the clock and has the    *)
(* certificate signed; with the KMS backend that is a remote call which    *)
(* may be slow or fail.  The handler then dials the target, which judges   *)
(* the certificate by its own clock, in whole seconds, and the session row *)
(* records the serial.  The counter is in memory and starts again with     *)
(* every broker process; the CA public key is read once per process, while *)
(* a KMS key id may be an alias that operators move to another key.        *)
(*                                                                         *)
(* Time is counted in ticks, Sec to the second.  A target's clock differs  *)
(* from the broker's by any of Offsets.  Targets trust every key of        *)
(* CAKeys; a signature verifies only under the key that made it.           *)
(*                                                                         *)
(* Abstracted: key pairs, key ids, extensions and the source address.  The *)
(* one principal is the account logged in to.                              *)
(***************************************************************************)
EXTENDS Integers

CONSTANTS
  Conns,        \* SSH connections that reach connectTarget, each once
  CAKeys,       \* CA keys
  NoKey,        \* no key
  TTLs,         \* the lifetimes decisions ask for, in ticks
  Offsets,      \* target clock minus broker clock, in ticks
  Sec,          \* ticks per second
  MaxTTL,       \* cfg.CertMaxTTL
  Skew,         \* cfg.CertClockSkew
  SignTimeout,  \* Authority.signTimeout
  DialTimeout,  \* ClientConfig.Timeout, which covers the TCP connection only
  Start,        \* the time of the first step
  MaxTime,      \* bound: the broker's clock
  MaxBoots      \* bound: broker processes

ASSUME TicksAssumption == Sec \in Nat \ {0} /\ Start \in Nat /\ MaxTime \in Nat
ASSUME ConfigAssumption == MaxTTL \in Nat \ {0} /\ Skew \in Nat
ASSUME ChoicesAssumption == TTLs \subseteq Int /\ Offsets \subseteq Int
\* No clock shows a time before 1970.
ASSUME EpochAssumption == Start >= Skew /\ \A off \in Offsets : Start + off >= 0
ASSUME BoundsAssumption ==
  SignTimeout \in Nat /\ DialTimeout \in Nat /\ MaxBoots \in Nat \ {0}

VARIABLES
  now,     \* the broker's clock
  boot,    \* which broker process is running
  n,       \* CounterAllocator.n
  kms,     \* the key the configured key id stands for
  pub,     \* the public key this process has loaded
  pc,      \* where each handler is in connectTarget
  cert,    \* its certificate, with when and by which process it was made
  since,   \* when the TCP dial in progress began
  judged,  \* history: when the target judged the certificate, and its offset
  rows     \* sessions.cert_serial of the connection's row; 0 without one

caVars == <<boot, n, kms, pub>>
vars == <<now, caVars, pc, cert, since, judged, rows>>

NoCert == [serial |-> 0, boot |-> 0, at |-> 0, ttl |-> 0, after |-> 0, before |-> 0,
           as |-> NoKey, by |-> NoKey]

Pending == {"sign", "dial", "shake", "start"}
Accepted == {"start", "live"}

TypeOK ==
  /\ now \in Nat /\ boot \in Nat \ {0} /\ n \in Nat
  /\ kms \in CAKeys /\ pub \in CAKeys
  /\ pc \in [Conns -> {"idle", "sign", "dial", "shake", "start", "live", "refused",
                       "failed", "gone"}]
  /\ cert \in [Conns -> [serial: Nat, boot: Nat, at: Nat, ttl: Int, after: Int, before: Int,
                         as: CAKeys \cup {NoKey}, by: CAKeys \cup {NoKey}]]
  /\ since \in [Conns -> Nat]
  /\ judged \in [Conns -> [time: Nat, off: Int]]
  /\ rows \in [Conns -> Nat]

\* New asks the KMS for the public key of whatever the id stands for then.
LoadPublicKey == kms

Init ==
  /\ now = Start /\ boot = 1 /\ n = 0
  /\ kms \in CAKeys /\ pub = LoadPublicKey
  /\ pc = [c \in Conns |-> "idle"]
  /\ cert = [c \in Conns |-> NoCert]
  /\ since = [c \in Conns |-> 0]
  /\ judged = [c \in Conns |-> [time |-> 0, off |-> 0]]
  /\ rows = [c \in Conns |-> 0]

-----------------------------------------------------------------------------
(* The pure part of Issue *)

\* unixSeconds.
Seconds(t) == IF t < 0 THEN 0 ELSE t \div Sec

\* Mutant: only a missing lifetime is replaced by the maximum.
Lifetime_NoCap(ttl) == IF ttl <= 0 THEN MaxTTL ELSE ttl

\* The lifetime Issue grants for the one asked for.
Lifetime(ttl) == IF ttl <= 0 \/ ttl > MaxTTL THEN MaxTTL ELSE ttl

\* Mutant: no tolerance for a target that is behind.
Template_NoSkew(ttl) ==
  [serial |-> n + 1, boot |-> boot, at |-> now, ttl |-> ttl,
   after |-> Seconds(now), before |-> Seconds(now + Lifetime(ttl)), as |-> pub, by |-> pub]

\* The certificate Issue hands to the signer.
Template(ttl) ==
  [serial |-> n + 1, boot |-> boot, at |-> now, ttl |-> ttl,
   after |-> Seconds(now - Skew), before |-> Seconds(now + Lifetime(ttl)),
   as |-> pub, by |-> pub]

\* sshd's check of a user certificate at its own time t.
Verifies(ct, t) == ct.by = ct.as /\ ct.after <= Seconds(t) /\ Seconds(t) < ct.before

-----------------------------------------------------------------------------
(* connectTarget and the start of the session *)

Step(c, from, to) == pc[c] = from /\ pc' = [pc EXCEPT ![c] = to]

\* Issue up to the call of the signer: the serial is gone whatever follows.
Issue(c, ttl) ==
  /\ Step(c, "idle", "sign")
  /\ n' = n + 1
  /\ cert' = [cert EXCEPT ![c] = Template(ttl)]
  /\ UNCHANGED <<now, boot, kms, pub, since, judged, rows>>

\* SignCertificate: the KMS signs with the key the id stands for by now, and
\* answers before the timeout; the dial begins.
Sign(c) ==
  /\ Step(c, "sign", "dial")
  /\ now - cert[c].at <= SignTimeout
  /\ cert' = [cert EXCEPT ![c].by = kms]
  /\ since' = [since EXCEPT ![c] = now]
  /\ UNCHANGED <<now, caVars, judged, rows>>

\* Mutant: a serial that was not used is given back.
SignFails_GiveBack(c) ==
  /\ Step(c, "sign", "failed")
  /\ n' = n - 1
  /\ UNCHANGED <<now, boot, kms, pub, cert, since, judged, rows>>

\* Signing failed or timed out.
SignFails(c) ==
  /\ Step(c, "sign", "failed")
  /\ UNCHANGED <<now, caVars, cert, since, judged, rows>>

\* The TCP connection is up.  What follows has no time limit.
Connect(c) ==
  /\ Step(c, "dial", "shake")
  /\ now - since[c] <= DialTimeout
  /\ since' = [since EXCEPT ![c] = 0]
  /\ UNCHANGED <<now, caVars, cert, judged, rows>>

\* No TCP connection, a host key other than the pinned one, or a broken
\* handshake: ssh.Dial returns an error.
DialFails(c) ==
  /\ Step(c, "dial", "failed") \/ Step(c, "shake", "failed")
  /\ UNCHANGED <<now, caVars, cert, since, judged, rows>>

\* The target looks at the certificate and lets the broker in, or does not.
Judge(c, off) ==
  /\ Step(c, "shake", IF Verifies(cert[c], now + off) THEN "start" ELSE "refused")
  /\ judged' = [judged EXCEPT ![c] = [time |-> now, off |-> off]]
  /\ UNCHANGED <<now, caVars, cert, since, rows>>

\* Mutant: the row is given the last serial handed out.
StartSession_Last(c) ==
  /\ Step(c, "start", "live")
  /\ rows' \in {rows, [rows EXCEPT ![c] = n]}
  /\ UNCHANGED <<now, caVars, cert, since, judged>>

\* StartSession records the serial connectTarget returned; an INSERT that fails
\* leaves no row and does not stop the session.
StartSession(c) ==
  /\ Step(c, "start", "live")
  /\ rows' \in {rows, [rows EXCEPT ![c] = cert[c].serial]}
  /\ UNCHANGED <<now, caVars, cert, since, judged>>

-----------------------------------------------------------------------------
(* Operators, time and the broker process *)

\* The alias is moved to another key.
MoveAlias(k) ==
  /\ kms' = k /\ k # kms
  /\ UNCHANGED <<now, boot, n, pub, pc, cert, since, judged, rows>>

\* A new process: NewCounterAllocator(0), and the public key is loaded again.
\* Every connection of the old one is lost.
Restart ==
  /\ boot < MaxBoots
  /\ boot' = boot + 1 /\ n' = 0 /\ pub' = LoadPublicKey
  /\ pc' = [c \in Conns |-> IF pc[c] \in Pending \cup {"live"} THEN "gone" ELSE pc[c]]
  /\ UNCHANGED <<now, kms, cert, since, judged, rows>>

Tick ==
  /\ now < MaxTime
  /\ now' = now + 1
  /\ UNCHANGED <<caVars, pc, cert, since, judged, rows>>

-----------------------------------------------------------------------------

ConnectTarget(c) ==
  \/ \E ttl \in TTLs : Issue(c, ttl)
  \/ Sign(c) \/ SignFails(c) \/ Connect(c) \/ DialFails(c)
  \/ \E off \in Offsets : Judge(c, off)
  \/ StartSession(c)

Next == Tick \/ Restart \/ (\E k \in CAKeys : MoveAlias(k)) \/ \E c \in Conns : ConnectTarget(c)

Spec == Init /\ [][Next]_vars

-----------------------------------------------------------------------------
(* Safety *)

\* How old the certificate was by the target's clock when it was judged.
Age(c) == judged[c].time + judged[c].off - cert[c].at

\* However long signing and dialling took and whatever the target's clock
\* shows, a target lets the broker in only with a certificate that is, by that
\* clock, younger than the decision's lifetime and than the maximum, and less
\* than the tolerance and a second ahead of its time; and never with one whose
\* signature is not the key's it names.
NeverOutlives == \A c \in Conns : pc[c] \in Accepted =>
  /\ Age(c) < MaxTTL
  /\ cert[c].ttl > 0 => Age(c) < cert[c].ttl
  /\ Age(c) > -(Skew + Sec)
  /\ cert[c].by = cert[c].as

\* A connection the policy allows is turned away by a sound target only for a
\* cause: the target is behind by more than the tolerance, less than a second
\* of the lifetime was left (rounding down can take the last), or the key was
\* moved since the process loaded it.
RefusalHasACause == \A c \in Conns : pc[c] = "refused" =>
  \/ Age(c) < -Skew
  \/ Age(c) > Lifetime(cert[c].ttl) - Sec
  \/ cert[c].by # cert[c].as

\* A recorded serial is that of a certificate a target accepted, and two
\* certificates with one serial were issued by different broker processes:
\* within a process nothing, not even a failed signature, makes serials repeat.
SerialNeedsItsProcess ==
  /\ \A c \in Conns : rows[c] # 0 => rows[c] = cert[c].serial /\ pc[c] \in {"live", "gone"}
  /\ \A c, d \in Conns :
       c # d /\ pc[c] # "idle" /\ cert[c].serial = cert[d].serial => cert[c].boot # cert[d].boot

-----------------------------------------------------------------------------
(* The inductive invariant behind the safety properties *)

\* Every certificate has a serial its process has handed out, and the window
\* Issue computed from the time it was made, which no clock puts before 1970.
CertsAreIssued == \A c \in Conns :
  IF pc[c] = "idle" THEN cert[c] = NoCert /\ rows[c] = 0 ELSE
    /\ cert[c].serial > 0
    /\ cert[c].boot \in 1..boot
    /\ cert[c].boot = boot => cert[c].serial <= n
    /\ cert[c].at >= Start
    /\ cert[c].after = Seconds(cert[c].at - Skew)
    /\ cert[c].before = Seconds(cert[c].at + Lifetime(cert[c].ttl))

\* A target's judgement follows from the certificate it was shown.
JudgedByTheBook == \A c \in Conns :
  LET ok == Verifies(cert[c], judged[c].time + judged[c].off) IN
  /\ pc[c] \in Accepted \cup {"refused"} => judged[c].time >= Start /\ judged[c].off \in Offsets
  /\ pc[c] \in Accepted => ok
  /\ pc[c] = "refused" => ~ok

\* How certificates, the counter and the judgements stand to each other.
IndInv ==
  TypeOK /\ now >= Start /\ CertsAreIssued /\ JudgedByTheBook /\ SerialNeedsItsProcess
=============================================================================
