-------------------------- MODULE CertIssuerProofs --------------------------
(***************************************************************************)
(* Safety of certificates for any number of connections and broker         *)
(* processes, any lifetimes, timeouts, clock offsets and tick length.      *)
(*                                                                         *)
(* The argument: a certificate's window is the one Issue computed from the *)
(* time it was made, and rounding down to seconds keeps the order of times *)
(* and moves each by less than a second; so what a target decides bounds   *)
(* the certificate's age.  A serial is at most the counter of its process. *)
(***************************************************************************)
EXTENDS CertIssuer, TLAPS

-----------------------------------------------------------------------------
(* Whole seconds *)

\* A time lies in the second it is rounded down to.
LEMMA Floor ==
  ASSUME NEW t \in Int
  PROVE  /\ t \div Sec \in Int
         /\ Sec * (t \div Sec) <= t
         /\ t < Sec * (t \div Sec) + Sec
BY TicksAssumption, Z3

\* Rounding down keeps the order.
LEMMA FloorIsMonotonic ==
  ASSUME NEW s \in Int, NEW t \in Int, s <= t
  PROVE  s \div Sec <= t \div Sec
<1> DEFINE p == s \div Sec  q == t \div Sec
<1>1. p \in Int /\ q \in Int /\ Sec * p <= s /\ t < Sec * q + Sec
  BY Floor
<1> HIDE DEF p, q
<1>2. SUFFICES ASSUME p >= q + 1 PROVE FALSE
  BY <1>1 DEF p, q
<1>3. Sec * p >= Sec * (q + 1)
  BY <1>1, <1>2, TicksAssumption, Z3
<1>4. Sec * (q + 1) = Sec * q + Sec
  BY <1>1, TicksAssumption, Z3
<1>. QED  BY <1>1, <1>3, <1>4, TicksAssumption

\* Seconds is a natural number and keeps the order, before 1970 as well.
LEMMA SecondsIsMonotonic ==
  ASSUME NEW s \in Int, NEW t \in Int, s <= t
  PROVE  Seconds(s) \in Nat /\ Seconds(t) \in Nat /\ Seconds(s) <= Seconds(t)
<1>1. \A u \in Int : u >= 0 => u \div Sec \in Nat
  <2> TAKE u \in Int
  <2> HAVE u >= 0
  <2>1. 0 \div Sec = 0
    BY TicksAssumption, Z3
  <2>2. 0 \div Sec <= u \div Sec
    BY FloorIsMonotonic
  <2>. QED  BY <2>1, <2>2, Floor
<1>2. s \div Sec <= t \div Sec
  BY FloorIsMonotonic
<1>. QED  BY <1>1, <1>2 DEF Seconds

\* From 1970 on, two times in the same second or in order are less than a second
\* out of order.
LEMMA SecondsIsClose ==
  ASSUME NEW s \in Int, NEW t \in Int, s >= 0, t >= 0, Seconds(s) <= Seconds(t)
  PROVE  s < t + Sec
<1> DEFINE p == s \div Sec  q == t \div Sec
<1>1. p \in Int /\ q \in Int /\ s < Sec * p + Sec /\ Sec * q <= t
  BY Floor
<1>2. p <= q
  BY DEF Seconds
<1> HIDE DEF p, q
<1>3. Sec * p <= Sec * q
  BY <1>1, <1>2, TicksAssumption, Z3
<1>4. Sec * p \in Int /\ Sec * q \in Int
  BY <1>1, TicksAssumption
<1>. QED  BY <1>1, <1>3, <1>4, TicksAssumption

-----------------------------------------------------------------------------
(* The inductive invariant *)

\* What Issue grants is a positive lifetime within the maximum and the request.
LEMMA LifetimeIsCapped ==
  ASSUME NEW ttl \in Int
  PROVE  /\ Lifetime(ttl) \in Nat \ {0}
         /\ Lifetime(ttl) <= MaxTTL
         /\ ttl > 0 => Lifetime(ttl) <= ttl
BY ConfigAssumption DEF Lifetime

\* The invariant holds before the first connection.
LEMMA InitHolds == Init => IndInv
<1> SUFFICES ASSUME Init PROVE IndInv
  OBVIOUS
<1>1. TypeOK /\ now >= Start
  BY TicksAssumption DEF Init, LoadPublicKey, TypeOK, NoCert
<1>2. CertsAreIssued /\ SerialNeedsItsProcess
  BY DEF Init, CertsAreIssued, SerialNeedsItsProcess
<1>3. JudgedByTheBook
  BY DEF Init, JudgedByTheBook, Accepted
<1>. QED  BY <1>1, <1>2, <1>3 DEF IndInv

\* The certificate Issue builds has the types of one.
LEMMA TemplateType ==
  ASSUME TypeOK, NEW ttl \in TTLs
  PROVE  Template(ttl) \in [serial: Nat, boot: Nat, at: Nat, ttl: Int, after: Int, before: Int,
                            as: CAKeys \cup {NoKey}, by: CAKeys \cup {NoKey}]
<1>1. ttl \in Int /\ now \in Int /\ Skew \in Int /\ Lifetime(ttl) \in Int
  BY ChoicesAssumption, ConfigAssumption, LifetimeIsCapped DEF TypeOK
<1>2. Seconds(now - Skew) \in Int /\ Seconds(now + Lifetime(ttl)) \in Int
  BY <1>1, SecondsIsMonotonic
<1>. QED  BY <1>1, <1>2 DEF Template, TypeOK

\* Every step keeps the types, and time does not run back.
LEMMA TypeNext == TypeOK /\ now >= Start /\ [Next]_vars => TypeOK' /\ (now >= Start)'
<1> SUFFICES ASSUME TypeOK, now >= Start, [Next]_vars PROVE TypeOK' /\ (now >= Start)'
  OBVIOUS
<1> USE TicksAssumption DEF TypeOK, Step, caVars
<1>1. CASE UNCHANGED vars
  BY <1>1 DEF vars
<1>2. CASE Tick
  BY <1>2 DEF Tick
<1>3. CASE Restart
  BY <1>3 DEF Restart, LoadPublicKey, Pending
<1>4. ASSUME NEW k \in CAKeys, MoveAlias(k) PROVE TypeOK' /\ (now >= Start)'
  BY <1>4 DEF MoveAlias
<1>5. ASSUME NEW c \in Conns, NEW ttl \in TTLs, Issue(c, ttl) PROVE TypeOK' /\ (now >= Start)'
  BY <1>5, TemplateType DEF Issue
<1>6. ASSUME NEW c \in Conns, Sign(c) PROVE TypeOK' /\ (now >= Start)'
  BY <1>6 DEF Sign
<1>7. ASSUME NEW c \in Conns, SignFails(c) PROVE TypeOK' /\ (now >= Start)'
  BY <1>7 DEF SignFails
<1>8. ASSUME NEW c \in Conns, Connect(c) PROVE TypeOK' /\ (now >= Start)'
  BY <1>8 DEF Connect
<1>9. ASSUME NEW c \in Conns, DialFails(c) PROVE TypeOK' /\ (now >= Start)'
  BY <1>9 DEF DialFails
<1>10. ASSUME NEW c \in Conns, NEW off \in Offsets, Judge(c, off) PROVE TypeOK' /\ (now >= Start)'
  BY <1>10, ChoicesAssumption DEF Judge
<1>11. ASSUME NEW c \in Conns, StartSession(c) PROVE TypeOK' /\ (now >= Start)'
  BY <1>11 DEF StartSession
<1>. QED
  BY <1>1, <1>2, <1>3, <1>4, <1>5, <1>6, <1>7, <1>8, <1>9, <1>10, <1>11 DEF Next, ConnectTarget

\* Every step keeps certificates as they were issued.
LEMMA CertsNext == IndInv /\ [Next]_vars => CertsAreIssued'
<1> SUFFICES ASSUME IndInv, [Next]_vars PROVE CertsAreIssued'
  OBVIOUS
<1> USE DEF IndInv, TypeOK, Step, caVars, CertsAreIssued
<1>1. CASE UNCHANGED vars
  BY <1>1 DEF vars
<1>2. CASE Tick
  BY <1>2 DEF Tick
<1>3. CASE Restart
  BY <1>3 DEF Restart, Pending
<1>4. ASSUME NEW k \in CAKeys, MoveAlias(k) PROVE CertsAreIssued'
  BY <1>4 DEF MoveAlias
<1>5. ASSUME NEW c \in Conns, NEW ttl \in TTLs, Issue(c, ttl) PROVE CertsAreIssued'
  BY <1>5 DEF Issue, Template
<1>6. ASSUME NEW c \in Conns, Sign(c) PROVE CertsAreIssued'
  BY <1>6 DEF Sign
<1>7. ASSUME NEW c \in Conns, SignFails(c) PROVE CertsAreIssued'
  BY <1>7 DEF SignFails
<1>8. ASSUME NEW c \in Conns, Connect(c) PROVE CertsAreIssued'
  BY <1>8 DEF Connect
<1>9. ASSUME NEW c \in Conns, DialFails(c) PROVE CertsAreIssued'
  BY <1>9 DEF DialFails
<1>10. ASSUME NEW c \in Conns, NEW off \in Offsets, Judge(c, off) PROVE CertsAreIssued'
  BY <1>10 DEF Judge
<1>11. ASSUME NEW c \in Conns, StartSession(c) PROVE CertsAreIssued'
  BY <1>11 DEF StartSession
<1>. QED
  BY <1>1, <1>2, <1>3, <1>4, <1>5, <1>6, <1>7, <1>8, <1>9, <1>10, <1>11 DEF Next, ConnectTarget

\* Only Judge makes a judgement, and no step changes a certificate after it.
LEMMA JudgementNext == IndInv /\ [Next]_vars => JudgedByTheBook'
<1> SUFFICES ASSUME IndInv, [Next]_vars PROVE JudgedByTheBook'
  OBVIOUS
<1> USE DEF IndInv, TypeOK, Step, caVars, JudgedByTheBook, Accepted
<1>1. CASE UNCHANGED vars
  BY <1>1 DEF vars, Verifies, Seconds
<1>2. CASE Tick
  BY <1>2 DEF Tick
<1>3. CASE Restart
  BY <1>3 DEF Restart, Pending
<1>4. ASSUME NEW k \in CAKeys, MoveAlias(k) PROVE JudgedByTheBook'
  BY <1>4 DEF MoveAlias
<1>5. ASSUME NEW c \in Conns, NEW ttl \in TTLs, Issue(c, ttl) PROVE JudgedByTheBook'
  BY <1>5 DEF Issue
<1>6. ASSUME NEW c \in Conns, Sign(c) PROVE JudgedByTheBook'
  BY <1>6 DEF Sign
<1>7. ASSUME NEW c \in Conns, SignFails(c) PROVE JudgedByTheBook'
  BY <1>7 DEF SignFails
<1>8. ASSUME NEW c \in Conns, Connect(c) PROVE JudgedByTheBook'
  BY <1>8 DEF Connect
<1>9. ASSUME NEW c \in Conns, DialFails(c) PROVE JudgedByTheBook'
  BY <1>9 DEF DialFails
<1>10. ASSUME NEW c \in Conns, NEW off \in Offsets, Judge(c, off) PROVE JudgedByTheBook'
  BY <1>10 DEF Judge
<1>11. ASSUME NEW c \in Conns, StartSession(c) PROVE JudgedByTheBook'
  BY <1>11 DEF StartSession
<1>. QED
  BY <1>1, <1>2, <1>3, <1>4, <1>5, <1>6, <1>7, <1>8, <1>9, <1>10, <1>11 DEF Next, ConnectTarget

\* Issue takes a serial above every one of its process; rows take their own.
LEMMA SerialsNext == IndInv /\ [Next]_vars => SerialNeedsItsProcess'
<1> SUFFICES ASSUME IndInv, [Next]_vars PROVE SerialNeedsItsProcess'
  OBVIOUS
<1> USE DEF IndInv, TypeOK, Step, caVars, CertsAreIssued, SerialNeedsItsProcess
<1>1. CASE UNCHANGED vars
  BY <1>1 DEF vars
<1>2. CASE Tick
  BY <1>2 DEF Tick
<1>3. CASE Restart
  BY <1>3 DEF Restart, Pending
<1>4. ASSUME NEW k \in CAKeys, MoveAlias(k) PROVE SerialNeedsItsProcess'
  BY <1>4 DEF MoveAlias
<1>5. ASSUME NEW c \in Conns, NEW ttl \in TTLs, Issue(c, ttl) PROVE SerialNeedsItsProcess'
  BY <1>5 DEF Issue, Template, NoCert
<1>6. ASSUME NEW c \in Conns, Sign(c) PROVE SerialNeedsItsProcess'
  BY <1>6 DEF Sign
<1>7. ASSUME NEW c \in Conns, SignFails(c) PROVE SerialNeedsItsProcess'
  BY <1>7 DEF SignFails
<1>8. ASSUME NEW c \in Conns, Connect(c) PROVE SerialNeedsItsProcess'
  BY <1>8 DEF Connect
<1>9. ASSUME NEW c \in Conns, DialFails(c) PROVE SerialNeedsItsProcess'
  BY <1>9 DEF DialFails
<1>10. ASSUME NEW c \in Conns, NEW off \in Offsets, Judge(c, off) PROVE SerialNeedsItsProcess'
  BY <1>10 DEF Judge
<1>11. ASSUME NEW c \in Conns, StartSession(c) PROVE SerialNeedsItsProcess'
  BY <1>11 DEF StartSession
<1>. QED
  BY <1>1, <1>2, <1>3, <1>4, <1>5, <1>6, <1>7, <1>8, <1>9, <1>10, <1>11 DEF Next, ConnectTarget

-----------------------------------------------------------------------------
(* The theorems *)

\* Certificates, the serial counter and the targets' judgements stand to each
\* other as IndInv says, whatever connections, restarts and alias moves do.
THEOREM Invariance == Spec => []IndInv
<1>1. IndInv /\ [Next]_vars => IndInv'
  BY TypeNext, CertsNext, JudgementNext, SerialsNext DEF IndInv
<1>. QED  BY <1>1, InitHolds, PTL DEF Spec

\* No target lets the broker in with a certificate older than its lifetime or
\* too far ahead of its time, or with a signature of another key.
THEOREM CertificatesNeverOutlive == Spec => []NeverOutlives
<1>1. IndInv => NeverOutlives
  <2> SUFFICES ASSUME IndInv, NEW c \in Conns, pc[c] \in Accepted
               PROVE  /\ Age(c) < MaxTTL
                      /\ cert[c].ttl > 0 => Age(c) < cert[c].ttl
                      /\ Age(c) > -(Skew + Sec)
                      /\ cert[c].by = cert[c].as
    BY DEF NeverOutlives
  <2> DEFINE t == judged[c].time + judged[c].off
             life == Lifetime(cert[c].ttl)
             at == cert[c].at
  <2>1. /\ cert[c].ttl \in Int /\ at \in Int /\ judged[c].time \in Int /\ judged[c].off \in Int
        /\ MaxTTL \in Int /\ Skew \in Int /\ Sec \in Int /\ Start \in Int
    BY TicksAssumption, ConfigAssumption DEF IndInv, TypeOK
  <2>2. life \in Int /\ life <= MaxTTL /\ (cert[c].ttl > 0 => life <= cert[c].ttl)
    BY <2>1, LifetimeIsCapped
  <2>3. /\ cert[c].by = cert[c].as
        /\ Seconds(at - Skew) <= Seconds(t)
        /\ Seconds(t) < Seconds(at + life)
    <3>1. Verifies(cert[c], t)
      BY DEF IndInv, JudgedByTheBook
    <3>2. cert[c].after = Seconds(at - Skew) /\ cert[c].before = Seconds(at + life)
      BY DEF IndInv, CertsAreIssued, Accepted
    <3>. QED  BY <3>1, <3>2 DEF Verifies
  <2>4. t \in Int /\ at - Skew \in Int /\ at + life \in Int /\ t >= 0 /\ at - Skew >= 0
    <3>1. judged[c].time >= Start /\ judged[c].off \in Offsets /\ at >= Start
      BY DEF IndInv, JudgedByTheBook, CertsAreIssued, Accepted
    <3>2. Start + judged[c].off >= 0 /\ Start >= Skew
      BY <3>1, EpochAssumption
    <3>. QED  BY <2>1, <2>2, <3>1, <3>2
  <2> HIDE DEF life
  <2>5. t < at + life
    <3>1. SUFFICES ASSUME at + life <= t PROVE FALSE
      BY <2>4
    <3>2. Seconds(at + life) \in Nat /\ Seconds(t) \in Nat /\ Seconds(at + life) <= Seconds(t)
      BY <2>4, <3>1, SecondsIsMonotonic
    <3>. QED  BY <2>3, <3>2
  <2>6. at - Skew < t + Sec
    BY <2>3, <2>4, SecondsIsClose
  <2>. QED  BY <2>1, <2>2, <2>3, <2>5, <2>6 DEF Age
<1>. QED  BY <1>1, Invariance, PTL

\* A sound target refuses only for a clock too far behind, a lifetime with less
\* than a second left, or a key that was moved.
THEOREM RefusalsHaveACause == Spec => []RefusalHasACause
<1>1. IndInv => RefusalHasACause
  <2> SUFFICES ASSUME IndInv, NEW c \in Conns, pc[c] = "refused", cert[c].by = cert[c].as
               PROVE  Age(c) < -Skew \/ Age(c) > Lifetime(cert[c].ttl) - Sec
    BY DEF RefusalHasACause
  <2> DEFINE t == judged[c].time + judged[c].off
             life == Lifetime(cert[c].ttl)
             at == cert[c].at
  <2>1. /\ cert[c].ttl \in Int /\ at \in Int /\ judged[c].time \in Int /\ judged[c].off \in Int
        /\ Skew \in Nat /\ Sec \in Int /\ Start \in Int
    BY TicksAssumption, ConfigAssumption DEF IndInv, TypeOK
  <2>2. life \in Nat
    BY <2>1, LifetimeIsCapped
  <2>3. ~(Seconds(at - Skew) <= Seconds(t)) \/ ~(Seconds(t) < Seconds(at + life))
    <3>1. ~Verifies(cert[c], t)
      BY DEF IndInv, JudgedByTheBook
    <3>2. cert[c].after = Seconds(at - Skew) /\ cert[c].before = Seconds(at + life)
      BY DEF IndInv, CertsAreIssued
    <3>. QED  BY <3>1, <3>2 DEF Verifies
  <2>4. t \in Int /\ at - Skew \in Int /\ at + life \in Int /\ t >= 0 /\ at + life >= 0
    <3>1. judged[c].time >= Start /\ judged[c].off \in Offsets /\ at >= Start
      BY DEF IndInv, JudgedByTheBook, CertsAreIssued
    <3>2. Start + judged[c].off >= 0 /\ Start >= Skew
      BY <3>1, EpochAssumption
    <3>. QED  BY <2>1, <2>2, <3>1, <3>2
  <2> HIDE DEF life
  <2>5. ASSUME ~(Seconds(at - Skew) <= Seconds(t)) PROVE t < at - Skew
    <3>1. SUFFICES ASSUME at - Skew <= t PROVE FALSE
      BY <2>4
    <3>. QED  BY <2>4, <2>5, <3>1, SecondsIsMonotonic
  <2>6. ASSUME ~(Seconds(t) < Seconds(at + life)) PROVE at + life < t + Sec
    <3>1. Seconds(t) \in Nat /\ Seconds(at + life) \in Nat
      BY <2>4, SecondsIsMonotonic
    <3>2. Seconds(at + life) <= Seconds(t)
      BY <2>6, <3>1
    <3>. QED  BY <2>4, <3>2, SecondsIsClose
  <2>7. CASE t < at - Skew
    BY <2>1, <2>7 DEF Age
  <2>8. CASE at + life < t + Sec
    BY <2>1, <2>2, <2>8 DEF Age, life
  <2>. QED  BY <2>3, <2>5, <2>6, <2>7, <2>8
<1>. QED  BY <1>1, Invariance, PTL

\* A recorded serial is its certificate's, and repeats only across processes.
THEOREM SerialsNeedTheirProcess == Spec => []SerialNeedsItsProcess
<1>1. IndInv => SerialNeedsItsProcess
  BY DEF IndInv
<1>. QED  BY <1>1, Invariance, PTL
=============================================================================
