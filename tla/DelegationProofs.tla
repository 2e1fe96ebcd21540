-------------------------- MODULE DelegationProofs --------------------------
(***************************************************************************)
(* Delegation for every lifetime, timer, limit and number of certificates: *)
(* a broker that is ready can check what it issues, and a rotation cuts no *)
(* token off.  Neither is inductive; Inv adds what the goroutine, the      *)
(* answer under way and the three holders of a key know of each other.     *)
(***************************************************************************)
EXTENDS Delegation, FiniteSetTheorems, SequenceTheorems, TLAPS

\* A request is under way exactly while the goroutine waits for it.
MailWhileWaiting == rot.pc = "wait" <=> mail # None

\* Keys somebody signs with, keeps or has a token of.
Referred == {dm.cur, dm.prev, issuer} \cup {t.kid : t \in tokens}

\* The certificate in an answer is as young as the wait, and nobody has seen its key.
AnswerIsNew ==
    mail # None /\ mail.kind = "cert" =>
        /\ certs[mail.kid] # NoCert /\ certs[mail.kid].left + rot.count >= TTL
        /\ mail.kid \notin Referred \cup known

WaitIsBounded == rot.pc = "wait" => rot.count <= MaxDelay

KnownAreCerts == \A k \in known : certs[k] # NoCert

\* While a rotation is half installed its certificate has time left; the issuer has the
\* previous key until SetDelegation, the new one after it.
HalfInstalled ==
    /\ Installing => dm.cur # None /\ certs[dm.cur] # NoCert /\ certs[dm.cur].left > 0
    /\ rot.pc = "set" => issuer = dm.cur
    /\ rot.pc = "stored" => issuer = dm.prev

\* The key the issuer has, unless it was set this moment, is one the validator knows, as
\* long as the certificate lives.
IssuerKnown ==
    /\ ~Installing => issuer = dm.cur
    /\ issuer # None /\ rot.pc # "set" /\ certs[issuer] # NoCert => issuer \in known

\* So is the key of every token this process issued.
TokensKnown ==
    \A t \in tokens :
        t.mine /\ certs[t.kid] # NoCert => t.kid \in known \/ (rot.pc = "set" /\ t.kid = dm.cur)

Inv == /\ TypeOK
       /\ MailWhileWaiting /\ AnswerIsNew /\ WaitIsBounded
       /\ KnownAreCerts /\ HalfInstalled /\ IssuerKnown /\ TokensKnown

-----------------------------------------------------------------------------
\* A log of the limiter is a sequence of ages no longer than the limit.
LEMMA LogIsSeq ==
    ASSUME NEW max \in Nat, NEW window \in Nat, NEW log \in Logs(max, window)
    PROVE  log \in Seq(0..window) /\ Len(log) \in 0..max
<1>1. PICK n \in 0..(IF max > 0 THEN max ELSE 0) : log \in [1..n -> 0..window]  BY DEF Logs
<1>2. n \in Nat /\ n <= max  BY <1>1
<1>3. log \in Seq(0..window) /\ Len(log) = n  BY <1>1, <1>2, IsASeq
<1> QED  BY <1>2, <1>3

LEMMA SeqIsLog ==
    ASSUME NEW max \in Nat, NEW window \in Nat, NEW log \in Seq(0..window), Len(log) <= max
    PROVE  log \in Logs(max, window)
<1>1. Len(log) \in 0..(IF max > 0 THEN max ELSE 0)  BY LenProperties
<1>2. log \in [1..Len(log) -> 0..window]  BY LenProperties
<1> QED  BY <1>1, <1>2 DEF Logs

LEMMA EmptyLog ==
    ASSUME NEW max \in Nat, NEW window \in Nat
    PROVE  << >> \in Logs(max, window)
<1>1. << >> \in Seq(0..window) /\ Len(<< >>) = 0  BY EmptySeq
<1>2. Len(<< >>) <= max  BY <1>1
<1> QED  BY <1>1, <1>2, SeqIsLog

\* Pruning drops the oldest entries of a log, at most all of them.
LEMMA PrunedLog ==
    ASSUME NEW max \in Nat, NEW window \in Nat, NEW log \in Logs(max, window)
    PROVE  Pruned(log, window) \in Seq(0..window) /\ Len(Pruned(log, window)) \in 0..Len(log)
<1> DEFINE old == {i \in DOMAIN log : log[i] >= window}
           n == Cardinality(old)
<1>1. log \in Seq(0..window) /\ Len(log) \in Nat  BY LogIsSeq
<1>2. DOMAIN log = 1..Len(log)  BY <1>1
<1>3. IsFiniteSet(1..Len(log)) /\ Cardinality(1..Len(log)) = Len(log)
  <2>1. 0 \in Int /\ 1 \in Int /\ Len(log) \in Int  BY <1>1
  <2>2. Cardinality(1..Len(log)) = IF 1 > Len(log) THEN 0 ELSE Len(log) - 1 + 1  BY <2>1, FS_Interval
  <2>3. IsFiniteSet(1..Len(log))  BY <2>1, FS_Interval
  <2> QED  BY <1>1, <2>2, <2>3
<1>4. IsFiniteSet(old) /\ n \in Nat /\ n <= Len(log)  BY <1>2, <1>3, FS_Subset, FS_CardinalityType
<1>5. Pruned(log, window) = SubSeq(log, 1 + n, Len(log))  BY DEF Pruned
<1> HIDE DEF n
<1>6. CASE n = Len(log)
  <2>1. Pruned(log, window) = << >>  BY <1>1, <1>5, <1>6, SubSeqEmpty
  <2> QED  BY <1>1, <2>1
<1>7. CASE n < Len(log)
  <2>1. 1 + n \in 1..Len(log) /\ Len(log) \in 1..Len(log) BY <1>1, <1>4, <1>7
  <2> QED  BY <1>1, <1>4, <1>5, <1>7, <2>1, SubSeqProperties
<1> QED  BY <1>1, <1>4, <1>6, <1>7

\* The limiter's operations keep its log within the limit.
LEMMA LimiterKeepsLog ==
    ASSUME NEW max \in Nat, NEW window \in Nat, NEW log \in Logs(max, window)
    PROVE  /\ Pruned(log, window) \in Logs(max, window)
           /\ Logged(log, max, window) \in Logs(max, window)
           /\ AgedLog(log, window) \in Logs(max, window)
<1> DEFINE pruned == Pruned(log, window)
<1>1. log \in Seq(0..window) /\ Len(log) \in 0..max  BY LogIsSeq
<1>2. pruned \in Seq(0..window) /\ Len(pruned) \in 0..Len(log)  BY PrunedLog
<1>4. pruned \in Logs(max, window)  BY <1>1, <1>2, SeqIsLog
<1>5. Logged(log, max, window) \in Logs(max, window)
  <2>1. CASE max > 0 /\ Len(pruned) < max
    <3>1. Append(pruned, 0) \in Seq(0..window) /\ Len(Append(pruned, 0)) = Len(pruned) + 1
      BY <1>2, AppendProperties
    <3>2. Len(Append(pruned, 0)) <= max  BY <1>1, <1>2, <2>1, <3>1
    <3>3. Append(pruned, 0) \in Logs(max, window)  BY <3>1, <3>2, SeqIsLog
    <3> QED  BY <2>1, <3>3 DEF Logged, Allows
  <2>2. CASE ~(max > 0 /\ Len(pruned) < max)
    BY <1>4, <2>2 DEF Logged, Allows
  <2> QED  BY <2>1, <2>2
<1>6. AgedLog(log, window) \in Logs(max, window)
  <2>1. DOMAIN log = 1..Len(log) /\ Len(log) \in Nat /\ \A i \in DOMAIN log : log[i] \in 0..window
    BY <1>1
  <2>2. AgedLog(log, window) \in [1..Len(log) -> 0..window]  BY <2>1 DEF AgedLog
  <2>3. AgedLog(log, window) \in Seq(0..window) /\ Len(AgedLog(log, window)) = Len(log)
    BY <2>1, <2>2, IsASeq
  <2> QED  BY <1>1, <2>3, SeqIsLog
<1> QED  BY <1>4, <1>5, <1>6

\* The constants as the steps below use them.
LEMMA Constants ==
    /\ TTL \in Nat \ {0} /\ RefreshAt \in 1..(TTL - 1) /\ MaxDelay \in 0..(TTL - 1)
    /\ MaxPerWindow \in Nat /\ Window \in Nat
    /\ None \notin Roots /\ None \notin Kids /\ None \notin Mails
    /\ NoCert \notin Certs /\ NoCert.left = -1
BY DelegationAssumption DEF Kids, Mails, Certs, NoCert

\* There is a longest lifetime of a token, so MaxTokenTTL bounds them all.
LEMMA TokenLifetimes ==
    MaxTokenTTL \in Nat /\ \A ttl \in TokenTTLs : ttl \in 0..MaxTokenTTL
<1>1. \E t \in TokenTTLs : \A u \in TokenTTLs : u <= t  BY DelegationAssumption
<1>2. MaxTokenTTL \in TokenTTLs /\ \A u \in TokenTTLs : u <= MaxTokenTTL  BY <1>1 DEF MaxTokenTTL
<1> QED  BY <1>2, DelegationAssumption

Rots == [pc : RotSteps, count : 0..TTL, first : BOOLEAN]

\* Where the goroutine goes next.
LEMMA RotStates ==
    ASSUME rot \in Rots
    PROVE  /\ \A step \in RotSteps : /\ At(step) \in Rots /\ At(step).pc = step
                                     /\ At(step).count = 0 /\ At(step).first = rot.first
           /\ Asleep \in Rots /\ Asleep.pc = "sleep"
           /\ [pc |-> "root", count |-> 0, first |-> TRUE] \in Rots
<1>1. \A step \in RotSteps : /\ At(step) \in Rots /\ At(step).pc = step
                             /\ At(step).count = 0 /\ At(step).first = rot.first
  <2> TAKE step \in RotSteps
  <2>1. [rot EXCEPT !.pc = step] \in Rots  BY DEF Rots
  <2>2. At(step) = [[rot EXCEPT !.pc = step] EXCEPT !.count = 0]  BY DEF At
  <2>3. 0 \in 0..TTL  BY Constants
  <2>4. At(step) \in Rots  BY <2>1, <2>2, <2>3 DEF Rots
  <2>5. At(step).pc = step /\ At(step).count = 0 /\ At(step).first = rot.first  BY DEF At, Rots
  <2> QED  BY <2>4, <2>5
<1>2. Asleep \in Rots /\ Asleep.pc = "sleep"  BY Constants DEF Asleep, Rots, RotSteps
<1>3. [pc |-> "root", count |-> 0, first |-> TRUE] \in Rots  BY Constants DEF Rots, RotSteps
<1> QED  BY <1>1, <1>2, <1>3

\* What ageing does to a certificate: one with time left stays one.
LEMMA AgedCertType ==
    ASSUME NEW c \in Certs \cup {NoCert}
    PROVE  /\ AgedCert(c) \in Certs \cup {NoCert}
           /\ AgedCert(c) # NoCert => c # NoCert /\ AgedCert(c).left = c.left - 1
           /\ c # NoCert /\ c.left > 0 => AgedCert(c) # NoCert
<1>1. CASE c.left <= 0
  <2>1. AgedCert(c) = NoCert  BY <1>1 DEF AgedCert
  <2>2. c.left \in Int  BY Constants DEF Certs
  <2> QED  BY <1>1, <2>1, <2>2
<1>2. CASE ~(c.left <= 0)
  <2>1. c \in Certs /\ c.left \in 1..TTL  BY <1>2, Constants DEF Certs
  <2>2. AgedCert(c) = [c EXCEPT !.left = @ - 1]  BY <1>2 DEF AgedCert
  <2>3. AgedCert(c) \in Certs /\ AgedCert(c).left = c.left - 1  BY <2>1, <2>2, Constants DEF Certs
  <2> QED  BY <2>1, <2>3, Constants
<1> QED  BY <1>1, <1>2

LEMMA LiveTokensType ==
    ASSUME tokens \subseteq Tokens
    PROVE  /\ LiveTokens \subseteq Tokens
           /\ \A t \in LiveTokens : \E u \in tokens : t.kid = u.kid /\ (t.mine <=> u.mine)
<1> SUFFICES ASSUME NEW t \in LiveTokens
             PROVE  t \in Tokens /\ \E u \in tokens : t.kid = u.kid /\ (t.mine <=> u.mine)
  OBVIOUS
<1>1. PICK u \in tokens : u.left > 0 /\ t = [u EXCEPT !.left = @ - 1]  BY DEF LiveTokens
<1>2. u \in Tokens /\ MaxTokenTTL \in Nat  BY TokenLifetimes
<1>3. t \in Tokens /\ t.kid = u.kid /\ (t.mine <=> u.mine)  BY <1>1, <1>2 DEF Tokens
<1> QED  BY <1>3

-----------------------------------------------------------------------------
LEMMA TypeInit == Init => TypeOK
<1> SUFFICES ASSUME Init PROVE TypeOK  OBVIOUS
<1>1. stamps \in Logs(MaxPerWindow, Window)
  BY Constants, EmptyLog DEF Init
<1>2. rot \in [pc : RotSteps, count : 0..TTL, first : BOOLEAN]  BY Constants DEF Init, RotSteps
<1>3. certs \in [Kids -> Certs \cup {NoCert}]  BY DEF Init
<1>4. signer \in [phase : Phases, ca : Roots, signal : BOOLEAN]  BY DEF Init, Phases
<1>5. dm \in [cur : Kids \cup {None}, prev : Kids \cup {None}]  BY DEF Init
<1> QED  BY <1>1, <1>2, <1>3, <1>4, <1>5 DEF Init, TypeOK

\* Every step of the signer, and every fault of its, leaves the types as they are.
LEMMA SignerTypes == Inv /\ (Serve \/ ShutdownSignal \/ SignerKilled \/ SignerStarts \/ OtherSign) => TypeOK'
<1> SUFFICES ASSUME Inv, Serve \/ ShutdownSignal \/ SignerKilled \/ SignerStarts \/ OtherSign
             PROVE  TypeOK'
  OBVIOUS
<1> USE DEF Inv, TypeOK, Phases, signerVars, keyVars
<1>1. /\ << >> \in Logs(MaxPerWindow, Window)
      /\ Logged(stamps, MaxPerWindow, Window) \in Logs(MaxPerWindow, Window)
  BY Constants, EmptyLog, LimiterKeepsLog
<1>2. CASE ShutdownSignal  BY <1>2 DEF ShutdownSignal
<1>3. CASE CloseListener
  <2>1. mail' \in {mail, [kind |-> "lost"]}  BY <1>3 DEF CloseListener
  <2>2. mail' \in {None} \cup Mails  BY <2>1 DEF Mails
  <2>3. signer' \in [phase : Phases, ca : Roots, signal : BOOLEAN]  BY <1>3 DEF CloseListener
  <2> QED  BY <1>3, <2>2, <2>3 DEF CloseListener
<1>4. CASE SignerGone  BY <1>4 DEF SignerGone, Mails
<1>5. CASE SignerStarts  BY <1>1, <1>5 DEF SignerStarts
<1>6. CASE OtherSign  BY <1>1, <1>6 DEF OtherSign
<1>7. CASE HandleSignDelegation
  <2>1. stamps' \in Logs(MaxPerWindow, Window)  BY <1>1, <1>7 DEF HandleSignDelegation
  <2>2. certs' \in [Kids -> Certs \cup {NoCert}] /\ mail' \in Mails
    <3>1. CASE mail' = [kind |-> "error"] /\ UNCHANGED certs  BY <3>1 DEF Mails
    <3>2. CASE \E k \in Unused : SignDelegation(k) /\ mail' = [kind |-> "cert", kid |-> k]
      <4>1. PICK k \in Kids : SignDelegation(k) /\ mail' = [kind |-> "cert", kid |-> k]
        BY <3>2 DEF Unused
      <4>2. [left |-> TTL, same |-> TRUE, root |-> signer.ca] \in Certs  BY Constants DEF Certs
      <4> QED  BY <4>1, <4>2 DEF SignDelegation, Mails
    <3> QED  BY <1>7, <3>1, <3>2 DEF HandleSignDelegation
  <2> QED  BY <1>7, <2>1, <2>2 DEF HandleSignDelegation
<1> QED  BY <1>2, <1>3, <1>4, <1>5, <1>6, <1>7 DEF Serve, AcceptFails, SignerKilled

\* So does every step of the goroutine that rotates.
LEMMA RotateTypes == Inv /\ Rotate => TypeOK'
<1> SUFFICES ASSUME Inv, Rotate PROVE TypeOK'  OBVIOUS
<1> USE DEF Inv, TypeOK, signerVars, keyVars
<1>1. rot \in Rots  BY DEF Rots
<1>2. \A step \in RotSteps : At(step) \in Rots  BY <1>1, RotStates
<1>3. Asleep \in Rots /\ \A step \in {"ask", "off", "wait", "stored", "set"} : At(step) \in Rots
  BY <1>1, <1>2, RotStates DEF RotSteps
<1>4. CASE PinRoot  BY <1>3, <1>4 DEF PinRoot, Rots
<1>5. CASE RequestDelegation
  BY <1>3, <1>5 DEF RequestDelegation, RotationFails, Rots, Mails
<1>6. CASE StoreDelegation
  <2>1. mail.kid \in Kids /\ certs[mail.kid] \in Certs
    BY <1>6, Constants DEF StoreDelegation, AnswerIsNew, Mails
  <2>2. certs' \in [Kids -> Certs \cup {NoCert}]
    <3>1. PICK same \in BOOLEAN : certs' = [certs EXCEPT ![mail.kid].same = same]
      BY <1>6 DEF StoreDelegation
    <3>2. [certs[mail.kid] EXCEPT !.same = same] \in Certs  BY <2>1 DEF Certs
    <3> QED  BY <2>1, <3>1, <3>2
  <2> QED  BY <1>3, <1>6, <2>1, <2>2 DEF StoreDelegation, Rots
<1>7. CASE GiveUp
  <2>1. certs' \in [Kids -> Certs \cup {NoCert}]  BY <1>7 DEF GiveUp
  <2> QED  BY <1>3, <1>7, <2>1 DEF GiveUp, RotationFails, Rots
<1>8. CASE SetDelegation  BY <1>3, <1>8 DEF SetDelegation, Rots
<1>9. CASE AddDelegation
  <2>1. dm.cur \in Kids  BY <1>9 DEF AddDelegation, HalfInstalled, Installing
  <2> QED BY <1>3, <1>9, <2>1 DEF AddDelegation, Rots
<1>10. CASE RotationTimer  BY <1>3, <1>10 DEF RotationTimer, Rots
<1> QED  BY <1>4, <1>5, <1>6, <1>7, <1>8, <1>9, <1>10 DEF Rotate

\* And the broker's other steps: tokens, the restart, and time.
LEMMA BrokerTypes ==
    Inv /\ ((\E ttl \in TokenTTLs : IssueToken(ttl)) \/ RestartBroker \/ Tick) => TypeOK'
<1> USE DEF Inv, TypeOK, signerVars, keyVars
<1>1. ASSUME Inv, NEW ttl \in TokenTTLs, IssueToken(ttl) PROVE TypeOK'
  <2>1. [kid |-> issuer, left |-> ttl, mine |-> TRUE] \in Tokens
    BY <1>1, TokenLifetimes DEF IssueToken, Tokens
  <2> QED  BY <1>1, <2>1 DEF IssueToken
<1>2. ASSUME Inv, RestartBroker PROVE TypeOK'
  <2>1. ASSUME NEW t \in tokens PROVE [t EXCEPT !.mine = FALSE] \in Tokens
    <3>1. t \in Tokens  BY <1>2
    <3>2. ASSUME NEW b \in BOOLEAN PROVE [t EXCEPT !.mine = b] \in Tokens  BY <3>1 DEF Tokens
    <3> QED  BY <3>2
  <2>5. tokens' \subseteq Tokens  BY <1>2, <2>1 DEF RestartBroker
  <2>2. certs' \in [Kids -> Certs \cup {NoCert}]  BY <1>2 DEF RestartBroker
  <2>3. rot' \in Rots  BY <1>2, RotStates DEF RestartBroker, Rots
  <2>4. dm' \in [cur : Kids \cup {None}, prev : Kids \cup {None}]  BY <1>2 DEF RestartBroker
  <2> QED  BY <1>2, <2>2, <2>3, <2>4, <2>5 DEF RestartBroker, Rots
<1>3. ASSUME Inv, Tick PROVE TypeOK'
  <2>1. tokens' \subseteq Tokens  BY <1>3, LiveTokensType DEF Tick
  <2>2. certs' \in [Kids -> Certs \cup {NoCert}]  BY <1>3, AgedCertType DEF Tick
  <2>3. rot' \in Rots
    <3>1. CASE rot.pc = "sleep"  BY <1>3, <3>1, Constants DEF Tick, Rots
    <3>2. CASE rot.pc = "wait"  BY <1>3, <3>2, Constants DEF Tick, Rots
    <3>3. CASE rot.pc = "off"  BY <1>3, <3>3 DEF Tick, Rots
    <3> QED  BY <1>3, <3>1, <3>2, <3>3 DEF Tick
  <2>4. stamps' \in Logs(MaxPerWindow, Window)
    <3>1. AgedLog(stamps, Window) \in Logs(MaxPerWindow, Window)  BY Constants, LimiterKeepsLog, <1>3
    <3> QED  BY <1>3, <3>1, Constants, LimiterKeepsLog DEF Tick
  <2> QED  BY <1>3, <2>1, <2>2, <2>3, <2>4 DEF Tick, Rots
<1> QED  BY <1>1, <1>2, <1>3

-----------------------------------------------------------------------------
\* The signer's comings and goings touch no key: at most the request under way is lost.
LEMMA SignerKeeps ==
    Inv /\ (CloseListener \/ SignerGone \/ ShutdownSignal \/ SignerStarts \/ OtherSign) /\ TypeOK' => Inv'
<1> SUFFICES ASSUME Inv, TypeOK', CloseListener \/ SignerGone \/ ShutdownSignal \/ SignerStarts \/ OtherSign
             PROVE  Inv'
  OBVIOUS
<1>1. UNCHANGED <<certs, pinned, dm, issuer, known, rot, tokens>>
  BY DEF CloseListener, SignerGone, ShutdownSignal, SignerStarts, OtherSign, keyVars
<1>2. mail' = mail \/ (mail # None /\ mail' = [kind |-> "lost"])
  <2>1. CASE CloseListener
    <3>1. mail' = mail \/ (mail = [kind |-> "request"] /\ mail' = [kind |-> "lost"])
      BY <2>1 DEF CloseListener
    <3> QED  BY <3>1, Constants DEF Mails
  <2> QED  BY <2>1 DEF SignerGone, ShutdownSignal, SignerStarts, OtherSign
<1>3. [kind |-> "lost"] # None  BY Constants DEF Mails
<1>4. MailWhileWaiting'  BY <1>1, <1>2, <1>3 DEF Inv, MailWhileWaiting
<1>5. AnswerIsNew'  BY <1>1, <1>2 DEF Inv, AnswerIsNew, Referred
<1>6. (WaitIsBounded /\ KnownAreCerts /\ HalfInstalled /\ IssuerKnown /\ TokensKnown)'
  BY <1>1 DEF Inv, WaitIsBounded, KnownAreCerts, HalfInstalled, IssuerKnown, TokensKnown, Installing
<1> QED  BY <1>4, <1>5, <1>6 DEF Inv

\* A certificate is issued for a key that nobody refers to.
LEMMA HandleSignDelegationKeeps == Inv /\ HandleSignDelegation /\ TypeOK' => Inv'
<1> SUFFICES ASSUME Inv, TypeOK', HandleSignDelegation PROVE Inv'  OBVIOUS
<1>1. UNCHANGED <<dm, issuer, known, rot, tokens>>  BY DEF HandleSignDelegation
<1>2. mail # None  BY DEF HandleSignDelegation
<1>3. CASE mail' = [kind |-> "error"] /\ UNCHANGED certs
  <2>1. mail' # None /\ mail'.kind # "cert"  BY <1>3, Constants DEF Mails
  <2> QED
    BY <1>1, <1>2, <1>3, <2>1 DEF Inv, MailWhileWaiting, AnswerIsNew, WaitIsBounded, KnownAreCerts,
                                 HalfInstalled, IssuerKnown, TokensKnown, Installing
<1>4. CASE \E k \in Unused : SignDelegation(k) /\ mail' = [kind |-> "cert", kid |-> k]
  <2>1. PICK k \in Unused : SignDelegation(k) /\ mail' = [kind |-> "cert", kid |-> k]  BY <1>4
  <2>2. k \in Kids /\ certs[k] = NoCert /\ k \notin Referred /\ k \notin known
    BY <2>1 DEF Unused, Referred, Inv, KnownAreCerts
  <2>3. certs'[k] # NoCert /\ certs'[k].left = TTL /\ \A j \in Kids \ {k} : certs'[j] = certs[j]
    BY <2>1, <2>2, Constants DEF SignDelegation, Inv, TypeOK, Certs, NoCert
  <2>4. mail' # None  BY <2>1, <2>2, Constants DEF Mails
  <2>5. MailWhileWaiting' /\ WaitIsBounded'  BY <1>1, <1>2, <2>4 DEF Inv, MailWhileWaiting, WaitIsBounded
  <2>6. AnswerIsNew'
    BY <1>1, <2>1, <2>2, <2>3, Constants DEF Inv, TypeOK, AnswerIsNew, Referred
  <2>7. KnownAreCerts'  BY <1>1, <2>2, <2>3 DEF Inv, TypeOK, KnownAreCerts
  <2>8. HalfInstalled' /\ IssuerKnown'
    BY <1>1, <2>2, <2>3 DEF Inv, TypeOK, HalfInstalled, IssuerKnown, Installing, Referred
  <2>9. TokensKnown'
    <3>1. \A t \in tokens : t.kid \in Kids \ {k}  BY <2>2 DEF Referred, Inv, TypeOK, Tokens
    <3> QED  BY <1>1, <2>3, <3>1 DEF Inv, TokensKnown
  <2> QED  BY <2>5, <2>6, <2>7, <2>8, <2>9 DEF Inv
<1> QED  BY <1>3, <1>4 DEF HandleSignDelegation

\* The goroutine: the answer is stored, set with the issuer and added to the validator,
\* in this order, or given up.
LEMMA RotateKeeps == Inv /\ Rotate /\ TypeOK' => Inv'
<1> SUFFICES ASSUME Inv, TypeOK', Rotate PROVE Inv'  OBVIOUS
<1> DEFINE KeyParts == KnownAreCerts /\ HalfInstalled /\ IssuerKnown /\ TokensKnown
<1>a. rot \in Rots  BY DEF Inv, TypeOK, Rots
<1>b. /\ \A step \in RotSteps : At(step).pc = step /\ At(step).count = 0
      /\ Asleep.pc = "sleep"
  BY <1>a, RotStates
<1>1. CASE PinRoot \/ RotationTimer
  <2>1. rot.pc \in {"root", "sleep"} /\ rot'.pc \in {"ask", "off"} /\ UNCHANGED <<mail, certs, dm, issuer, known, tokens>>
    BY <1>1, <1>b DEF PinRoot, RotationTimer, RotSteps, keyVars
  <2> QED
    BY <2>1 DEF Inv, MailWhileWaiting, AnswerIsNew, WaitIsBounded, KnownAreCerts,
                HalfInstalled, IssuerKnown, TokensKnown, Installing
<1>2. CASE RequestDelegation
  <2>1. /\ rot.pc = "ask" /\ UNCHANGED <<certs, dm, issuer, known, tokens>>
        /\ \/ rot'.pc = "wait" /\ rot'.count = 0 /\ mail' = [kind |-> "request"]
           \/ rot'.pc \in {"off", "sleep"} /\ mail' = None
    BY <1>2, <1>b DEF RequestDelegation, RotationFails, RotSteps, keyVars
  <2>2. [kind |-> "request"] # None  BY Constants DEF Mails
  <2>3. (MailWhileWaiting /\ AnswerIsNew /\ WaitIsBounded)'
    BY <2>1, <2>2, Constants DEF MailWhileWaiting, AnswerIsNew, WaitIsBounded
  <2>4. KeyParts'
    BY <2>1 DEF Inv, KnownAreCerts, HalfInstalled, IssuerKnown, TokensKnown, Installing
  <2> QED  BY <2>3, <2>4 DEF Inv
<1>3. CASE StoreDelegation
  <2>1. /\ rot.pc = "wait" /\ rot'.pc = "stored" /\ mail' = None
        /\ dm' = [cur |-> mail.kid, prev |-> dm.cur] /\ UNCHANGED <<issuer, known, tokens>>
    BY <1>3, <1>b DEF StoreDelegation, RotSteps
  <2>2. /\ mail.kid \in Kids /\ mail.kid \notin Referred \cup known
        /\ certs[mail.kid] \in Certs /\ certs[mail.kid].left > 0
    <3>1. mail \in Mails /\ mail.kind = "cert"  BY <1>3 DEF StoreDelegation, Inv, TypeOK
    <3>2. mail.kid \in Kids  BY <3>1 DEF Mails
    <3>3. certs[mail.kid] \in Certs  BY <1>3, <3>1, <3>2 DEF StoreDelegation, Inv, TypeOK, AnswerIsNew
    <3>4. certs[mail.kid].left + rot.count >= TTL /\ rot.count <= MaxDelay /\ rot.count \in 0..TTL
      BY <1>3, <2>1, <3>1 DEF StoreDelegation, Inv, TypeOK, AnswerIsNew, WaitIsBounded
    <3>5. certs[mail.kid].left > 0  BY <3>3, <3>4, Constants DEF Certs
    <3> QED  BY <1>3, <3>1, <3>2, <3>3, <3>5 DEF StoreDelegation, Inv, AnswerIsNew
  <2>3. /\ certs'[mail.kid] # NoCert /\ certs'[mail.kid].left > 0
        /\ \A k \in Kids \ {mail.kid} : certs'[k] = certs[k]
    <3>1. PICK same \in BOOLEAN : certs' = [certs EXCEPT ![mail.kid].same = same]
      BY <1>3 DEF StoreDelegation
    <3>2. /\ [certs[mail.kid] EXCEPT !.same = same] \in Certs
          /\ [certs[mail.kid] EXCEPT !.same = same].left = certs[mail.kid].left
      BY <2>2 DEF Certs
    <3> QED  BY <2>2, <3>1, <3>2, Constants DEF Inv, TypeOK
  <2>4. (MailWhileWaiting /\ AnswerIsNew /\ WaitIsBounded)'
    BY <2>1 DEF MailWhileWaiting, AnswerIsNew, WaitIsBounded
  <2>5. KnownAreCerts'  BY <2>1, <2>2, <2>3 DEF Inv, TypeOK, KnownAreCerts
  <2>6. HalfInstalled' /\ IssuerKnown'
    BY <2>1, <2>2, <2>3, Constants DEF Inv, TypeOK, HalfInstalled, IssuerKnown, Installing, Referred
  <2>7. TokensKnown'
    <3>1. \A t \in tokens : t.kid \in Kids \ {mail.kid}  BY <2>2 DEF Referred, Inv, TypeOK, Tokens
    <3> QED  BY <2>1, <2>3, <3>1 DEF Inv, TokensKnown
  <2> QED  BY <2>4, <2>5, <2>6, <2>7 DEF Inv
<1>4. CASE GiveUp
  <2>1. /\ rot.pc = "wait" /\ rot'.pc \in {"off", "sleep"} /\ mail' = None
        /\ UNCHANGED <<dm, issuer, known, tokens>>
    BY <1>4, <1>b DEF GiveUp, RotationFails, RotSteps
  <2>2. \A k \in Referred \cup known : k \in Kids => certs'[k] = certs[k]
    BY <1>4, <2>1 DEF GiveUp, Inv, TypeOK, MailWhileWaiting, AnswerIsNew
  <2>3. (MailWhileWaiting /\ AnswerIsNew /\ WaitIsBounded)'
    BY <2>1 DEF MailWhileWaiting, AnswerIsNew, WaitIsBounded
  <2>4. KnownAreCerts'  BY <2>1, <2>2 DEF Inv, TypeOK, KnownAreCerts
  <2>5. HalfInstalled' /\ IssuerKnown'
    BY <2>1, <2>2 DEF Inv, TypeOK, HalfInstalled, IssuerKnown, Installing, Referred
  <2>6. TokensKnown'
    <3>1. \A t \in tokens : t.kid \in Kids /\ certs'[t.kid] = certs[t.kid]
      BY <2>2 DEF Referred, Inv, TypeOK, Tokens
    <3> QED  BY <2>1, <3>1 DEF Inv, TokensKnown
  <2> QED  BY <2>3, <2>4, <2>5, <2>6 DEF Inv
<1>5. CASE SetDelegation
  <2>1. /\ rot.pc = "stored" /\ rot'.pc = "set" /\ issuer' = dm.cur
        /\ UNCHANGED <<mail, certs, dm, known, tokens>>
    BY <1>5, <1>b DEF SetDelegation, Ready, RotSteps, Inv, HalfInstalled, Installing
  <2>2. (MailWhileWaiting /\ AnswerIsNew /\ WaitIsBounded)'
    BY <2>1 DEF Inv, MailWhileWaiting, AnswerIsNew, WaitIsBounded
  <2>3. KeyParts'
    BY <2>1 DEF Inv, KnownAreCerts, HalfInstalled, IssuerKnown, TokensKnown, Installing
  <2> QED  BY <2>2, <2>3 DEF Inv
<1>6. CASE AddDelegation
  <2>1. /\ rot.pc = "set" /\ rot'.pc = "sleep" /\ known' = known \cup {dm.cur}
        /\ UNCHANGED <<mail, certs, dm, issuer, tokens>>
    BY <1>6, <1>b DEF AddDelegation
  <2>2. (MailWhileWaiting /\ AnswerIsNew /\ WaitIsBounded)'
    BY <2>1 DEF Inv, MailWhileWaiting, AnswerIsNew, WaitIsBounded
  <2>3. KeyParts'
    BY <2>1 DEF Inv, KnownAreCerts, HalfInstalled, IssuerKnown, TokensKnown, Installing
  <2> QED  BY <2>2, <2>3 DEF Inv
<1> QED  BY <1>1, <1>2, <1>3, <1>4, <1>5, <1>6 DEF Rotate

\* A token is signed with a key the validator knows or is about to learn.
LEMMA IssueTokenKeeps ==
    ASSUME Inv, TypeOK', NEW ttl \in TokenTTLs, IssueToken(ttl)
    PROVE  Inv'
<1> DEFINE new == [kid |-> issuer, left |-> ttl, mine |-> TRUE]
<1>1. /\ UNCHANGED <<mail, certs, dm, issuer, known, rot>> /\ tokens' = tokens \cup {new}
      /\ issuer # None
  BY DEF IssueToken, keyVars
<1>2. AnswerIsNew'
  <2>1. Referred' = Referred  BY <1>1 DEF Referred
  <2> QED  BY <1>1, <2>1 DEF Inv, AnswerIsNew
<1>3. TokensKnown'
  <2>1. certs[issuer] # NoCert => issuer \in known \/ (rot.pc = "set" /\ issuer = dm.cur)
    BY <1>1 DEF Inv, IssuerKnown, HalfInstalled
  <2>2. ASSUME NEW t \in tokens', t.mine, certs[t.kid] # NoCert
        PROVE  t.kid \in known \/ (rot.pc = "set" /\ t.kid = dm.cur)
    <3>1. CASE t \in tokens  BY <2>2, <3>1 DEF Inv, TokensKnown
    <3>2. CASE t = new  BY <2>1, <2>2, <3>2
    <3> QED  BY <1>1, <3>1, <3>2
  <2> QED  BY <1>1, <2>2 DEF TokensKnown
<1>4. (MailWhileWaiting /\ WaitIsBounded /\ KnownAreCerts /\ HalfInstalled /\ IssuerKnown)'
  BY <1>1 DEF Inv, MailWhileWaiting, WaitIsBounded, KnownAreCerts, HalfInstalled, IssuerKnown, Installing
<1> QED  BY <1>2, <1>3, <1>4 DEF Inv

\* After a restart no token is of this process, and there is no key to speak of.
LEMMA RestartBrokerKeeps == Inv /\ RestartBroker /\ TypeOK' => Inv'
<1> SUFFICES ASSUME Inv, TypeOK', RestartBroker PROVE Inv'  OBVIOUS
<1>1. /\ dm' = [cur |-> None, prev |-> None] /\ issuer' = None /\ known' = {} /\ mail' = None
      /\ rot' = [pc |-> "root", count |-> 0, first |-> TRUE]
  BY DEF RestartBroker
<1>2. \A t \in tokens' : t.mine = FALSE
  <2>1. \A t \in tokens : [t EXCEPT !.mine = FALSE].mine = FALSE  BY DEF Inv, TypeOK, Tokens
  <2> QED  BY <2>1 DEF RestartBroker
<1>3. TokensKnown'  BY <1>2 DEF TokensKnown
<1> QED
  BY <1>1, <1>3 DEF Inv, MailWhileWaiting, AnswerIsNew, WaitIsBounded, KnownAreCerts,
                    HalfInstalled, IssuerKnown, Installing

\* Time takes a certificate from all its holders at once, and no step of an installation
\* waits for it.
LEMMA TickKeeps == Inv /\ Tick /\ TypeOK' => Inv'
<1> SUFFICES ASSUME Inv, TypeOK', Tick PROVE Inv'  OBVIOUS
<1>1. UNCHANGED <<mail, dm, issuer>> /\ known' = {k \in known : certs'[k] # NoCert}
  BY DEF Tick
<1>2. /\ rot.pc \in {"wait", "sleep", "off"} /\ rot'.pc = rot.pc
      /\ rot.pc = "wait" => rot.count < MaxDelay /\ rot'.count = rot.count + 1
  BY DEF Tick, Inv, TypeOK
<1>3. \A k \in Kids : /\ certs'[k] = AgedCert(certs[k])
                      /\ certs'[k] # NoCert => certs[k] # NoCert
  BY AgedCertType DEF Tick, Inv, TypeOK
<1>4. MailWhileWaiting' /\ WaitIsBounded'
  BY <1>1, <1>2, Constants DEF Inv, TypeOK, MailWhileWaiting, WaitIsBounded
<1>5. AnswerIsNew'
  <2> SUFFICES ASSUME mail # None, mail.kind = "cert"
               PROVE  /\ certs'[mail.kid] # NoCert /\ certs'[mail.kid].left + rot'.count >= TTL
                      /\ mail.kid \notin (Referred \cup known)'
    BY <1>1 DEF AnswerIsNew
  <2>1. /\ rot.pc = "wait" /\ mail.kid \in Kids /\ certs[mail.kid] \in Certs
        /\ certs[mail.kid].left + rot.count >= TTL /\ mail.kid \notin Referred \cup known
    BY DEF Inv, TypeOK, MailWhileWaiting, AnswerIsNew, Mails
  <2>2. rot.count \in 0..TTL /\ rot.count < MaxDelay /\ rot'.count = rot.count + 1
    BY <1>2, <2>1 DEF Inv, TypeOK
  <2>3. certs[mail.kid].left > 0 /\ certs[mail.kid].left \in 0..TTL  BY <2>1, <2>2, Constants DEF Certs
  <2>4. certs'[mail.kid] # NoCert /\ certs'[mail.kid].left = certs[mail.kid].left - 1
    <3> DEFINE c == certs[mail.kid]
    <3>1. c \in Certs \cup {NoCert} /\ c # NoCert /\ c.left > 0  BY <2>1, <2>3, Constants
    <3>2. AgedCert(c) # NoCert /\ AgedCert(c).left = c.left - 1  BY <3>1, AgedCertType
    <3> QED  BY <1>3, <2>1, <3>2
  <2>5. Referred' \subseteq Referred
    <3>1. \A t \in tokens' : \E u \in tokens : t.kid = u.kid
      BY LiveTokensType DEF Tick, Inv, TypeOK
    <3> QED  BY <1>1, <3>1 DEF Referred
  <2>6. certs'[mail.kid].left + rot'.count >= TTL  BY <2>1, <2>2, <2>3, <2>4, Constants
  <2> QED  BY <1>1, <2>1, <2>4, <2>5, <2>6
<1>6. KnownAreCerts'  BY <1>1 DEF KnownAreCerts
<1>7. HalfInstalled' /\ IssuerKnown'
  <2>1. ~Installing /\ ~Installing'  BY <1>2 DEF Installing
  <2>2. HalfInstalled'  BY <1>2, <2>1 DEF HalfInstalled, Installing
  <2>3. issuer' # None /\ certs'[issuer'] # NoCert => issuer' \in known'
    BY <1>1, <1>2, <1>3 DEF Inv, TypeOK, IssuerKnown
  <2>4. issuer' = dm'.cur  BY <1>1, <2>1 DEF Inv, IssuerKnown
  <2> QED  BY <2>2, <2>3, <2>4 DEF IssuerKnown
<1>8. TokensKnown'
  <2> SUFFICES ASSUME NEW t \in tokens', t.mine, certs'[t.kid] # NoCert
               PROVE  t.kid \in known'
    BY DEF TokensKnown
  <2>1. PICK u \in tokens : t.kid = u.kid /\ (t.mine <=> u.mine)
    BY LiveTokensType DEF Tick, Inv, TypeOK
  <2>2. u.kid \in Kids  BY DEF Inv, TypeOK, Tokens
  <2>3. certs[u.kid] # NoCert /\ u.mine  BY <1>3, <2>1, <2>2
  <2>4. u.kid \in known  BY <1>2, <2>3 DEF Inv, TokensKnown
  <2> QED  BY <1>1, <2>1, <2>4
<1> QED  BY <1>4, <1>5, <1>6, <1>7, <1>8 DEF Inv

-----------------------------------------------------------------------------
LEMMA InvInit == Init => Inv
<1> SUFFICES ASSUME Init PROVE Inv  OBVIOUS
<1>1. TypeOK  BY TypeInit
<1> QED
  BY <1>1 DEF Init, Inv, MailWhileWaiting, AnswerIsNew, WaitIsBounded, KnownAreCerts,
              HalfInstalled, IssuerKnown, TokensKnown, Installing

LEMMA InvNext == Inv /\ [Next]_vars => Inv'
<1> SUFFICES ASSUME Inv, [Next]_vars PROVE Inv'  OBVIOUS
<1>1. CASE Serve \/ ShutdownSignal \/ SignerKilled \/ SignerStarts \/ OtherSign
  <2>1. TypeOK'  BY <1>1, SignerTypes
  <2> QED  BY <1>1, <2>1, SignerKeeps, HandleSignDelegationKeeps DEF Serve, AcceptFails, SignerKilled
<1>2. CASE Rotate
  BY <1>2, RotateTypes, RotateKeeps
<1>3. CASE (\E ttl \in TokenTTLs : IssueToken(ttl)) \/ RestartBroker \/ Tick
  <2>1. TypeOK'  BY <1>3, BrokerTypes
  <2> QED  BY <1>3, <2>1, IssueTokenKeeps, RestartBrokerKeeps, TickKeeps
<1>4. CASE UNCHANGED vars
  BY <1>4 DEF vars, Inv, TypeOK, MailWhileWaiting, AnswerIsNew, Referred, WaitIsBounded,
              KnownAreCerts, HalfInstalled, IssuerKnown, TokensKnown, Installing
<1> QED  BY <1>1, <1>2, <1>3, <1>4 DEF Next, Faults

LEMMA Invariance == Spec => []Inv
BY InvInit, InvNext, PTL DEF Spec

\* Certificates, timers, tokens and the limiter's log stay within their ranges, however
\* the signer comes and goes.
THEOREM TypeCorrect == Spec => []TypeOK
<1>1. Inv => TypeOK  BY DEF Inv
<1> QED  BY <1>1, Invariance, PTL

\* A broker that is ready and not installing signs with the current key, and its
\* validator knows that key: the rotation goroutine, the issuer and the validator never
\* disagree for longer than the two steps of onRotation.
THEOREM ReadyBrokerCanSign == Spec => []ReadyCanSign
<1>1. Inv => ReadyCanSign
  <2> SUFFICES ASSUME Inv, Ready, ~Installing PROVE issuer = dm.cur /\ issuer \in known
    BY DEF ReadyCanSign
  <2>1. issuer = dm.cur /\ dm.cur # None /\ certs[dm.cur].left > 0
    BY DEF Ready, Inv, IssuerKnown
  <2>2. certs[dm.cur] # NoCert  BY <2>1, Constants
  <2> QED  BY <2>1, <2>2 DEF Inv, IssuerKnown, Installing
<1> QED  BY <1>1, Invariance, PTL

\* A token this process signed is accepted until it or its certificate expires, across
\* any number of rotations, failed ones included.
THEOREM RotationCutsNothingOff == Spec => []RotationKeepsTokens
<1>1. Inv => RotationKeepsTokens
  <2> SUFFICES ASSUME Inv, NEW t \in tokens, t.mine, Ready, VerifyDelegationCert(certs[t.kid]), ~Installing
               PROVE  Accepts(t)
    BY DEF RotationKeepsTokens
  <2>1. certs[t.kid] # NoCert  BY Constants DEF VerifyDelegationCert
  <2>2. t.kid \in known  BY <2>1 DEF Inv, TokensKnown, Installing
  <2>3. t.left >= 0  BY TokenLifetimes DEF Inv, TypeOK, Tokens
  <2> QED  BY <2>2, <2>3 DEF Accepts
<1> QED  BY <1>1, Invariance, PTL

=============================================================================
