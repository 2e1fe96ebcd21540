---------------------------- MODULE Delegation ----------------------------
(***************************************************************************)
(* The signing key of the broker and the process that certifies it.  The   *)
(* broker makes a key pair, has the signer sign a delegation certificate   *)
(* for it over a Unix socket (broker/delegation.go, signer/ipc.go,         *)
(* cmd/signer/main.go) and repeats that every RefreshAt; the token issuer  *)
(* signs JWT task tokens with the key and the validator checks them        *)
(* against the certificates registered with it (token/sign.go,             *)
(* token/validate.go, token/delegation.go).                                *)
(*                                                                         *)
(* Time is what things have left: a certificate and a token carry          *)
(* ExpiresAt - now, which Tick counts down to -1, expired for good, where  *)
(* a certificate is NoCert.                                                *)
(* Before(expiry) is left > 0, After(expiry) is left < 0.  Local steps     *)
(* take no time; an exchange with the signer takes at most MaxDelay, its   *)
(* deadline.                                                               *)
(*                                                                         *)
(* The issuer signs only where the task tools find no macaroon minter      *)
(* (the fallback of mcp_task.go); the rotation runs in every broker.       *)
(***************************************************************************)
EXTENDS RateLimiter

CONSTANTS
    TTL,            \* lifetime of a delegation certificate (1h)
    RefreshAt,      \* the rotation timer (50min)
    TokenTTLs,      \* lifetimes of task tokens
    MaxDelay,       \* DefaultTimeout of the IPC client
    Window, MaxPerWindow,   \* the signer's limiter
    Roots,          \* CA keys the signer may be started with
    None,
    MaxCerts,       \* bound: certificates somebody still refers to
    MaxTokens       \* bound: live tokens

ASSUME DelegationAssumption ==
    /\ TTL \in Nat \ {0} /\ RefreshAt \in 1..(TTL - 1)
    /\ TokenTTLs \subseteq Nat \ {0} /\ \E longest \in TokenTTLs : \A t \in TokenTTLs : t <= longest
    /\ MaxDelay \in 0..(TTL - 1)      \* seconds against an hour
    /\ Window \in Nat \ {0} /\ MaxPerWindow \in Nat
    /\ MaxCerts \in Nat \ {0} /\ MaxTokens \in Nat
    /\ None \notin Roots \cup 1..MaxCerts
    /\ None \notin [kind : {"request", "error", "lost"}] \cup [kind : {"cert"}, kid : 1..MaxCerts]

VARIABLES
    signer,         \* the signer process: phase, CA key, signal in the channel
    stamps,         \* its limiter
    mail,           \* the connection between them: the request or the answer under way
    certs,          \* kid -> certificate
    pinned,         \* root key the validator was built with
    dm,             \* DelegationManager: current and previous certificate
    issuer,         \* certificate the Issuer signs with
    known,          \* Validator.delegations
    rot,            \* the goroutine that rotates: where it is
    tokens          \* task tokens in the agents' hands

vars == <<signer, stamps, mail, certs, pinned, dm, issuer, known, rot, tokens>>
signerVars == <<signer, stamps>>
keyVars == <<certs, pinned, dm, issuer, known>>

Kids == 1..MaxCerts
\* same: the broker reads the second it stores as issued_at in the second the signer signed
Certs == [left : 0..TTL, same : BOOLEAN, root : Roots]
\* expired, or never issued: it lets nothing through, whatever it holds
NoCert == [left |-> -1]
MaxTokenTTL == CHOOSE t \in TokenTTLs : \A u \in TokenTTLs : u <= t
\* mine: issued by the broker process that runs now
Tokens == [kid : Kids, left : 0..MaxTokenTTL, mine : BOOLEAN]
Phases == {"up", "closed", "down"}
Mails == [kind : {"request", "error", "lost"}] \cup [kind : {"cert"}, kid : Kids]
RotSteps == {"root", "ask", "wait", "stored", "set", "sleep", "off"}

Init ==
    /\ signer \in [phase : {"up", "down"}, ca : Roots, signal : {FALSE}]
    /\ stamps = <<>> /\ mail = None
    /\ certs = [k \in Kids |-> NoCert]
    /\ pinned = None
    /\ dm = [cur |-> None, prev |-> None] /\ issuer = None /\ known = {}
    /\ rot = [pc |-> "root", count |-> 0, first |-> TRUE]
    /\ tokens = {}

At(step) == [rot EXCEPT !.pc = step, !.count = 0]

\* The signer process ----------------------------------------------------

\* SIGTERM or SIGINT lands in a channel that holds one; a further one is dropped.
ShutdownSignal ==
    /\ signer.phase # "down"
    /\ signer' = [signer EXCEPT !.signal = TRUE]
    /\ UNCHANGED <<stamps, mail, keyVars, rot, tokens>>

\* The goroutine that waits for the signal takes it out and closes the listener, once;
\* a connection that was not accepted yet is reset.
CloseListener ==
    /\ signer.phase = "up" /\ signer.signal
    /\ signer' = [signer EXCEPT !.phase = "closed", !.signal = FALSE]
    /\ mail' \in {mail} \cup IF mail = [kind |-> "request"] THEN {[kind |-> "lost"]} ELSE {}
    /\ UNCHANGED <<stamps, keyVars, rot, tokens>>

SignerGone ==
    /\ signer' = [signer EXCEPT !.phase = "down", !.signal = FALSE]
    /\ mail' = IF mail = None THEN None ELSE [kind |-> "lost"]
    /\ UNCHANGED <<stamps, keyVars, rot, tokens>>

\* The accept loop, which Accept now fails: it ends when it finds a signal in the
\* channel, and tries again when it does not.
AcceptFails == signer.phase = "closed" /\ signer.signal /\ SignerGone

SignerKilled == signer.phase # "down" /\ SignerGone

\* The limiter is rebuilt, and the CA key read again: root rotation replaces it here.
SignerStarts ==
    /\ signer.phase = "down"
    /\ \E ca \in Roots : signer' = [phase |-> "up", ca |-> ca, signal |-> FALSE]
    /\ stamps' = <<>>
    /\ UNCHANGED <<mail, keyVars, rot, tokens>>

\* handleConn for the other callers: the certificates of the SSH path count as well.
OtherSign ==
    /\ signer.phase = "up"
    /\ stamps' = Logged(stamps, MaxPerWindow, Window)
    /\ UNCHANGED <<signer, mail, keyVars, rot, tokens>>

Unused == {k \in Kids : /\ certs[k] = NoCert
                        /\ k \notin {dm.cur, dm.prev, issuer} \cup {t.kid : t \in tokens}}

SignDelegation(k) ==
    certs' = [certs EXCEPT ![k] = [left |-> TTL, same |-> TRUE, root |-> signer.ca]]

\* A connection the listener had accepted is served even when the listener is closed.
HandleSignDelegation ==
    /\ signer.phase # "down"
    /\ mail # None /\ mail.kind = "request"
    /\ stamps' = Logged(stamps, MaxPerWindow, Window)
    /\ IF Allows(stamps, MaxPerWindow, Window)
       THEN \E k \in Unused : /\ \A j \in Unused : k <= j
                              /\ SignDelegation(k)
                              /\ mail' = [kind |-> "cert", kid |-> k]
       ELSE mail' = [kind |-> "error"] /\ UNCHANGED certs
    /\ UNCHANGED <<signer, pinned, dm, issuer, known, rot, tokens>>

\* The broker ---------------------------------------------------------------

\* IsReady: a key whose certificate has time left.
Ready == dm.cur # None /\ certs[dm.cur].left > 0

Listening == signer.phase = "up"

\* RootPublicKey at the start; without an answer task identity stays off.
PinRoot ==
    /\ rot.pc = "root"
    /\ \/ Listening /\ pinned' = signer.ca /\ rot' = At("ask")
       \/ rot' = At("off") /\ UNCHANGED pinned
    /\ UNCHANGED <<signerVars, mail, certs, dm, issuer, known, tokens>>

\* Mutant: the timer is set to the lifetime of the certificate.
AsleepTooLong == [pc |-> "sleep", count |-> TTL, first |-> FALSE]

\* timer.Reset, after a rotation that worked and after one that did not.
Asleep == [pc |-> "sleep", count |-> RefreshAt, first |-> FALSE]

\* The first request that fails turns task identity off; a later one keeps the old key.
RotationFails ==
    /\ rot' = IF rot.first THEN At("off") ELSE Asleep
    /\ mail' = None

\* A new key pair, and the request is on its way.
RequestDelegation ==
    /\ rot.pc = "ask"
    /\ IF Listening THEN rot' = At("wait") /\ mail' = [kind |-> "request"]
                    ELSE RotationFails
    /\ UNCHANGED <<signerVars, keyVars, tokens>>

\* The answer: time.Now() stands for issued_at, and the current key becomes the previous one.
StoreDelegation ==
    /\ rot.pc = "wait"
    /\ mail # None /\ mail.kind = "cert"
    /\ \E same \in IF certs[mail.kid].left = TTL THEN BOOLEAN ELSE {FALSE} :
          certs' = [certs EXCEPT ![mail.kid].same = same]
    /\ dm' = [cur |-> mail.kid, prev |-> dm.cur]
    /\ mail' = None
    /\ rot' = At("stored")
    /\ UNCHANGED <<signerVars, pinned, issuer, known, tokens>>

\* An error, a broken connection, or the deadline; an answer that comes too late is dropped.
GiveUp ==
    /\ rot.pc = "wait"
    /\ mail.kind \in {"error", "lost"} \/ rot.count = MaxDelay
    /\ certs' = IF mail.kind = "cert" THEN [certs EXCEPT ![mail.kid] = NoCert] ELSE certs
    /\ RotationFails
    /\ UNCHANGED <<signerVars, pinned, dm, issuer, known, tokens>>

\* onRotation, first half: the issuer signs with the new key from here on.
SetDelegation ==
    /\ rot.pc = "stored"
    /\ IF rot.first /\ ~Ready
       THEN rot' = Asleep /\ UNCHANGED issuer
       ELSE rot' = At("set") /\ issuer' = dm.cur
    /\ UNCHANGED <<signerVars, mail, certs, pinned, dm, known, tokens>>

\* Mutant: the new certificate takes the place of the others.
AddOnly ==
    /\ rot.pc = "set"
    /\ known' = {dm.cur}
    /\ rot' = Asleep
    /\ UNCHANGED <<signerVars, mail, certs, pinned, dm, issuer, tokens>>

\* Mutant: the certificate that is retired is registered, not the new one.
AddPrevious ==
    /\ rot.pc = "set"
    /\ known' = known \cup ({dm.prev} \ {None})
    /\ rot' = Asleep
    /\ UNCHANGED <<signerVars, mail, certs, pinned, dm, issuer, tokens>>

\* Second half: the validator learns of it, and keeps the older ones.
AddDelegation ==
    /\ rot.pc = "set"
    /\ known' = known \cup {dm.cur}
    /\ rot' = Asleep
    /\ UNCHANGED <<signerVars, mail, certs, pinned, dm, issuer, tokens>>

RotationTimer ==
    /\ rot.pc = "sleep" /\ rot.count = 0
    /\ rot' = At("ask")
    /\ UNCHANGED <<signerVars, mail, keyVars, tokens>>

\* task_create and task_delegate without a minter: SignCTTE and SignCTTD look at the
\* issuer's key, not at its certificate, and no lifetime is checked against it.
IssueToken(ttl) ==
    /\ Ready /\ issuer # None
    /\ Cardinality(tokens) < MaxTokens
    /\ tokens' = tokens \cup {[kid |-> issuer, left |-> ttl, mine |-> TRUE]}
    /\ UNCHANGED <<signerVars, mail, keyVars, rot>>

\* VerifyDelegationCert rebuilds what the signer signed, with the broker's issued_at.
VerifyDelegationCert(c) == c.left >= 0 /\ c.same /\ c.root = pinned

\* Validate, behind the readiness check of authenticateWithCTTE.
Accepts(t) ==
    /\ Ready
    /\ t.kid \in known
    /\ VerifyDelegationCert(certs[t.kid])
    /\ t.left >= 0

\* The keys live in memory only; the agents keep their tokens.
RestartBroker ==
    /\ pinned' = None /\ dm' = [cur |-> None, prev |-> None] /\ issuer' = None /\ known' = {}
    /\ rot' = [pc |-> "root", count |-> 0, first |-> TRUE]
    /\ mail' = None
    /\ tokens' = {[t EXCEPT !.mine = FALSE] : t \in tokens}
    /\ certs' = [k \in Kids |-> IF k \in {t.kid : t \in tokens} THEN certs[k] ELSE NoCert]
    /\ UNCHANGED signerVars

AgedCert(c) == IF c.left <= 0 THEN NoCert ELSE [c EXCEPT !.left = @ - 1]

LiveTokens == {[t EXCEPT !.left = @ - 1] : t \in {u \in tokens : u.left > 0}}

\* Time passes, but not past a timer that is due.  The validator keeps an expired
\* certificate, the model forgets it: it lets nothing through.
Tick ==
    /\ rot.pc \in {"wait", "sleep", "off"}
    /\ rot.pc = "sleep" => rot.count > 0
    /\ rot.pc = "wait" => rot.count < MaxDelay
    /\ rot' = CASE rot.pc = "sleep" -> [rot EXCEPT !.count = @ - 1]
                [] rot.pc = "wait" -> [rot EXCEPT !.count = @ + 1]
                [] OTHER -> rot
    /\ tokens' = LiveTokens
    /\ certs' = [k \in Kids |-> AgedCert(certs[k])]
    /\ known' = {k \in known : certs'[k] # NoCert}
    /\ stamps' = Pruned(AgedLog(stamps, Window), Window)
    /\ UNCHANGED <<signer, mail, pinned, dm, issuer>>

\* The signer's own steps, the goroutine's, and the rest.
Serve == CloseListener \/ AcceptFails \/ HandleSignDelegation
Rotate == \/ PinRoot \/ RequestDelegation \/ StoreDelegation \/ GiveUp
          \/ SetDelegation \/ AddDelegation \/ RotationTimer
Faults == ShutdownSignal \/ SignerKilled \/ SignerStarts \/ RestartBroker

Next == Serve \/ Rotate \/ Faults \/ OtherSign \/ Tick \/ \E ttl \in TokenTTLs : IssueToken(ttl)

Spec == Init /\ [][Next]_vars

\* The goroutines run, the signer serves what reached it, and time passes.
FairSpec == Spec /\ WF_vars(CloseListener \/ AcceptFails) /\ WF_vars(HandleSignDelegation) /\ WF_vars(Rotate) /\ WF_vars(Tick)

-----------------------------------------------------------------------------
\* Every variable keeps its type; certificates and timers stay within their counts.
TypeOK ==
    /\ signer \in [phase : Phases, ca : Roots, signal : BOOLEAN]
    /\ stamps \in Logs(MaxPerWindow, Window)
    /\ mail \in {None} \cup Mails
    /\ certs \in [Kids -> Certs \cup {NoCert}]
    /\ pinned \in Roots \cup {None}
    /\ dm \in [cur : Kids \cup {None}, prev : Kids \cup {None}]
    /\ issuer \in Kids \cup {None}
    /\ known \subseteq Kids
    /\ rot \in [pc : RotSteps, count : 0..TTL, first : BOOLEAN]
    /\ tokens \subseteq Tokens

Installing == rot.pc \in {"stored", "set"}

\* Whenever task identity is ready and no rotation is half installed, the key the issuer
\* signs with is the current one and the validator knows it: what the broker issues it
\* can check, after any number of failed rotations, restarts and late answers.
ReadyCanSign ==
    Ready /\ ~Installing => issuer = dm.cur /\ issuer \in known

\* Rotation does not cut a token off (delegation.go keeps the previous key, the validator
\* every certificate): while the broker is ready, a token this process issued is accepted
\* until it expires, if its certificate verifies at all and is not expired itself.
RotationKeepsTokens ==
    \A t \in tokens :
        t.mine /\ Ready /\ VerifyDelegationCert(certs[t.kid]) /\ ~Installing => Accepts(t)

\* An outage of the signer heals by itself: once it serves in time again, and the broker
\* is not restarted, the rotation loop makes the broker ready and keeps it ready, however
\* many rotations failed before.  Only a broker whose first request failed stays off.
ServesInTime ==
    /\ signer.phase = "up" /\ Allows(stamps, MaxPerWindow, Window)
    /\ rot.pc # "root" /\ (rot.pc = "wait" => rot.count < MaxDelay)
ReadyAgain == <>[]ServesInTime => <>[](Ready \/ rot.pc = "off")

=============================================================================
