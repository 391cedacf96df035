----------------------------- MODULE Enrollment -----------------------------
(***************************************************************************)
(* The agent's identity: enrollment and its recovery (internal/enrollment),*)
(* with the credential rotations (runtime/controlplane.go) and the         *)
(* certificate renewal (runtime/certrotate.go) that run beside it.         *)
(*                                                                         *)
(* The server numbers the identities it issues.  Identity n has credential *)
(* n, certificate n and, mostly, renewal token n; 0 stands for none.       *)
(* Certificates that were renewed are numbered from MaxIssued on.  An      *)
(* enrollment is a transaction: its request, with an id and a new key, is  *)
(* on disk before it is sent (pend), the answer is on disk before it is    *)
(* used, and the file goes away when everything is in place.  Recovery is  *)
(* one process, because recoveryInFlight turns every other caller away;    *)
(* two rotations, the refresh after a start and the ticker, and the        *)
(* renewal are others.  ApplyCredentialUpdate is atomic (identityMu).      *)
(* PersistPair is one step here, see CertPair.  ForceEnrollOnStart is on,  *)
(* and the identity file and the TLS files are configured.                 *)
(***************************************************************************)
EXTENDS Naturals, Sequences, FiniteSets

CONSTANTS
  Rotators,     \* goroutines that rotate the credential
  MaxIssued,    \* bound: identities the server issues
  MaxExpiries,  \* bound: tokens and certificates that expire
  MaxCrashes,   \* bound: crashes of the agent
  DiskFaults    \* whether a file operation may fail

ASSUME BoundsAssumption ==
  MaxIssued \in Nat /\ MaxExpiries \in Nat /\ MaxCrashes \in Nat /\ DiskFaults \in BOOLEAN

None     == 0
Numbers  == 0 .. MaxIssued
Ids      == 1 .. (MaxIssued + 1)
Certs    == 0 .. (2 * MaxIssued)     \* renewed ones above MaxIssued
Names    == {"renewal", "renewal_previous", "bootstrap"}
Boot     == MaxIssued + 1            \* the bootstrap token
Tokens   == 0 .. Boot
Issue    == [cred : 1 .. MaxIssued, token : Numbers]
NoIssue  == [cred |-> None, token |-> None]
Unknown  == [cred |-> None, token |-> None, with |-> None]
Absent   == [id |-> None, method |-> "bootstrap", reply |-> NoIssue]
NoMethod == [name |-> "bootstrap", token |-> None]

VARIABLES
  saved, mem,  \* identity: in the state file, in memory
  pend,        \* file of the pending enrollment
  cert,        \* the certificate installed
  bootFile,    \* the bootstrap token file exists
  up,          \* the process runs
  starting,    \* EnsureInitialIdentity has not returned
  pc, methods, cur, reply, resumed,  \* the recovery in progress
  backoff,     \* nextEnrollRetryAt lies ahead
  rot,         \* answer each rotation is about to apply
  ren,         \* certificate the renewal is about to install
  issued,      \* server: identities issued
  known,       \* server: token and answer of each enrollment it accepted
  spent,       \* server: the enrollment the bootstrap token was spent on
  rejected,    \* server: it does not accept the agent's credential
  expired,     \* tokens and certificates past their expiry
  newest,      \* history: latest renewal token applied
  enrolled,    \* history: identity of the last enrollment applied
  crossed,     \* history: two rotations have been under way at the same time
  crashes

files    == <<saved, pend, cert, bootFile>>
recovery == <<pc, methods, cur, reply, resumed>>
server   == <<issued, known, spent>>
world    == <<rejected, expired, crashes>>
history  == <<newest, enrolled, crossed>>
aside    == <<rot, ren>>               \* what runs beside recovery
vars     == <<files, mem, up, starting, recovery, backoff, aside, server, world, history>>

Identity == [cred : Numbers, renewal : Numbers, previous : Numbers, consumed : BOOLEAN]
NoIdentity == [cred |-> None, renewal |-> None, previous |-> None, consumed |-> FALSE]

Init ==
  /\ saved = NoIdentity /\ mem = NoIdentity
  /\ pend = Absent /\ cert = None /\ bootFile = TRUE
  /\ up = FALSE /\ starting = FALSE
  /\ pc = "idle" /\ methods = <<>> /\ cur = NoMethod /\ reply = NoIssue /\ resumed = FALSE
  /\ backoff = FALSE /\ rot = [r \in Rotators |-> NoIssue] /\ ren = None
  /\ issued = 0 /\ known = [e \in Ids |-> Unknown] /\ spent = None
  /\ rejected = TRUE /\ expired = {}
  /\ newest = None /\ enrolled = None /\ crossed = FALSE /\ crashes = 0

-----------------------------------------------------------------------------
(* Credential updates. *)

\* Mutant: the renewal token that is replaced is not kept.
AfterForgetting(i, a, m) ==
  [cred     |-> a.cred,
   renewal  |-> IF a.token = None THEN i.renewal ELSE a.token,
   previous |-> i.previous,
   consumed |-> i.consumed \/ m = "bootstrap"]

\* The identity after update a: an update without a renewal token keeps the
\* current one; a new one makes the current one the previous.
After(i, a, m) ==
  LET renewal == IF a.token = None THEN i.renewal ELSE a.token
  IN [cred     |-> a.cred,
      renewal  |-> renewal,
      previous |-> IF renewal # None /\ renewal # i.renewal THEN i.renewal ELSE i.previous,
      consumed |-> i.consumed \/ m = "bootstrap"]

ApplyCredentialUpdate(a, m) ==
  LET i == After(mem, a, m)
  IN /\ saved' = i /\ mem' = i
     /\ backoff' = FALSE /\ rejected' = FALSE
     /\ newest' = IF i.renewal > newest THEN i.renewal ELSE newest

\* SaveIdentityState fails, possibly after its rename; memory is not touched.
ApplyFails(a, m) ==
  /\ DiskFaults
  /\ saved' \in {saved, After(mem, a, m)}
  /\ UNCHANGED <<mem, rejected, newest>>

-----------------------------------------------------------------------------
(* Recovery methods. *)

Usable(t) == t # None /\ <<"token", t>> \notin expired

\* Mutant: a token file that could not be removed is used again.
TokenFromFile == IF ~bootFile THEN None ELSE Boot

CurrentBootstrapToken == IF mem.consumed \/ ~bootFile THEN None ELSE Boot

\* The token to recover with by each method, or None.
TokenOf(name) ==
  LET renewal == IF Usable(mem.renewal) THEN mem.renewal ELSE None
  IN CASE name = "renewal" -> renewal
       [] name = "renewal_previous" ->
            IF mem.previous # renewal /\ Usable(mem.previous) THEN mem.previous ELSE None
       [] name = "bootstrap" -> CurrentBootstrapToken

Offer(name) ==
  IF TokenOf(name) = None THEN <<>> ELSE << [name |-> name, token |-> TokenOf(name)] >>

\* availableRecoveryMethods, and what two filters by name leave of it.
Available == Offer("renewal") \o Offer("renewal_previous") \o Offer("bootstrap")

Named(name)  == Offer(name)
Others(name) ==
  LET Rest(n) == IF n = name THEN <<>> ELSE Offer(n)
  IN Rest("renewal") \o Rest("renewal_previous") \o Rest("bootstrap")

-----------------------------------------------------------------------------
(* Recovery: its beginning and its ends. *)

Reset == pc' = "idle" /\ methods' = <<>> /\ cur' = NoMethod /\ reply' = NoIssue /\ resumed' = FALSE

\* EnsureInitialIdentity looks at the identity once more after it has resumed
\* an enrollment; otherwise the start is over.
Succeed ==
  /\ Reset
  /\ starting' = (starting /\ resumed)
  /\ UNCHANGED up

\* A failed start ends the process.  A failure is returned as it is, or by
\* recordRecoveryFailure.
Fail == Reset /\ up' = ~starting /\ starting' = FALSE
FailPlain == Fail /\ UNCHANGED backoff
FailAndBackOff == Fail /\ backoff' = TRUE

\* A failed finalizePendingEnrollment, called to resume or after an answer.
FailFinalize == Fail /\ backoff' = (IF resumed THEN backoff ELSE TRUE)

\* RecoverIdentity up to its first request: resume an answered enrollment,
\* repeat one that was not answered, or begin with the list of methods.
Recover ==
  \/ /\ pend.id # None /\ pend.reply # NoIssue
     /\ pc' = "install" /\ reply' = pend.reply /\ resumed' = TRUE
     /\ methods' = <<>> /\ cur' = [name |-> pend.method, token |-> None]
     /\ UNCHANGED <<up, starting, backoff>>
  \/ /\ pend.id # None /\ pend.reply = NoIssue /\ Named(pend.method) # <<>>
     /\ pc' = "send" /\ cur' = Head(Named(pend.method)) /\ methods' = Others(pend.method)
     /\ UNCHANGED <<reply, resumed, up, starting, backoff>>
  \/ /\ pend.id # None /\ pend.reply = NoIssue /\ Named(pend.method) = <<>>
     /\ FailAndBackOff
  \/ /\ pend.id = None
     /\ pc' = "choose" /\ methods' = Available
     /\ UNCHANGED <<cur, reply, resumed, up, starting, backoff>>

HasUsableIdentity ==
  mem.cred # None /\ cert # None /\ <<"cert", cert>> \notin expired

\* EnsureInitialIdentity.
StartIdentity ==
  /\ up /\ starting /\ pc = "idle"
  /\ IF HasUsableIdentity /\ pend.reply = NoIssue
     THEN starting' = FALSE /\ UNCHANGED <<up, backoff, recovery>>
     ELSE Recover
  /\ UNCHANGED <<files, mem, aside, server, world, history>>

\* A request was answered as one with a bad credential: MaybeRecoverIdentity.
MaybeRecoverIdentity ==
  /\ up /\ ~starting /\ pc = "idle" /\ rejected /\ ~backoff
  /\ Recover
  /\ UNCHANGED <<files, mem, aside, server, world, history>>

\* Mutant: the wait only ends with the process.
WaitForRestart == ~up /\ backoff

\* Time passes: nextEnrollRetryAt.
RetryIsDue == up /\ backoff

BackoffEnds ==
  /\ RetryIsDue /\ backoff' = FALSE
  /\ UNCHANGED <<files, mem, up, starting, recovery, aside, server, world, history>>

-----------------------------------------------------------------------------
(* Recovery: requests. *)

FreshId == CHOOSE e \in Ids : known[e].cred = None

\* The next method: a new enrollment goes to disk before it is sent.
Choose ==
  /\ up /\ pc = "choose" /\ methods # <<>>
  /\ pend' = [id |-> FreshId, method |-> Head(methods).name, reply |-> NoIssue]
  /\ cur' = Head(methods) /\ methods' = Tail(methods) /\ pc' = "send"
  /\ UNCHANGED <<saved, cert, bootFile, mem, up, starting, reply, resumed, backoff, aside,
                 server, world, history>>

ChooseFails ==
  /\ DiskFaults /\ up /\ pc = "choose" /\ methods # <<>>
  /\ pend' \in {pend, [id |-> FreshId, method |-> Head(methods).name, reply |-> NoIssue]}
  /\ FailPlain
  /\ UNCHANGED <<saved, cert, bootFile, mem, aside, server, world, history>>

OutOfMethods ==
  /\ up /\ pc = "choose" /\ methods = <<>>
  /\ FailAndBackOff
  /\ UNCHANGED <<files, mem, aside, server, world, history>>

\* The server accepts the request with answer a: a transaction it knows gets
\* its answer again, a new one an identity with a renewal token.  The bootstrap
\* token is good for one transaction.
Accept(a) ==
  \/ /\ known[pend.id].cred # None
     /\ a = [cred |-> known[pend.id].cred, token |-> known[pend.id].token]
     /\ UNCHANGED server
  \/ /\ known[pend.id].cred = None /\ issued < MaxIssued
     /\ cur.token = Boot => spent = None
     /\ a.cred = issued + 1 /\ a.token = issued + 1
     /\ issued' = issued + 1
     /\ known' = [known EXCEPT ![pend.id] = [cred |-> a.cred, token |-> a.token, with |-> cur.token]]
     /\ spent' = IF cur.token = Boot THEN pend.id ELSE spent

\* It may refuse any other, but not the repetition of one it accepted.
MayRefuse == known[pend.id].with # cur.token

Served ==
  /\ up /\ pc = "send" /\ pc' = "answered"
  /\ \E a \in Issue : Accept(a) /\ reply' = a
  /\ UNCHANGED <<files, mem, up, starting, methods, cur, resumed, backoff, aside, world, history>>

\* Mutant: a transaction that gets no answer is given up.
UnansweredGivesUp ==
  /\ up /\ pc = "send"
  /\ UNCHANGED server \/ \E a \in Issue : Accept(a)
  /\ pend' = Absent /\ FailAndBackOff
  /\ UNCHANGED <<saved, cert, bootFile, mem, aside, world, history>>

\* The request or its answer is lost, or the answer is of no use: the
\* transaction stays pending.
Unanswered ==
  /\ up /\ pc = "send"
  /\ UNCHANGED server \/ \E a \in Issue : Accept(a)
  /\ FailAndBackOff
  /\ UNCHANGED <<files, mem, aside, world, history>>

\* 401: the transaction is given up and the next method is tried.
Refused ==
  /\ up /\ pc = "send" /\ MayRefuse
  /\ pend' = Absent /\ pc' = "choose"
  /\ UNCHANGED <<saved, cert, bootFile, mem, up, starting, methods, cur, reply, resumed, backoff,
                 aside, server, world, history>>

\* The server refuses the agent's protocol: given up, until a later recovery.
Incompatible ==
  /\ up /\ pc = "send" /\ MayRefuse
  /\ pend' = Absent /\ FailAndBackOff
  /\ UNCHANGED <<saved, cert, bootFile, mem, aside, server, world, history>>

\* In both cases the removal of the file may fail.
RefusedFails ==
  /\ DiskFaults /\ up /\ pc = "send" /\ MayRefuse
  /\ pend' \in {pend, Absent} /\ FailPlain
  /\ UNCHANGED <<saved, cert, bootFile, mem, aside, server, world, history>>

-----------------------------------------------------------------------------
(* Recovery: finalizePendingEnrollment. *)

\* Mutant: the answer is used before it is on disk.
StoreLater ==
  /\ up /\ pc = "answered" /\ pc' = "install"
  /\ UNCHANGED <<files, mem, up, starting, methods, cur, reply, resumed, backoff, aside, server,
                 world, history>>

\* The answer goes to disk.
Store ==
  /\ up /\ pc = "answered"
  /\ pend' = [pend EXCEPT !.reply = reply] /\ pc' = "install"
  /\ UNCHANGED <<saved, cert, bootFile, mem, up, starting, methods, cur, reply, resumed, backoff,
                 aside, server, world, history>>

StoreFails ==
  /\ DiskFaults /\ up /\ pc = "answered"
  /\ pend' \in {pend, [pend EXCEPT !.reply = reply]} /\ FailAndBackOff
  /\ UNCHANGED <<saved, cert, bootFile, mem, aside, server, world, history>>

\* ValidateIssuedPair, PersistServerCA, PersistPair.
Lapsed == <<"cert", reply.cred>> \in expired

Install ==
  /\ up /\ pc = "install" /\ ~Lapsed
  /\ cert' = reply.cred /\ pc' = "apply"
  /\ UNCHANGED <<saved, pend, bootFile, mem, up, starting, methods, cur, reply, resumed, backoff,
                 aside, server, world, history>>

InstallFails ==
  /\ up /\ pc = "install"
  /\ \/ Lapsed /\ UNCHANGED cert
     \/ ~Lapsed /\ DiskFaults /\ cert' \in {cert, reply.cred}
  /\ FailFinalize
  /\ UNCHANGED <<saved, pend, bootFile, mem, aside, server, world, history>>

Apply ==
  /\ up /\ pc = "apply"
  /\ ApplyCredentialUpdate(reply, cur.name)
  /\ enrolled' = reply.cred /\ pc' = "clear" /\ UNCHANGED crossed
  /\ UNCHANGED <<pend, cert, bootFile, up, starting, methods, cur, reply, resumed, aside, server,
                 expired, crashes>>

ApplyEnrollmentFails ==
  /\ up /\ pc = "apply"
  /\ ApplyFails(reply, cur.name) /\ FailFinalize
  /\ UNCHANGED <<pend, cert, bootFile, aside, server, expired, crashes, enrolled, crossed>>

Clear ==
  /\ up /\ pc = "clear" /\ pend' = Absent
  /\ IF cur.name = "bootstrap"
     THEN pc' = "consume" /\ UNCHANGED <<methods, cur, reply, resumed, up, starting>>
     ELSE Succeed
  /\ UNCHANGED <<saved, cert, bootFile, mem, backoff, aside, server, world, history>>

ClearFails ==
  /\ DiskFaults /\ up /\ pc = "clear"
  /\ pend' \in {pend, Absent} /\ FailFinalize
  /\ UNCHANGED <<saved, cert, bootFile, mem, aside, server, world, history>>

\* ConsumeBootstrapTokenFile: a file that cannot be removed is left alone.
Consume ==
  /\ up /\ pc = "consume"
  /\ bootFile' \in {FALSE, bootFile} /\ Succeed
  /\ UNCHANGED <<saved, pend, cert, mem, backoff, aside, server, world, history>>

-----------------------------------------------------------------------------
(* Beside recovery: rotation of the credential, renewal of the certificate. *)

\* RotateCredential; its answer may have no renewal token, or be lost.
Rotate(r) ==
  /\ up /\ ~starting /\ mem.cred # None /\ rot[r] = NoIssue
  /\ ~rejected /\ issued < MaxIssued
  /\ issued' = issued + 1
  /\ \/ /\ \E t \in {None, issued + 1} :
             rot' = [rot EXCEPT ![r] = [cred |-> issued + 1, token |-> t]]
        /\ crossed' = (crossed \/ \E q \in Rotators : rot[q] # NoIssue)
     \/ UNCHANGED <<rot, crossed>>
  /\ UNCHANGED <<files, mem, up, starting, recovery, backoff, ren, known, spent, world, newest,
                 enrolled>>

ApplyRotation(r) ==
  /\ up /\ rot[r] # NoIssue /\ rot' = [rot EXCEPT ![r] = NoIssue]
  /\ ApplyCredentialUpdate(rot[r], "credential_rotation")
  /\ UNCHANGED <<pend, cert, bootFile, up, starting, recovery, ren, server, expired, crashes,
                 enrolled, crossed>>

ApplyRotationFails(r) ==
  /\ up /\ rot[r] # NoIssue /\ rot' = [rot EXCEPT ![r] = NoIssue]
  /\ ApplyFails(rot[r], "credential_rotation")
  /\ UNCHANGED <<pend, cert, bootFile, up, starting, recovery, backoff, ren, server, expired,
                 crashes, enrolled, crossed>>

\* maybeRenewCertificate: the certificate is about to expire and a new one is
\* asked for, with a key of its own.
RenewCertificate ==
  /\ up /\ ~starting /\ cert # None /\ ren = None
  /\ ~rejected /\ issued < MaxIssued
  /\ issued' = issued + 1 /\ ren' = MaxIssued + issued + 1
  /\ UNCHANGED <<files, mem, up, starting, recovery, backoff, rot, known, spent, world, history>>

\* The answer passes ValidateIssuedPair and goes to PersistPair, whatever
\* recovery has installed meanwhile.
InstallRenewal ==
  /\ up /\ ren # None /\ <<"cert", ren>> \notin expired
  /\ cert' = ren /\ ren' = None
  /\ UNCHANGED <<saved, pend, bootFile, mem, up, starting, recovery, backoff, rot, server, world,
                 history>>

\* The answer is lost or of no use, or PersistPair fails.
RenewalFails ==
  /\ up /\ ren # None
  /\ cert' = cert \/ (DiskFaults /\ cert' = ren)
  /\ ren' = None
  /\ UNCHANGED <<saved, pend, bootFile, mem, up, starting, recovery, backoff, rot, server, world,
                 history>>

-----------------------------------------------------------------------------
(* The world. *)

\* The server stops accepting the credential.  Identities to recover with are
\* left within the bound.
Reject ==
  /\ ~rejected /\ issued + MaxCrashes < MaxIssued /\ rejected' = TRUE
  /\ UNCHANGED <<files, mem, up, starting, recovery, backoff, aside, server, expired, crashes, history>>

\* A renewal token or a certificate the agent holds expires.
Held == {<<"token", t>> : t \in {saved.renewal, saved.previous, mem.renewal, mem.previous} \ {None}}
        \cup {<<"cert", c>> : c \in {cert, pend.reply.cred} \ {None}}

Expire ==
  /\ Cardinality(expired) < MaxExpiries
  /\ \E x \in Held \ expired : expired' = expired \cup {x}
  /\ UNCHANGED <<files, mem, up, starting, recovery, backoff, aside, server, rejected, crashes, history>>

Crash ==
  /\ up /\ crashes < MaxCrashes /\ crashes' = crashes + 1
  /\ up' = FALSE /\ starting' = FALSE /\ Reset
  /\ UNCHANGED <<files, mem, backoff, aside, server, rejected, expired, history>>

Restart ==
  /\ ~up /\ up' = TRUE /\ starting' = TRUE
  /\ mem' = saved /\ backoff' = FALSE /\ rot' = [r \in Rotators |-> NoIssue]
  /\ ren' = None
  /\ UNCHANGED <<files, recovery, server, world, history>>

Next ==
  \/ StartIdentity \/ MaybeRecoverIdentity \/ BackoffEnds
  \/ Choose \/ ChooseFails \/ OutOfMethods
  \/ Served \/ Unanswered \/ Refused \/ Incompatible \/ RefusedFails
  \/ Store \/ StoreFails \/ Install \/ InstallFails
  \/ Apply \/ ApplyEnrollmentFails \/ Clear \/ ClearFails \/ Consume
  \/ \E r \in Rotators : Rotate(r) \/ ApplyRotation(r) \/ ApplyRotationFails(r)
  \/ RenewCertificate \/ InstallRenewal \/ RenewalFails
  \/ Reject \/ Expire \/ Crash \/ Restart

Spec == Init /\ [][Next]_vars

(***************************************************************************)
(* The agent retries: heartbeats, polls and sends go on and each rejected  *)
(* one starts a recovery, and the service manager restarts the process.    *)
(* The server accepts a request that is made again and again, and a file   *)
(* operation that is repeated succeeds in the end.                         *)
(***************************************************************************)
Proceeds ==
  \/ StartIdentity \/ MaybeRecoverIdentity \/ BackoffEnds
  \/ OutOfMethods \/ InstallFails \/ Clear \/ ClearFails \/ Consume \/ Restart

Fairness ==
  /\ WF_vars(Proceeds)
  /\ SF_vars(Choose) /\ SF_vars(Served) /\ SF_vars(Store)
  /\ SF_vars(Install) /\ SF_vars(Apply)

FairSpec == Spec /\ Fairness

-----------------------------------------------------------------------------
(* Properties. *)

TypeOK ==
  /\ saved \in Identity /\ mem \in Identity
  /\ pend \in [id : Ids \cup {None}, method : Names, reply : Issue \cup {NoIssue}]
  /\ cert \in Certs /\ bootFile \in BOOLEAN /\ up \in BOOLEAN /\ starting \in BOOLEAN
  /\ pc \in {"idle", "choose", "send", "answered", "install", "apply", "clear", "consume"}
  /\ methods \in Seq([name : Names, token : Tokens]) /\ cur \in [name : Names, token : Tokens]
  /\ reply \in Issue \cup {NoIssue} /\ resumed \in BOOLEAN /\ backoff \in BOOLEAN
  /\ rot \in [Rotators -> Issue \cup {NoIssue}] /\ ren \in Certs
  /\ issued \in Numbers /\ spent \in Ids \cup {None} /\ rejected \in BOOLEAN
  /\ known \in [Ids -> [cred : Numbers, token : Numbers, with : Tokens]]
  /\ expired \subseteq {"token", "cert"} \X Certs
  /\ newest \in Numbers /\ enrolled \in Numbers /\ crossed \in BOOLEAN
  /\ crashes \in 0 .. MaxCrashes
  /\ pc = "send" => pend.id # None /\ cur.token # None

\* The single-use bootstrap token is not wasted: once the server has spent it
\* on an enrollment, the agent holds that transaction and its key, to repeat it
\* with the same id, until its identity is in the state file.
SpentTokenIsRedeemed == spent # None => pend.id = spent \/ saved.consumed

\* Nor is it offered for a second enrollment once it is spent.
SpentTokenIsNotReused ==
  pc = "send" /\ cur.token = Boot /\ spent # None => pend.id = spent

\* A recovery and a rotation may apply their answers in any order, a resumed
\* enrollment even twice: of the two renewal tokens the agent keeps, in the
\* state file and in memory, one is as new as any it has applied.  The exception
\* is named: once the refresh after a start and the ticker have had a rotation
\* under way at the same time, two older answers, of a rotation and of a recovery
\* or of both rotations, can follow a newer one and push its token out.
NewestTokenIsKept ==
  crossed \/ /\ newest <= saved.renewal \/ newest <= saved.previous
             /\ up => newest <= mem.renewal \/ newest <= mem.previous

\* Unless an answered enrollment is on disk, to be finished at the next start
\* or recovery, the installed certificate is that of the enrollment whose
\* credential was applied last, or a renewed one; never one of an enrollment that
\* was given up or cut short.  (A renewal asked for before a recovery and answered
\* after it is installed over the certificate of the recovery.)
IdentityIsWhole == pend.reply = NoIssue => cert = enrolled \/ cert > MaxIssued

\* No token is left to begin an enrollment with.
NothingLeft == pend.id = None /\ Available = <<>>

\* The enrollment on disk can neither be finished nor be given up: the renewal
\* token it was begun with has expired before an answer came, or its certificate
\* has expired before it was installed.  Other tokens are not tried any more.
StuckOnExpired ==
  /\ pend.id # None
  /\ CASE pend.reply # NoIssue -> <<"cert", pend.reply.cred>> \in expired
       [] pend.reply = NoIssue /\ pend.method = "renewal" -> <<"token", mem.renewal>> \in expired
       [] pend.reply = NoIssue /\ pend.method = "renewal_previous" ->
            <<"token", mem.previous>> \in expired
       [] OTHER -> FALSE

\* A rejected credential is replaced in the end, whatever is lost, refused or cut
\* short on the way, or no token is left.  The one other end is named: the code
\* never leaves an enrollment on disk that has expired, although it may hold
\* another token.  No rotation, crash or fault leads there without an expiry, and
\* an enrollment with the bootstrap token never does.
RejectedIsReplaced == rejected ~> ~rejected \/ NothingLeft \/ StuckOnExpired
=============================================================================
