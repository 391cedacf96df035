-------------------------- MODULE EnrollmentProofs --------------------------
(***************************************************************************)
(* Proofs about Enrollment.  The inductive invariant has one part per      *)
(* question: what the recovery in progress holds (Phase), which tokens it  *)
(* may offer (Offers), what the server has on record (Ledger), that the    *)
(* spent bootstrap token is still redeemable (Redeemable), that files and  *)
(* credential fit (Renewed, Fits) and, until two rotations cross (Single), *)
(* where the newest renewal token is (NewestIsHeld).                       *)
(***************************************************************************)
EXTENDS Enrollment, FiniteSetTheorems, SequenceTheorems, TLAPS

\* The answer the server has on record for transaction e.
Answer(e) == [cred |-> known[e].cred, token |-> known[e].token]

Exchange == {"send", "answered", "install", "apply", "clear"}
Finalize == {"install", "apply", "clear"}

\* The recovery in progress and the transaction on disk.
Phase ==
  /\ pc # "idle" => up
  /\ pc = "choose" => pend.id = None
  /\ pc \in Exchange => pend.id # None /\ cur.name = pend.method
  /\ pc \in {"send", "answered"} => pend.reply = NoIssue
  /\ pc = "answered" => reply \in Issue /\ reply = Answer(pend.id)
  /\ pc \in Finalize => reply \in Issue /\ pend.reply = reply
  /\ pc = "clear" /\ cur.name = "bootstrap" => saved.consumed /\ mem.consumed
  /\ pend.id = None => pend.reply = NoIssue
  /\ pend.reply # NoIssue => pend.reply = Answer(pend.id)

\* Every method on the list has a token; only bootstrap has the bootstrap token.
Sound(m) == m.token # None /\ (m.token = Boot <=> m.name = "bootstrap")

\* The bootstrap token is on offer only while it is not consumed.
Offers ==
  /\ pc \in {"choose", "send"} =>
       \A i \in 1 .. Len(methods) : Sound(methods[i]) /\ (methods[i].token = Boot => ~mem.consumed)
  /\ pc = "send" => Sound(cur) /\ (cur.token = Boot => ~mem.consumed)

Answered == {e \in Ids : known[e].cred # None}

Ledger ==
  /\ \A e \in Ids : /\ known[e].cred = None => known[e] = Unknown
                    /\ known[e].cred <= issued /\ known[e].token <= issued
  /\ Cardinality(Answered) <= issued
  /\ spent # None => known[spent].cred # None /\ known[spent].with = Boot
  /\ spent # None /\ pend.id = spent => pend.method = "bootstrap"

Redeemable == spent # None => pend.id = spent \/ (saved.consumed /\ (up => mem.consumed))

\* What the renewal is about to install.
Renewed == ren # None => ren > MaxIssued

Fits ==
  /\ pend.reply = NoIssue => cert = enrolled \/ cert > MaxIssued
  /\ pc \in {"apply", "clear"} => cert = reply.cred \/ cert > MaxIssued
  /\ pc = "clear" => enrolled = reply.cred

EInv == TypeOK /\ Phase /\ Offers /\ Ledger /\ Redeemable /\ Renewed /\ Fits

-----------------------------------------------------------------------------

\* The token that the transaction on disk may still bring.
Due == IF pend.id = None THEN None ELSE known[pend.id].token

\* Applying token t after identity i would not push out the newest token n.
Harmless(t, i, n) == t = None \/ t = i.renewal \/ t >= n

\* The newest token n is the current one, or it is the previous one and no answer
\* on its way, with a token in S, would push it out.
HeldIn(i, S, n) == n <= i.renewal \/ (n <= i.previous /\ \A t \in S : Harmless(t, i, n))

\* The tokens that answers on their way bring to the process.
Coming == {Due} \cup {rot[r].token : r \in Rotators}

\* No two rotations are under way, or two have been.
Single ==
  crossed \/ \A q, r \in Rotators : rot[q] # NoIssue /\ rot[r] # NoIssue => q = r

NewestIsHeld ==
  /\ newest <= issued /\ mem.renewal <= issued /\ saved.renewal <= issued
  /\ \A r \in Rotators : rot[r].token <= issued
  /\ HeldIn(saved, {Due}, newest)
  /\ up => HeldIn(mem, Coming, newest)
  /\ \/ Due = None \/ Due >= newest
     \/ \A r \in Rotators : rot[r].token = None \/ rot[r].token >= newest

-----------------------------------------------------------------------------
(* The list of methods. *)

Method == [name : Names, token : Tokens]

\* What a list of methods may contain.
Listed(L) ==
  /\ L \in Seq(Method)
  /\ \A i \in 1 .. Len(L) : Sound(L[i]) /\ (L[i].token = Boot => ~mem.consumed)

LEMMA Constants ==
  /\ MaxIssued \in Nat /\ MaxCrashes \in Nat /\ Boot \in Nat /\ Boot > MaxIssued
  /\ Boot \in Tokens /\ None \in Tokens /\ None \in Numbers /\ Boot # None
  /\ Numbers \subseteq Tokens /\ Numbers \subseteq Nat /\ Tokens \subseteq Nat
  /\ Ids \subseteq Nat /\ None \notin Ids /\ Boot \notin Numbers
  /\ Numbers \subseteq Certs /\ None \in Certs /\ Certs \subseteq Nat
BY BoundsAssumption DEF Boot, Tokens, Numbers, None, Ids, Certs

LEMMA OfferIsListed ==
  ASSUME TypeOK, NEW name \in Names
  PROVE  /\ Listed(Offer(name))
         /\ Offer(name) # <<>> => Head(Offer(name)) \in Method /\ Head(Offer(name)).name = name
                                  /\ Sound(Head(Offer(name)))
                                  /\ (Head(Offer(name)).token = Boot => ~mem.consumed)
<1>1. mem.renewal \in Numbers /\ mem.previous \in Numbers
  BY DEF TypeOK, Identity
<1>2. TokenOf(name) \in Tokens /\ (TokenOf(name) = Boot <=> name = "bootstrap" /\ TokenOf(name) # None)
  <2>1. CASE name = "renewal"
    BY <1>1, <2>1, Constants DEF TokenOf
  <2>2. CASE name = "renewal_previous"
    BY <1>1, <2>2, Constants DEF TokenOf
  <2>3. CASE name = "bootstrap"
    BY <2>3, Constants DEF TokenOf, CurrentBootstrapToken
  <2> QED BY <2>1, <2>2, <2>3 DEF Names
<1>3. TokenOf(name) = Boot => ~mem.consumed
  BY <1>2, Constants DEF TokenOf, CurrentBootstrapToken
<1>4. CASE TokenOf(name) = None
  BY <1>4 DEF Offer, Listed
<1>5. CASE TokenOf(name) # None
  <2> DEFINE m == [name |-> name, token |-> TokenOf(name)]
  <2>1. m \in Method /\ m.name = name /\ Sound(m) /\ (m.token = Boot => ~mem.consumed)
    BY <1>2, <1>3, <1>5 DEF Method, Sound
  <2>2. Offer(name) = <<m>>
    BY <1>5 DEF Offer
  <2> HIDE DEF m
  <2>3. Len(<<m>>) = 1 /\ <<m>>[1] = m /\ <<m>> \in Seq(Method) /\ Head(<<m>>) = m
    BY <2>1
  <2> QED BY <2>1, <2>2, <2>3 DEF Listed
<1> QED BY <1>4, <1>5

LEMMA ListsAreJoined ==
  ASSUME NEW L, NEW M, Listed(L), Listed(M)
  PROVE  Listed(L \o M)
<1>1. L \in Seq(Method) /\ M \in Seq(Method)
  BY DEF Listed
<1>2. L \o M \in Seq(Method) /\ Len(L \o M) = Len(L) + Len(M)
  BY <1>1
<1>3. ASSUME NEW i \in 1 .. Len(L \o M)
      PROVE  \/ i \in 1 .. Len(L) /\ (L \o M)[i] = L[i]
             \/ i - Len(L) \in 1 .. Len(M) /\ (L \o M)[i] = M[i - Len(L)]
  BY <1>1, <1>2
<1> QED BY <1>2, <1>3 DEF Listed

LEMMA MethodsAreListed ==
  ASSUME TypeOK, NEW name \in Names
  PROVE  Listed(Available) /\ Listed(Others(name)) /\ Listed(<<>>)
<1>1. Listed(<<>>)
  BY DEF Listed
<1>2. \A n \in Names : Listed(Offer(n))
  BY OfferIsListed
<1>3. "renewal" \in Names /\ "renewal_previous" \in Names /\ "bootstrap" \in Names
  BY DEF Names
<1>4. Listed(Available)
  BY <1>2, <1>3, ListsAreJoined DEF Available
<1> DEFINE Rest(n) == IF n = name THEN <<>> ELSE Offer(n)
<1>5. \A n \in Names : Listed(Rest(n))
  BY <1>1, <1>2
<1>6. Others(name) = Rest("renewal") \o Rest("renewal_previous") \o Rest("bootstrap")
  BY DEF Others
<1> HIDE DEF Rest
<1>7. Listed(Others(name))
  BY <1>3, <1>5, <1>6, ListsAreJoined
<1> QED BY <1>1, <1>4, <1>7

-----------------------------------------------------------------------------
(* There is always an id that the server has not seen. *)

LEMMA FreshIdIsFresh ==
  ASSUME EInv
  PROVE  FreshId \in Ids /\ known[FreshId].cred = None
<1>1. Cardinality(Answered) <= issued /\ issued \in 0 .. MaxIssued /\ MaxIssued \in Nat
  BY Constants DEF EInv, Ledger, TypeOK, Numbers
<1>2. IsFiniteSet(Ids) /\ Cardinality(Ids) = MaxIssued + 1
  <2>1. 1 \in Int /\ MaxIssued + 1 \in Int
    BY Constants
  <2>2. IsFiniteSet(1 .. (MaxIssued + 1))
    BY <2>1, FS_Interval
  <2>3. Cardinality(1 .. (MaxIssued + 1)) = MaxIssued + 1
    BY <2>1, Constants, FS_Interval
  <2> QED BY <2>2, <2>3 DEF Ids
<1>3. Answered # Ids
  BY <1>1, <1>2
<1>4. \E e \in Ids : known[e].cred = None
  BY <1>3 DEF Answered
<1> QED BY <1>4 DEF FreshId

-----------------------------------------------------------------------------
(* The invariant. *)

LEMMA EInvInit == Init => EInv
<1> SUFFICES ASSUME Init PROVE EInv
  OBVIOUS
<1> USE Constants
<1>1. TypeOK
  <2>1. /\ NoIdentity \in Identity /\ NoMethod \in Method
        /\ Absent \in [id : Ids \cup {None}, method : Names, reply : Issue \cup {NoIssue}]
    BY DEF NoIdentity, Identity, NoMethod, Method, Names, Absent
  <2>2. known \in [Ids -> [cred : Numbers, token : Numbers, with : Tokens]]
    BY DEF Init, Unknown
  <2>3. /\ up \in BOOLEAN /\ starting \in BOOLEAN /\ resumed \in BOOLEAN /\ backoff \in BOOLEAN
        /\ rejected \in BOOLEAN /\ bootFile \in BOOLEAN /\ crossed \in BOOLEAN
    BY Zenon DEF Init
  <2> QED BY <2>1, <2>2, <2>3 DEF Init, TypeOK, Method, None
<1>2. Phase /\ Offers /\ Redeemable /\ Renewed /\ Fits
  BY DEF Init, Phase, Offers, Redeemable, Renewed, Fits, Exchange, Finalize, Absent, NoIdentity
<1>3. Ledger
  <2>1. Answered = {}
    BY DEF Init, Answered, Unknown
  <2>2. Cardinality(Answered) = 0
    BY <2>1, FS_EmptySet
  <2> QED BY <2>2 DEF Init, Ledger, Unknown, None
<1> QED BY <1>1, <1>2, <1>3 DEF EInv

\* What a failed, a resumed and a begun recovery leave of its variables.
LEMMA FailLeaves ==
  ASSUME Fail, TypeOK
  PROVE  /\ pc' = "idle" /\ methods' = <<>> /\ cur' = NoMethod /\ reply' = NoIssue
         /\ resumed' \in BOOLEAN /\ up' \in BOOLEAN /\ starting' \in BOOLEAN
<1>1. resumed' = FALSE /\ starting' = FALSE /\ up' = ~starting
  BY DEF Fail, Reset
<1>2. resumed' \in BOOLEAN /\ up' \in BOOLEAN /\ starting' \in BOOLEAN
  BY <1>1, Zenon
<1> QED BY <1>2 DEF Fail, Reset

LEMMA RecoverLeaves ==
  ASSUME EInv, Recover, up, pc = "idle"
  PROVE  /\ pc' \in {"idle", "install", "send", "choose"}
         /\ methods' \in Seq(Method) /\ cur' \in Method /\ reply' \in Issue \cup {NoIssue}
         /\ resumed' \in BOOLEAN /\ up' \in BOOLEAN /\ starting' \in BOOLEAN /\ backoff' \in BOOLEAN
         /\ pc' # "idle" => up'
         /\ pc' = "install" => /\ pend.id # None /\ reply' = pend.reply /\ pend.reply # NoIssue
                               /\ cur'.name = pend.method
         /\ pc' = "send" => /\ pend.id # None /\ pend.reply = NoIssue /\ cur'.name = pend.method
                            /\ Sound(cur') /\ (cur'.token = Boot => ~mem.consumed)
         /\ pc' = "choose" => pend.id = None
         /\ pc' \in {"send", "choose"} => Listed(methods')
<1>t. TypeOK /\ pend.method \in Names
  BY DEF EInv, TypeOK
<1>m. Listed(Available) /\ Listed(Others(pend.method)) /\ <<>> \in Seq(Method) /\ NoMethod \in Method
  BY <1>t, MethodsAreListed, Constants DEF NoMethod, Method, Names
<1>1. CASE /\ pend.id # None /\ pend.reply # NoIssue
           /\ pc' = "install" /\ reply' = pend.reply /\ resumed' = TRUE
           /\ methods' = <<>> /\ cur' = [name |-> pend.method, token |-> None]
           /\ UNCHANGED <<up, starting, backoff>>
  <2>1. resumed' \in BOOLEAN
    BY <1>1, Zenon
  <2>2. cur' \in Method /\ cur'.name = pend.method
    BY <1>1, <1>t, Constants DEF Method
  <2> QED BY <1>1, <1>m, <1>t, <2>1, <2>2 DEF TypeOK
<1>2. CASE /\ pend.id # None /\ pend.reply = NoIssue /\ Named(pend.method) # <<>>
           /\ pc' = "send" /\ cur' = Head(Named(pend.method)) /\ methods' = Others(pend.method)
           /\ UNCHANGED <<reply, resumed, up, starting, backoff>>
  <2>1. /\ cur' \in Method /\ cur'.name = pend.method
        /\ Sound(cur') /\ (cur'.token = Boot => ~mem.consumed)
    BY <1>2, <1>t, OfferIsListed DEF Named
  <2> QED BY <1>2, <1>m, <1>t, <2>1 DEF TypeOK, Listed
<1>3. CASE FailAndBackOff
  <2>1. backoff' \in BOOLEAN
    BY <1>3, Zenon DEF FailAndBackOff
  <2> QED BY <1>3, <1>m, <1>t, <2>1, FailLeaves DEF FailAndBackOff
<1>4. CASE /\ pend.id = None
           /\ pc' = "choose" /\ methods' = Available
           /\ UNCHANGED <<cur, reply, resumed, up, starting, backoff>>
  BY <1>4, <1>m, <1>t DEF TypeOK, Listed, Method
<1> QED BY <1>1, <1>2, <1>3, <1>4 DEF Recover

LEMMA AfterIsIdentity ==
  ASSUME NEW i \in Identity, NEW a \in Issue, NEW m
  PROVE  /\ After(i, a, m) \in Identity
         /\ i.consumed \/ m = "bootstrap" => After(i, a, m).consumed
         /\ m # "bootstrap" => (After(i, a, m).consumed = i.consumed)
<1> DEFINE c == i.consumed \/ m = "bootstrap"
           r == IF a.token = None THEN i.renewal ELSE a.token
<1>1. i.renewal \in Numbers /\ i.previous \in Numbers /\ i.consumed \in BOOLEAN
      /\ a.cred \in Numbers /\ a.token \in Numbers
  BY Constants DEF Identity, Issue, Numbers
<1>2. c \in BOOLEAN
  OBVIOUS
<1>3. r \in Numbers
  BY <1>1
<1>4. After(i, a, m).consumed = c
  BY DEF After
<1>5. After(i, a, m) = [cred |-> a.cred, renewal |-> r,
        previous |-> IF r # None /\ r # i.renewal THEN i.renewal ELSE i.previous, consumed |-> c]
  BY DEF After
<1> HIDE DEF c, r
<1>6. After(i, a, m) \in Identity
  BY <1>1, <1>2, <1>3, <1>5 DEF Identity
<1> QED BY <1>1, <1>4, <1>6 DEF c

\* What the server does with a request.
LEMMA AcceptLeaves ==
  ASSUME EInv, pc = "send", NEW a \in Issue, Accept(a)
  PROVE  /\ issued' \in Numbers /\ spent' \in Ids \cup {None} /\ issued' \in {issued, issued + 1}
         /\ known' \in [Ids -> [cred : Numbers, token : Numbers, with : Tokens]]
         /\ pend.id \in Ids
         /\ known'[pend.id].cred = a.cred /\ known'[pend.id].token = a.token
         /\ a.cred <= issued' /\ a.token <= issued'
         /\ \A e \in Ids \ {pend.id} : known'[e] = known[e]
         /\ \/ UNCHANGED server /\ known[pend.id].cred # None
            \/ /\ known[pend.id].cred = None /\ issued' = issued + 1 /\ a.token = issued + 1
               /\ cur.token = Boot => spent = None
               /\ spent' = (IF cur.token = Boot THEN pend.id ELSE spent)
               /\ known'[pend.id].with = cur.token
<1>1. /\ pend.id \in Ids /\ issued \in Numbers /\ cur.token \in Tokens /\ spent \in Ids \cup {None}
      /\ known \in [Ids -> [cred : Numbers, token : Numbers, with : Tokens]]
      /\ issued \in Nat /\ MaxIssued \in Nat
  BY Constants DEF EInv, TypeOK, None
<1>2. a.cred \in Numbers /\ a.token \in Numbers /\ a.cred # None
  BY Constants DEF Issue, Numbers, None
<1>3. CASE /\ known[pend.id].cred # None
           /\ a = [cred |-> known[pend.id].cred, token |-> known[pend.id].token]
           /\ UNCHANGED server
  BY <1>1, <1>3 DEF EInv, Ledger, server
<1>4. CASE /\ known[pend.id].cred = None /\ issued < MaxIssued
           /\ cur.token = Boot => spent = None
           /\ a.cred = issued + 1 /\ a.token = issued + 1
           /\ issued' = issued + 1
           /\ known' = [known EXCEPT ![pend.id] =
                          [cred |-> a.cred, token |-> a.token, with |-> cur.token]]
           /\ spent' = IF cur.token = Boot THEN pend.id ELSE spent
  <2>1. issued + 1 \in Numbers
    BY <1>1, <1>4 DEF Numbers
  <2>2. known' \in [Ids -> [cred : Numbers, token : Numbers, with : Tokens]]
    BY <1>1, <1>2, <1>4
  <2>3. known'[pend.id] = [cred |-> a.cred, token |-> a.token, with |-> cur.token]
    BY <1>1, <1>4
  <2>4. a.cred <= issued' /\ a.token <= issued'
    BY <1>1, <1>4
  <2> QED BY <1>1, <1>4, <2>1, <2>2, <2>3, <2>4
<1> QED BY <1>3, <1>4 DEF Accept

LEMMA TypeNext == EInv /\ [Next]_vars => TypeOK'
<1> SUFFICES ASSUME EInv, [Next]_vars PROVE TypeOK'
  OBVIOUS
<1>t. TypeOK /\ Phase /\ Offers
  BY DEF EInv
<1>c. /\ <<>> \in Seq([name : Names, token : Tokens]) /\ NoMethod \in [name : Names, token : Tokens]
      /\ Absent \in [id : Ids \cup {None}, method : Names, reply : Issue \cup {NoIssue}]
      /\ TRUE \in BOOLEAN /\ FALSE \in BOOLEAN
  BY Constants DEF NoMethod, Names, Absent
\* A recovery that ends in failure.
<1>f. ASSUME Fail
      PROVE  /\ pc' = "idle" /\ methods' = <<>> /\ cur' = NoMethod /\ reply' = NoIssue
             /\ resumed' \in BOOLEAN /\ up' \in BOOLEAN /\ starting' \in BOOLEAN
  BY <1>f, <1>t, FailLeaves
<1>b. /\ FailAndBackOff => Fail /\ backoff' \in BOOLEAN
      /\ FailPlain => Fail /\ backoff' \in BOOLEAN
      /\ FailFinalize => Fail /\ backoff' \in BOOLEAN
  <2>1. backoff \in BOOLEAN
    BY <1>t DEF TypeOK
  <2> QED BY <2>1, Zenon DEF FailAndBackOff, FailPlain, FailFinalize
<1>s. ASSUME Succeed
      PROVE  /\ pc' = "idle" /\ methods' = <<>> /\ cur' = NoMethod /\ reply' = NoIssue
             /\ resumed' \in BOOLEAN /\ up' \in BOOLEAN /\ starting' \in BOOLEAN
  <2>1. resumed' = FALSE /\ starting' = (starting /\ resumed) /\ up' = up
    BY <1>s DEF Succeed, Reset
  <2>2. resumed' \in BOOLEAN /\ starting' \in BOOLEAN
    BY <2>1, Zenon
  <2> QED BY <1>s, <1>t, <2>1, <2>2 DEF Succeed, Reset, TypeOK
<1>a. ASSUME NEW a \in Issue, NEW m
      PROVE  After(mem, a, m) \in Identity
  BY <1>t, AfterIsIdentity DEF TypeOK
<1>p. ASSUME NEW a \in Issue, NEW m, ApplyCredentialUpdate(a, m)
      PROVE  /\ saved' \in Identity /\ mem' \in Identity /\ backoff' \in BOOLEAN
             /\ rejected' \in BOOLEAN /\ newest' \in Numbers
  <2>1. backoff' \in BOOLEAN /\ rejected' \in BOOLEAN
    BY <1>p, Zenon DEF ApplyCredentialUpdate
  <2>2. After(mem, a, m).renewal \in Numbers
    BY <1>a DEF Identity
  <2> QED BY <1>a, <1>p, <1>t, <2>1, <2>2 DEF ApplyCredentialUpdate, TypeOK
<1>1. CASE StartIdentity \/ MaybeRecoverIdentity
  <2>1. up /\ pc = "idle" /\ UNCHANGED <<files, mem, aside, server, world, history>>
    BY <1>1 DEF StartIdentity, MaybeRecoverIdentity
  <2>2. CASE starting' = FALSE /\ UNCHANGED <<up, backoff, recovery>>
    <3>1. starting' \in BOOLEAN
      BY <2>2, Zenon
    <3> QED BY <1>t, <2>1, <2>2, <3>1 DEF TypeOK, aside, files, recovery, server, world, history
  <2>3. CASE Recover
    BY <1>t, <2>1, <2>3, RecoverLeaves
       DEF TypeOK, aside, files, server, world, history, Method, Sound
  <2> QED BY <1>1, <2>2, <2>3 DEF StartIdentity, MaybeRecoverIdentity
<1>2. CASE BackoffEnds
  <2>1. backoff' \in BOOLEAN
    BY <1>2, Zenon DEF BackoffEnds
  <2> QED BY <1>2, <1>t, <2>1 DEF BackoffEnds, TypeOK, aside, files, recovery, server, world, history
<1>m. ASSUME pc = "choose", methods # <<>>
      PROVE  /\ Head(methods) \in [name : Names, token : Tokens] /\ Head(methods).token # None
             /\ Tail(methods) \in Seq([name : Names, token : Tokens])
             /\ [id |-> FreshId, method |-> Head(methods).name, reply |-> NoIssue] \in
                  [id : Ids \cup {None}, method : Names, reply : Issue \cup {NoIssue}]
             /\ FreshId # None
  <2>1. /\ Head(methods) = methods[1] /\ 1 \in 1 .. Len(methods)
        /\ methods \in Seq([name : Names, token : Tokens])
    BY <1>m, <1>t DEF TypeOK
  <2>2. Head(methods).token # None
    BY <1>m, <1>t, <2>1 DEF Offers, Sound
  <2>3. FreshId \in Ids
    BY FreshIdIsFresh
  <2>4. /\ Head(methods) \in [name : Names, token : Tokens]
        /\ Tail(methods) \in Seq([name : Names, token : Tokens])
    BY <1>m, <2>1, HeadTailProperties
  <2>5. Head(methods).name \in Names
    BY <2>4
  <2> QED BY <2>2, <2>3, <2>4, <2>5, Constants
<1>3. CASE Choose
  <2>1. pend' = [id |-> FreshId, method |-> Head(methods).name, reply |-> NoIssue]
    BY <1>3 DEF Choose
  <2>2. pend'.id # None
    BY <1>3, <1>m, <2>1 DEF Choose
  <2> QED BY <1>3, <1>m, <1>t, <2>1, <2>2 DEF Choose, TypeOK, aside, server, world, history
<1>4. CASE ChooseFails \/ OutOfMethods
  <2>1. pend' \in [id : Ids \cup {None}, method : Names, reply : Issue \cup {NoIssue}]
    BY <1>4, <1>m, <1>t DEF ChooseFails, OutOfMethods, TypeOK, aside, files
  <2> QED BY <1>4, <1>b, <1>c, <1>f, <1>t, <2>1
          DEF ChooseFails, OutOfMethods, TypeOK, aside, files, server, world, history
<1>5. CASE Served
  <2>1. PICK a \in Issue : Accept(a) /\ reply' = a
    BY <1>5 DEF Served
  <2> QED BY <1>5, <1>t, <2>1, AcceptLeaves DEF Served, TypeOK, aside, files, world, history
<1>6. CASE Unanswered
  <2>1. /\ issued' \in Numbers /\ spent' \in Ids \cup {None}
        /\ known' \in [Ids -> [cred : Numbers, token : Numbers, with : Tokens]]
    BY <1>6, <1>t, AcceptLeaves DEF Unanswered, TypeOK, aside, server
  <2> QED BY <1>6, <1>b, <1>c, <1>f, <1>t, <2>1
          DEF Unanswered, TypeOK, aside, files, world, history
<1>7. CASE Refused
  BY <1>7, <1>c, <1>t DEF Refused, TypeOK, aside, server, world, history
<1>8. CASE Incompatible \/ RefusedFails
  BY <1>8, <1>b, <1>c, <1>f, <1>t
     DEF Incompatible, RefusedFails, TypeOK, aside, server, world, history
<1>9. CASE Store \/ StoreFails
  <2>1. reply \in Issue /\ pc = "answered"
    BY <1>9, <1>t DEF Store, StoreFails, Phase
  <2>2. [pend EXCEPT !.reply = reply] \in
          [id : Ids \cup {None}, method : Names, reply : Issue \cup {NoIssue}]
    BY <1>t, <2>1 DEF TypeOK
  <2>3. CASE Store
    BY <1>t, <2>2, <2>3 DEF Store, TypeOK, aside, server, world, history
  <2>4. CASE StoreFails
    BY <1>b, <1>c, <1>f, <1>t, <2>2, <2>4 DEF StoreFails, TypeOK, aside, server, world, history
  <2> QED BY <1>9, <2>3, <2>4
<1>10. CASE Install \/ InstallFails
  <2>1. reply.cred \in Certs
    BY <1>10, <1>t, Constants DEF Install, InstallFails, Phase, Finalize, Issue, Numbers
  <2>2. CASE Install
    BY <1>t, <2>1, <2>2 DEF Install, TypeOK, aside, server, world, history
  <2>3. CASE InstallFails
    BY <1>b, <1>c, <1>f, <1>t, <2>1, <2>3 DEF InstallFails, TypeOK, aside, server, world, history
  <2> QED BY <1>10, <2>2, <2>3
<1>11. CASE Apply
  <2>1. reply \in Issue /\ ApplyCredentialUpdate(reply, cur.name)
    BY <1>11, <1>t DEF Apply, Phase, Finalize
  <2>2. reply.cred \in Numbers
    BY <2>1, Constants DEF Issue, Numbers
  <2> QED BY <1>11, <1>p, <1>t, <2>1, <2>2 DEF Apply, TypeOK, aside, server
<1>12. CASE ApplyEnrollmentFails
  <2>1. reply \in Issue /\ ApplyFails(reply, cur.name) /\ FailFinalize
    BY <1>12, <1>t DEF ApplyEnrollmentFails, Phase, Finalize
  <2>2. saved' \in Identity /\ UNCHANGED <<mem, rejected, newest>>
    BY <1>a, <1>t, <2>1 DEF ApplyFails, TypeOK
  <2> QED BY <1>12, <1>b, <1>c, <1>f, <1>t, <2>1, <2>2 DEF ApplyEnrollmentFails, TypeOK, aside, server
<1>13. CASE Clear
  BY <1>13, <1>c, <1>s, <1>t DEF Clear, TypeOK, aside, server, world, history
<1>14. CASE ClearFails
  BY <1>14, <1>b, <1>c, <1>f, <1>t DEF ClearFails, TypeOK, aside, server, world, history
<1>15. CASE Consume
  <2>1. bootFile' \in BOOLEAN
    BY <1>15, <1>c, <1>t DEF Consume, TypeOK
  <2> QED BY <1>15, <1>c, <1>s, <1>t, <2>1 DEF Consume, TypeOK, aside, server, world, history
<1>16. ASSUME NEW r \in Rotators, Rotate(r) PROVE TypeOK'
  <2>1. issued < MaxIssued /\ issued' = issued + 1 /\ issued \in 0 .. MaxIssued
    BY <1>16, <1>t DEF Rotate, TypeOK, Numbers
  <2>2. issued' \in Numbers /\ issued' \in 1 .. MaxIssued
    BY <2>1, Constants DEF Numbers
  <2>3. \A t \in {None, issued + 1} : [cred |-> issued + 1, token |-> t] \in Issue
    BY <2>1, <2>2, Constants DEF Issue
  <2>4. rot' \in [Rotators -> Issue \cup {NoIssue}]
    BY <1>16, <1>t, <2>3 DEF Rotate, TypeOK
  <2>5. crossed' \in BOOLEAN
    <3>1. crossed \in BOOLEAN
      BY <1>t DEF TypeOK
    <3> QED BY <1>16, <3>1, Zenon DEF Rotate
  <2> QED BY <1>16, <1>t, <2>2, <2>4, <2>5 DEF Rotate, TypeOK, aside, files, recovery, world, history
<1>17. ASSUME NEW r \in Rotators, ApplyRotation(r) PROVE TypeOK'
  <2>1. rot[r] \in Issue /\ ApplyCredentialUpdate(rot[r], "credential_rotation")
    BY <1>17, <1>t DEF ApplyRotation, TypeOK
  <2>2. rot' \in [Rotators -> Issue \cup {NoIssue}]
    BY <1>17, <1>t DEF ApplyRotation, TypeOK
  <2> QED BY <1>17, <1>p, <1>t, <2>1, <2>2 DEF ApplyRotation, TypeOK, aside, recovery, server
<1>18. ASSUME NEW r \in Rotators, ApplyRotationFails(r) PROVE TypeOK'
  <2>1. rot[r] \in Issue /\ ApplyFails(rot[r], "credential_rotation")
    BY <1>18, <1>t DEF ApplyRotationFails, TypeOK
  <2>2. saved' \in Identity /\ UNCHANGED <<mem, rejected, newest>>
    BY <1>a, <1>t, <2>1 DEF ApplyFails, TypeOK
  <2>3. rot' \in [Rotators -> Issue \cup {NoIssue}]
    BY <1>18, <1>t DEF ApplyRotationFails, TypeOK
  <2> QED BY <1>18, <1>t, <2>2, <2>3 DEF ApplyRotationFails, TypeOK, aside, recovery, server
<1>19. CASE Reject
  <2>1. rejected' \in BOOLEAN
    BY <1>19, Zenon DEF Reject
  <2> QED BY <1>19, <1>t, <2>1 DEF Reject, TypeOK, aside, files, recovery, server, history
<1>20. CASE Expire
  <2>1. Held \subseteq {"token", "cert"} \X Certs
    <3>1. {saved.renewal, saved.previous, mem.renewal, mem.previous} \subseteq Certs
      BY <1>t, Constants DEF TypeOK, Identity
    <3>2. cert \in Certs /\ pend.reply.cred \in Certs
      BY <1>t, Constants DEF TypeOK, Issue, NoIssue, Numbers
    <3> QED BY <3>1, <3>2 DEF Held
  <2>2. expired' \subseteq {"token", "cert"} \X Certs
    BY <1>20, <1>t, <2>1 DEF Expire, TypeOK
  <2> QED BY <1>20, <1>t, <2>2 DEF Expire, TypeOK, aside, files, recovery, server, history
<1>21. CASE Crash
  <2>1. up' \in BOOLEAN /\ starting' \in BOOLEAN /\ resumed' \in BOOLEAN
    BY <1>21, Zenon DEF Crash, Reset
  <2>2. crashes' \in 0 .. MaxCrashes
    BY <1>21, <1>t, Constants DEF Crash, TypeOK
  <2> QED BY <1>21, <1>c, <1>t, <2>1, <2>2
          DEF Crash, Reset, TypeOK, aside, files, server, history
<1>22. CASE Restart
  <2>1. up' \in BOOLEAN /\ starting' \in BOOLEAN /\ backoff' \in BOOLEAN
    BY <1>22, Zenon DEF Restart
  <2>2. ren' \in Certs
    BY <1>22, Constants DEF Restart
  <2> QED BY <1>22, <1>t, <2>1, <2>2
          DEF Restart, TypeOK, files, recovery, server, world, history
<1>23. CASE RenewCertificate
  <2>1. /\ issued < MaxIssued /\ issued' = issued + 1 /\ issued \in 0 .. MaxIssued
        /\ ren' = MaxIssued + issued + 1
    BY <1>23, <1>t DEF RenewCertificate, TypeOK, Numbers
  <2>2. issued' \in Numbers /\ ren' \in Certs
    BY <2>1, Constants DEF Numbers, Certs
  <2> QED BY <1>23, <1>t, <2>2
          DEF RenewCertificate, TypeOK, files, recovery, world, history
<1>24. CASE InstallRenewal \/ RenewalFails
  <2>1. cert' \in {cert, ren} /\ ren' = None
    BY <1>24 DEF InstallRenewal, RenewalFails
  <2> QED BY <1>24, <1>t, <2>1, Constants
          DEF InstallRenewal, RenewalFails, TypeOK, recovery, server, world, history
<1>25. CASE UNCHANGED vars
  BY <1>25, <1>t DEF vars, TypeOK, aside, files, recovery, server, world, history
<1> QED
  BY <1>1, <1>2, <1>3, <1>4, <1>5, <1>6, <1>7, <1>8, <1>9, <1>10, <1>11, <1>12, <1>13, <1>14,
     <1>15, <1>16, <1>17, <1>18, <1>19, <1>20, <1>21, <1>22, <1>23, <1>24, <1>25 DEF Next

\* Steps of rotations, of the clock and of the server that leave the recovery
\* and the files alone.
Aside ==
  BackoffEnds \/ Reject \/ Expire \/ RenewCertificate \/ \E r \in Rotators : Rotate(r)

LEMMA AsideLeaves ==
  ASSUME Aside
  PROVE  /\ UNCHANGED <<saved, mem, pend, cert, bootFile, up, pc, methods, cur, reply, resumed>>
         /\ UNCHANGED <<known, spent, newest, enrolled>>
BY DEF Aside, BackoffEnds, Reject, Expire, RenewCertificate, Rotate, files, recovery, server,
       world, history

\* The end of a renewal touches the certificate only.
LEMMA RenewalLeaves ==
  ASSUME InstallRenewal \/ RenewalFails
  PROVE  /\ UNCHANGED <<saved, mem, pend, bootFile, up, pc, methods, cur, reply, resumed, rot>>
         /\ UNCHANGED <<issued, known, spent, newest, enrolled>>
         /\ cert' \in {cert, ren}
BY DEF InstallRenewal, RenewalFails, recovery, server, history

\* A recovery that fails or is cut short.
LEMMA EndsLeave ==
  /\ FailAndBackOff \/ FailPlain \/ FailFinalize \/ Succeed => pc' = "idle"
  /\ FailAndBackOff \/ FailPlain \/ FailFinalize \/ Succeed => reply' = NoIssue
BY DEF FailAndBackOff, FailPlain, FailFinalize, Succeed, Fail, Reset

LEMMA PhaseNext == EInv /\ [Next]_vars => Phase'
<1> SUFFICES ASSUME EInv, [Next]_vars PROVE Phase'
  OBVIOUS
<1>t. TypeOK /\ Phase /\ Ledger
  BY DEF EInv
<1>n. NoIssue \notin Issue /\ Absent.id = None /\ Absent.reply = NoIssue
  BY Constants DEF NoIssue, Issue, Absent, None
\* The recovery is over and the transaction on disk is well formed.
<1>i. ASSUME pc' = "idle", pend'.id = None => pend'.reply = NoIssue,
             pend'.reply # NoIssue =>
               pend'.reply = [cred |-> known'[pend'.id].cred, token |-> known'[pend'.id].token]
      PROVE  Phase'
  BY <1>i DEF Phase, Exchange, Finalize, Answer
<1>j. ASSUME pc' = "idle", UNCHANGED <<pend, known>> PROVE Phase'
  BY <1>i, <1>j, <1>t DEF Phase, Answer
<1>k. ASSUME pc' = "idle", pend' = Absent PROVE Phase'
  BY <1>i, <1>k, <1>n
<1>1. CASE StartIdentity \/ MaybeRecoverIdentity
  <2>1. up /\ pc = "idle" /\ UNCHANGED <<saved, mem, pend, known>>
    BY <1>1 DEF StartIdentity, MaybeRecoverIdentity, files, server
  <2>2. CASE UNCHANGED <<up, backoff, recovery>>
    BY <1>j, <2>1, <2>2 DEF recovery
  <2>3. CASE Recover
    <3>1. pend.reply # NoIssue => pend.reply \in Issue
      BY <1>t DEF TypeOK
    <3> QED BY <1>t, <2>1, <2>3, <3>1, RecoverLeaves DEF Phase, Exchange, Finalize, Answer
  <2> QED BY <1>1, <2>2, <2>3 DEF StartIdentity, MaybeRecoverIdentity
<1>2. CASE Aside
  BY <1>2, <1>t, AsideLeaves DEF Phase, Answer
<1>3. CASE Choose
  <2>1. pend' = [id |-> FreshId, method |-> Head(methods).name, reply |-> NoIssue] /\ FreshId # None
    BY <1>3, FreshIdIsFresh, Constants DEF Choose
  <2>2. pend'.id # None /\ pend'.reply = NoIssue /\ pend'.method = Head(methods).name
    BY <2>1
  <2> QED BY <1>3, <1>t, <2>2 DEF Choose, Phase, Exchange, Finalize
<1>4. CASE ChooseFails
  <2>1. pc' = "idle" /\ known' = known
    BY <1>4, EndsLeave DEF ChooseFails, server
  <2>2. CASE pend' = pend
    BY <1>j, <2>1, <2>2
  <2>3. CASE pend' = [id |-> FreshId, method |-> Head(methods).name, reply |-> NoIssue]
    <3>1. FreshId # None
      BY FreshIdIsFresh, Constants
    <3> QED BY <1>i, <2>1, <2>3, <3>1
  <2> QED BY <1>4, <2>2, <2>3 DEF ChooseFails
<1>5. CASE OutOfMethods
  BY <1>5, <1>j, EndsLeave DEF OutOfMethods, files, server
<1>6. CASE Served
  <2>1. PICK a \in Issue : Accept(a) /\ reply' = a
    BY <1>6 DEF Served
  <2>2. /\ pc = "send" /\ pc' = "answered" /\ UNCHANGED <<pend, up, cur, saved, mem>>
    BY <1>6 DEF Served, files
  <2>3. known'[pend.id].cred = a.cred /\ known'[pend.id].token = a.token
    BY <2>1, <2>2, AcceptLeaves
  <2>4. a = [cred |-> known'[pend.id].cred, token |-> known'[pend.id].token]
    BY <2>3 DEF Issue
  <2> QED BY <1>t, <2>1, <2>2, <2>4 DEF Phase, Exchange, Finalize, Answer
<1>7. CASE Unanswered
  <2>1. pc' = "idle" /\ pend' = pend /\ pend.reply = NoIssue
    BY <1>7, <1>t, EndsLeave DEF Unanswered, Phase, files
  <2> QED BY <1>i, <2>1
<1>8. CASE Refused
  BY <1>8, <1>n, <1>t DEF Refused, Phase, Exchange, Finalize
<1>9. CASE Incompatible
  BY <1>9, <1>k, EndsLeave DEF Incompatible
<1>10. CASE RefusedFails \/ ClearFails
  <2>1. pc' = "idle" /\ known' = known /\ pend' \in {pend, Absent}
    BY <1>10, EndsLeave DEF RefusedFails, ClearFails, server
  <2> QED BY <1>j, <1>k, <2>1
<1>11. CASE Store \/ StoreFails
  <2>1. /\ pc = "answered" /\ pend.id # None /\ reply \in Issue /\ reply = Answer(pend.id)
        /\ cur.name = pend.method /\ known' = known
    BY <1>11, <1>t DEF Store, StoreFails, Phase, Exchange, server
  <2> DEFINE q == [pend EXCEPT !.reply = reply]
  <2>2. q.id = pend.id /\ q.reply = reply /\ q.method = pend.method
    BY <1>t DEF TypeOK
  <2>3. CASE Store
    <3>1. pend' = q /\ pc' = "install" /\ UNCHANGED <<up, cur, reply, saved, mem>>
      BY <2>3 DEF Store
    <3> HIDE DEF q
    <3> QED BY <1>t, <2>1, <2>2, <3>1 DEF Phase, Exchange, Finalize, Answer
  <2>4. CASE StoreFails
    <3>1. pend' \in {pend, q} /\ pc' = "idle"
      BY <2>4, EndsLeave DEF StoreFails
    <3> HIDE DEF q
    <3>2. CASE pend' = q
      BY <1>i, <2>1, <2>2, <3>1, <3>2 DEF Answer
    <3> QED BY <1>j, <2>1, <3>1, <3>2
  <2> QED BY <1>11, <2>3, <2>4
<1>12. CASE Install
  BY <1>12, <1>t DEF Install, Phase, Exchange, Finalize, Answer, server
<1>13. CASE InstallFails \/ ApplyEnrollmentFails
  BY <1>13, <1>j, EndsLeave DEF InstallFails, ApplyEnrollmentFails, server
<1>14. CASE Apply
  <2>1. reply \in Issue /\ mem \in Identity
    BY <1>14, <1>t DEF Apply, Phase, Finalize, TypeOK
  <2>2. cur.name = "bootstrap" => saved'.consumed /\ mem'.consumed
    BY <1>14, <2>1, AfterIsIdentity DEF Apply, ApplyCredentialUpdate
  <2> QED BY <1>14, <1>t, <2>2 DEF Apply, Phase, Exchange, Finalize, Answer, server
<1>15. CASE Clear
  <2>1. pend' = Absent
    BY <1>15 DEF Clear
  <2>2. CASE pc' = "consume" /\ up' = up
    BY <1>15, <1>n, <1>t, <2>1, <2>2 DEF Clear, Phase, Exchange, Finalize
  <2>3. CASE Succeed
    BY <1>k, <2>1, <2>3, EndsLeave
  <2> QED BY <1>15, <2>2, <2>3 DEF Clear
<1>16. CASE Consume
  BY <1>16, <1>j, EndsLeave DEF Consume, server
<1>17. ASSUME NEW r \in Rotators, ApplyRotation(r) \/ ApplyRotationFails(r) PROVE Phase'
  <2>1. rot[r] \in Issue /\ mem \in Identity
    BY <1>17, <1>t DEF ApplyRotation, ApplyRotationFails, TypeOK
  <2>2. /\ mem.consumed => mem'.consumed
        /\ mem.consumed /\ saved.consumed => saved'.consumed
    BY <1>17, <2>1, AfterIsIdentity
       DEF ApplyRotation, ApplyRotationFails, ApplyCredentialUpdate, ApplyFails
  <2>3. UNCHANGED <<pend, up, recovery, server>>
    BY <1>17 DEF ApplyRotation, ApplyRotationFails
  <2> QED BY <1>t, <2>2, <2>3 DEF Phase, Answer, recovery, server
<1>18. CASE Crash
  BY <1>18, <1>j DEF Crash, Reset, files, server
<1>19. CASE Restart
  <2>1. pc = "idle"
    BY <1>19, <1>t DEF Restart, Phase
  <2> QED BY <1>19, <1>j, <2>1 DEF Restart, files, recovery, server
<1>20. CASE UNCHANGED vars
  BY <1>20, <1>t DEF vars, files, recovery, server, Phase, Answer
<1>21. CASE InstallRenewal \/ RenewalFails
  BY <1>21, <1>t, RenewalLeaves DEF Phase, Answer
<1> QED
  BY <1>1, <1>2, <1>3, <1>4, <1>5, <1>6, <1>7, <1>8, <1>9, <1>10, <1>11, <1>12, <1>13, <1>14,
     <1>15, <1>16, <1>17, <1>18, <1>19, <1>20, <1>21 DEF Next, Aside

\* A rotation leaves the mark of the bootstrap token as it is in memory.
LEMMA RotationLeaves ==
  ASSUME EInv, NEW r \in Rotators, ApplyRotation(r) \/ ApplyRotationFails(r)
  PROVE  /\ UNCHANGED <<pend, cert, up, pc, methods, cur, reply, server, enrolled>>
         /\ mem'.consumed = mem.consumed
         /\ mem.consumed /\ saved.consumed => saved'.consumed
<1>1. rot[r] \in Issue /\ mem \in Identity
  BY DEF ApplyRotation, ApplyRotationFails, EInv, TypeOK
<1>2. UNCHANGED <<pend, cert, up, pc, methods, cur, reply, server, enrolled>>
  BY DEF ApplyRotation, ApplyRotationFails, recovery
<1>3. (mem' = mem \/ mem' = After(mem, rot[r], "credential_rotation"))
      /\ saved' \in {saved, After(mem, rot[r], "credential_rotation")}
  BY DEF ApplyRotation, ApplyRotationFails, ApplyCredentialUpdate, ApplyFails
<1>4. /\ After(mem, rot[r], "credential_rotation").consumed = mem.consumed
      /\ mem.consumed => After(mem, rot[r], "credential_rotation").consumed
  BY <1>1, AfterIsIdentity
<1> QED BY <1>2, <1>3, <1>4

LEMMA OffersNext == EInv /\ [Next]_vars => Offers'
<1> SUFFICES ASSUME EInv, [Next]_vars PROVE Offers'
  OBVIOUS
<1>t. TypeOK /\ Phase /\ Offers
  BY DEF EInv
<1>i. ASSUME pc' \notin {"choose", "send"} PROVE Offers'
  BY <1>i DEF Offers
<1>u. ASSUME UNCHANGED <<pc, methods, cur>>, mem'.consumed = mem.consumed PROVE Offers'
  BY <1>t, <1>u DEF Offers
<1>1. CASE StartIdentity \/ MaybeRecoverIdentity
  <2>1. up /\ pc = "idle" /\ mem' = mem
    BY <1>1 DEF StartIdentity, MaybeRecoverIdentity
  <2>2. CASE UNCHANGED <<up, backoff, recovery>>
    BY <1>i, <2>1, <2>2 DEF recovery
  <2>3. CASE Recover
    <3>1. /\ pc' = "send" => Sound(cur') /\ (cur'.token = Boot => ~mem.consumed)
          /\ pc' \in {"send", "choose"} => Listed(methods')
      BY <2>1, <2>3, RecoverLeaves
    <3> QED BY <2>1, <3>1 DEF Offers, Listed
  <2> QED BY <1>1, <2>2, <2>3 DEF StartIdentity, MaybeRecoverIdentity
<1>2. CASE Aside
  BY <1>2, <1>u, AsideLeaves
<1>3. CASE Choose
  <2>1. /\ pc = "choose" /\ methods # <<>> /\ mem' = mem
        /\ cur' = Head(methods) /\ methods' = Tail(methods) /\ pc' = "send"
        /\ methods \in Seq([name : Names, token : Tokens])
    BY <1>3, <1>t DEF Choose, TypeOK
  <2>2. /\ cur' = methods[1] /\ Len(methods) \in Nat /\ Len(methods) # 0
        /\ Len(methods') = Len(methods) - 1
        /\ \A j \in 1 .. Len(methods') : methods'[j] = methods[j + 1]
    BY <2>1, HeadTailProperties
  <2>3. 1 \in 1 .. Len(methods) /\ \A j \in 1 .. Len(methods') : j + 1 \in 1 .. Len(methods)
    BY <2>2
  <2> QED BY <1>t, <2>1, <2>2, <2>3 DEF Offers
<1>4. CASE Refused
  BY <1>4, <1>t DEF Refused, Offers
<1>5. ASSUME NEW r \in Rotators, ApplyRotation(r) \/ ApplyRotationFails(r) PROVE Offers'
  BY <1>5, <1>u, RotationLeaves
<1>6. CASE ChooseFails \/ OutOfMethods \/ Unanswered \/ Incompatible \/ RefusedFails
  BY <1>6, <1>i, EndsLeave DEF ChooseFails, OutOfMethods, Unanswered, Incompatible, RefusedFails
<1>7. CASE StoreFails \/ InstallFails \/ ApplyEnrollmentFails \/ ClearFails \/ Consume
  BY <1>7, <1>i, EndsLeave DEF StoreFails, InstallFails, ApplyEnrollmentFails, ClearFails, Consume
<1>8. CASE Served \/ Store \/ Install \/ Apply \/ Clear
  BY <1>8, <1>i, EndsLeave DEF Served, Store, Install, Apply, Clear
<1>9. CASE Crash
  BY <1>9, <1>i DEF Crash, Reset
<1>10. CASE Restart
  BY <1>10, <1>i, <1>t DEF Restart, Phase, recovery
<1>11. CASE UNCHANGED vars
  BY <1>11, <1>u DEF vars, recovery
<1>12. CASE InstallRenewal \/ RenewalFails
  BY <1>12, <1>u, RenewalLeaves
<1> QED
  BY <1>1, <1>2, <1>3, <1>4, <1>5, <1>6, <1>7, <1>8, <1>9, <1>10, <1>11, <1>12 DEF Next, Aside

\* Which transaction is on disk after a step.
LEMMA PendLeaves ==
  ASSUME EInv, [Next]_vars
  PROVE  \/ pend'.id = pend.id /\ pend'.method = pend.method
         \/ pend' = Absent /\ ((MayRefuse /\ pc = "send") \/ pc = "clear")
         \/ pend'.id = FreshId /\ pend'.method \in Names /\ pc = "choose" /\ UNCHANGED server
<1>t. TypeOK /\ Phase
  BY DEF EInv
<1>1. CASE StartIdentity \/ MaybeRecoverIdentity \/ OutOfMethods \/ Served \/ Unanswered
  BY <1>1 DEF StartIdentity, MaybeRecoverIdentity, OutOfMethods, Served, Unanswered, files
<1>2. CASE Aside
  BY <1>2, AsideLeaves
<1>3. CASE Choose \/ ChooseFails
  <2>1. pc = "choose" /\ methods # <<>> /\ UNCHANGED server
    BY <1>3 DEF Choose, ChooseFails
  <2>2. Head(methods).name \in Names
    <3>1. methods \in Seq([name : Names, token : Tokens])
      BY <1>t DEF TypeOK
    <3>2. Head(methods) \in [name : Names, token : Tokens]
      BY <2>1, <3>1, HeadTailProperties
    <3> QED BY <3>2
  <2>3. pend' \in {pend, [id |-> FreshId, method |-> Head(methods).name, reply |-> NoIssue]}
    BY <1>3 DEF Choose, ChooseFails
  <2> QED BY <2>1, <2>2, <2>3
<1>4. CASE Refused \/ Incompatible \/ RefusedFails \/ Clear \/ ClearFails
  BY <1>4 DEF Refused, Incompatible, RefusedFails, Clear, ClearFails
<1>5. CASE Store \/ StoreFails
  BY <1>5, <1>t DEF Store, StoreFails, TypeOK
<1>6. CASE Install \/ InstallFails \/ Apply \/ ApplyEnrollmentFails \/ Consume \/ Crash \/ Restart
  BY <1>6 DEF Install, InstallFails, Apply, ApplyEnrollmentFails, Consume, Crash, Restart, files
<1>7. ASSUME NEW r \in Rotators, ApplyRotation(r) \/ ApplyRotationFails(r)
      PROVE  pend' = pend
  BY <1>7 DEF ApplyRotation, ApplyRotationFails
<1>8. CASE UNCHANGED vars
  BY <1>8 DEF vars, files
<1>9. CASE InstallRenewal \/ RenewalFails
  BY <1>9, RenewalLeaves
<1> QED BY <1>1, <1>2, <1>3, <1>4, <1>5, <1>6, <1>7, <1>8, <1>9 DEF Next, Aside

\* What the server has on record after a step.
LEMMA ServerLeaves ==
  ASSUME EInv, [Next]_vars
  PROVE  \/ UNCHANGED <<known, spent>> /\ issued' \in {issued, issued + 1}
         \/ /\ up /\ pc = "send" /\ UNCHANGED <<pend, mem, saved>> /\ \E a \in Issue : Accept(a)
<1>1. CASE Served \/ Unanswered
  BY <1>1 DEF Served, Unanswered, files, server
<1>2. CASE Aside
  <2>1. issued' \in {issued, issued + 1}
    BY <1>2 DEF Aside, BackoffEnds, Reject, Expire, RenewCertificate, Rotate, server
  <2> QED BY <1>2, <2>1, AsideLeaves
<1>3. CASE StartIdentity \/ MaybeRecoverIdentity \/ Choose \/ ChooseFails \/ OutOfMethods
  BY <1>3 DEF StartIdentity, MaybeRecoverIdentity, Choose, ChooseFails, OutOfMethods, server
<1>4. CASE Refused \/ Incompatible \/ RefusedFails \/ Store \/ StoreFails \/ Install \/ InstallFails
  BY <1>4 DEF Refused, Incompatible, RefusedFails, Store, StoreFails, Install, InstallFails, server
<1>5. CASE Apply \/ ApplyEnrollmentFails \/ Clear \/ ClearFails \/ Consume \/ Crash \/ Restart
  BY <1>5 DEF Apply, ApplyEnrollmentFails, Clear, ClearFails, Consume, Crash, Restart, server
<1>6. ASSUME NEW r \in Rotators, ApplyRotation(r) \/ ApplyRotationFails(r)
      PROVE  UNCHANGED server
  BY <1>6 DEF ApplyRotation, ApplyRotationFails
<1>7. CASE UNCHANGED vars
  BY <1>7 DEF vars, server
<1>8. CASE InstallRenewal \/ RenewalFails
  BY <1>8, RenewalLeaves
<1> QED BY <1>1, <1>2, <1>3, <1>4, <1>5, <1>6, <1>7, <1>8 DEF Next, Aside, server

LEMMA LedgerNext == EInv /\ [Next]_vars => Ledger'
<1> SUFFICES ASSUME EInv, [Next]_vars PROVE Ledger'
  OBVIOUS
<1>t. TypeOK /\ Phase /\ Offers /\ Ledger
  BY DEF EInv
<1>f. /\ issued \in Nat /\ spent \in Ids \cup {None} /\ None \notin Ids
      /\ known \in [Ids -> [cred : Numbers, token : Numbers, with : Tokens]] /\ Numbers \subseteq Nat
  BY <1>t, Constants DEF TypeOK
<1>a. Answered \in SUBSET Ids /\ IsFiniteSet(Answered) /\ Cardinality(Answered) \in Nat
  <2>1. IsFiniteSet(Ids)
    BY Constants, FS_Interval DEF Ids
  <2>2. Answered \in SUBSET Ids
    BY DEF Answered
  <2> QED BY <2>1, <2>2, FS_Subset, FS_CardinalityType
\* The transaction that the bootstrap token was spent on keeps its method.
<1>m. ASSUME spent' = spent, spent # None, pend'.id = spent PROVE pend'.method = "bootstrap"
  <2>1. FreshId # spent
    BY <1>m, <1>t, FreshIdIsFresh DEF Ledger
  <2>2. Absent.id = None
    BY DEF Absent
  <2> QED BY <1>m, <1>t, <2>1, <2>2, PendLeaves DEF Ledger
<1>1. CASE UNCHANGED <<known, spent>> /\ issued' \in {issued, issued + 1}
  <2>1. Answered' = Answered
    BY <1>1 DEF Answered
  <2>2. Cardinality(Answered)' <= issued'
    <3>1. Cardinality(Answered) <= issued
      BY <1>t DEF Ledger
    <3> QED BY <1>1, <1>a, <1>f, <2>1, <3>1
  <2>3. \A e \in Ids : known[e].cred <= issued' /\ known[e].token <= issued'
    <3>1. \A e \in Ids : /\ known[e].cred <= issued /\ known[e].token <= issued
                         /\ known[e].cred \in Nat /\ known[e].token \in Nat
      BY <1>f, <1>t DEF Ledger
    <3> QED BY <1>1, <1>f, <3>1
  <2>4. \A e \in Ids : known[e].cred = None => known[e] = Unknown
    BY <1>t DEF Ledger
  <2>5. spent # None => known[spent].cred # None /\ known[spent].with = Boot
    BY <1>t DEF Ledger
  <2> QED BY <1>1, <1>m, <2>2, <2>3, <2>4, <2>5 DEF Ledger
<1>2. ASSUME NEW a \in Issue, up, pc = "send", pend' = pend, Accept(a) PROVE Ledger'
  <2>1. /\ pend.id \in Ids /\ issued' \in {issued, issued + 1}
        /\ known'[pend.id].cred = a.cred /\ known'[pend.id].token = a.token
        /\ a.cred <= issued' /\ a.token <= issued'
        /\ \A e \in Ids \ {pend.id} : known'[e] = known[e]
        /\ \/ UNCHANGED server /\ known[pend.id].cred # None
           \/ /\ known[pend.id].cred = None /\ issued' = issued + 1
              /\ cur.token = Boot => spent = None
              /\ spent' = (IF cur.token = Boot THEN pend.id ELSE spent)
              /\ known'[pend.id].with = cur.token
    BY <1>2, AcceptLeaves
  <2>2. CASE UNCHANGED server
    BY <1>1, <2>2 DEF server
  <2>3. CASE ~UNCHANGED server
    <3>1. /\ known[pend.id].cred = None /\ issued' = issued + 1
          /\ cur.token = Boot => spent = None
          /\ spent' = (IF cur.token = Boot THEN pend.id ELSE spent)
          /\ known'[pend.id].with = cur.token
      BY <2>1, <2>3
    <3>2. a.cred # None
      BY Constants DEF Issue, None
    <3>3. Answered' = Answered \cup {pend.id} /\ pend.id \notin Answered
      BY <2>1, <3>1, <3>2 DEF Answered
    <3>4. Cardinality(Answered)' <= issued'
      <4>1. Cardinality(Answered \cup {pend.id}) = Cardinality(Answered) + 1
        BY <1>a, <3>3, FS_AddElement
      <4>2. Cardinality(Answered) <= issued
        BY <1>t DEF Ledger
      <4> QED BY <1>a, <1>f, <3>1, <3>3, <4>1, <4>2
    <3>5. ASSUME NEW e \in Ids
          PROVE  /\ known'[e].cred = None => known'[e] = Unknown
                 /\ known'[e].cred <= issued' /\ known'[e].token <= issued'
      <4>1. CASE e = pend.id
        BY <2>1, <3>2, <4>1
      <4>2. CASE e # pend.id
        <5>1. /\ known[e].cred <= issued /\ known[e].token <= issued
              /\ known[e].cred \in Nat /\ known[e].token \in Nat
          BY <1>f, <1>t DEF Ledger
        <5> QED BY <1>f, <1>t, <2>1, <3>1, <4>2, <5>1 DEF Ledger
      <4> QED BY <4>1, <4>2
    <3>6. CASE cur.token = Boot
      <4>1. spent' = pend.id /\ cur.name = "bootstrap" /\ cur.name = pend.method
        BY <1>2, <1>t, <3>1, <3>6 DEF Offers, Sound, Phase, Exchange
      <4> QED BY <1>2, <2>1, <3>1, <3>2, <3>4, <3>5, <3>6, <4>1 DEF Ledger
    <3>7. CASE cur.token # Boot
      <4>1. spent' = spent
        BY <3>1, <3>7
      <4>2. spent # None => known'[spent].cred # None /\ known'[spent].with = Boot
        <5>1. spent # None => known[spent].cred # None /\ known[spent].with = Boot
          BY <1>t DEF Ledger
        <5>2. spent # None => spent \in Ids \ {pend.id}
          BY <1>f, <3>1, <5>1
        <5> QED BY <2>1, <5>1, <5>2
      <4> QED BY <1>m, <3>4, <3>5, <4>1, <4>2 DEF Ledger
    <3> QED BY <3>6, <3>7
  <2> QED BY <2>2, <2>3
<1> QED BY <1>1, <1>2, ServerLeaves

\* Once the bootstrap token is marked as consumed it stays so.
LEMMA ConsumedStays ==
  ASSUME EInv, [Next]_vars, saved.consumed, up => mem.consumed
  PROVE  saved'.consumed /\ (up' => mem'.consumed)
<1>t. TypeOK /\ Phase
  BY DEF EInv
<1>1. CASE StartIdentity \/ MaybeRecoverIdentity \/ OutOfMethods \/ Served \/ Unanswered
  BY <1>1 DEF StartIdentity, MaybeRecoverIdentity, OutOfMethods, Served, Unanswered, files
<1>2. CASE Aside
  BY <1>2, AsideLeaves
<1>3. CASE Choose \/ ChooseFails \/ Refused \/ Incompatible \/ RefusedFails \/ Clear \/ ClearFails
  BY <1>3 DEF Choose, ChooseFails, Refused, Incompatible, RefusedFails, Clear, ClearFails
<1>4. CASE Store \/ StoreFails \/ Install \/ InstallFails \/ Consume
  BY <1>4 DEF Store, StoreFails, Install, InstallFails, Consume
<1>5. CASE Apply \/ ApplyEnrollmentFails
  <2>1. up /\ reply \in Issue /\ mem \in Identity
    BY <1>5, <1>t DEF Apply, ApplyEnrollmentFails, Phase, Finalize, TypeOK
  <2>2. After(mem, reply, cur.name).consumed
    BY <2>1, AfterIsIdentity
  <2>3. /\ saved' \in {saved, After(mem, reply, cur.name)}
        /\ mem' \in {mem, After(mem, reply, cur.name)}
    BY <1>5 DEF Apply, ApplyEnrollmentFails, ApplyCredentialUpdate, ApplyFails
  <2> QED BY <2>1, <2>2, <2>3
<1>6. ASSUME NEW r \in Rotators, ApplyRotation(r) \/ ApplyRotationFails(r)
      PROVE  saved'.consumed /\ mem'.consumed
  <2>1. up
    BY <1>6 DEF ApplyRotation, ApplyRotationFails
  <2> QED BY <1>6, <2>1, RotationLeaves
<1>7. CASE Crash \/ Restart
  BY <1>7 DEF Crash, Restart, files
<1>8. CASE UNCHANGED vars
  BY <1>8 DEF vars, files
<1>9. CASE InstallRenewal \/ RenewalFails
  BY <1>9, RenewalLeaves
<1> QED BY <1>1, <1>2, <1>3, <1>4, <1>5, <1>6, <1>7, <1>8, <1>9 DEF Next, Aside

LEMMA RedeemableNext == EInv /\ [Next]_vars => Redeemable'
<1> SUFFICES ASSUME EInv, [Next]_vars, spent' # None
             PROVE  pend'.id = spent' \/ (saved'.consumed /\ (up' => mem'.consumed))
  BY DEF Redeemable
<1>t. TypeOK /\ Phase /\ Offers /\ Ledger /\ Redeemable
  BY DEF EInv
<1>1. CASE spent # spent'
  <2>1. up /\ pc = "send" /\ pend' = pend /\ \E a \in Issue : Accept(a)
    BY <1>1, ServerLeaves
  <2>2. spent' = pend.id
    BY <1>1, <2>1, AcceptLeaves DEF server
  <2> QED BY <2>1, <2>2
<1>2. CASE spent = spent' /\ pend.id = spent /\ pend'.id # pend.id
  <2>1. /\ known[spent].with = Boot /\ pend.method = "bootstrap" /\ spent # None
        /\ known[spent].cred # None
    BY <1>2, <1>t DEF Ledger
  <2>2. pc # "choose"
    BY <1>2, <1>t, <2>1 DEF Phase
  \* The server does not refuse the repetition.
  <2>3. ~(pc = "send" /\ MayRefuse)
    <3>1. pc = "send" => cur.token = Boot
      BY <1>t, <2>1 DEF Phase, Exchange, Offers, Sound
    <3> QED BY <1>2, <2>1, <3>1 DEF MayRefuse
  <2>4. pc = "clear"
    BY <1>2, <2>2, <2>3, PendLeaves
  <2>5. saved.consumed /\ mem.consumed
    BY <1>t, <2>1, <2>4 DEF Phase, Exchange
  <2> QED BY <2>5, ConsumedStays
<1>3. CASE spent = spent' /\ pend.id = spent /\ pend'.id = pend.id
  BY <1>3
<1>4. CASE spent = spent' /\ pend.id # spent
  BY <1>4, <1>t, ConsumedStays DEF Redeemable
<1> QED BY <1>1, <1>2, <1>3, <1>4

LEMMA RenewedNext == EInv /\ [Next]_vars => Renewed'
<1> SUFFICES ASSUME EInv, [Next]_vars PROVE ren' = ren \/ ren' = None \/ ren' > MaxIssued
  BY DEF EInv, Renewed
<1>1. CASE StartIdentity \/ MaybeRecoverIdentity \/ OutOfMethods \/ Served \/ Unanswered
  BY <1>1 DEF StartIdentity, MaybeRecoverIdentity, OutOfMethods, Served, Unanswered, aside
<1>2. CASE BackoffEnds \/ Reject \/ Expire \/ Crash \/ Restart
  BY <1>2 DEF BackoffEnds, Reject, Expire, Crash, Restart, aside
<1>3. CASE Choose \/ ChooseFails \/ Refused \/ Incompatible \/ RefusedFails \/ Clear \/ ClearFails
  BY <1>3 DEF Choose, ChooseFails, Refused, Incompatible, RefusedFails, Clear, ClearFails, aside
<1>4. CASE Store \/ StoreFails \/ Install \/ InstallFails \/ Consume
  BY <1>4 DEF Store, StoreFails, Install, InstallFails, Consume, aside
<1>5. CASE Apply \/ ApplyEnrollmentFails
  BY <1>5 DEF Apply, ApplyEnrollmentFails, aside
<1>6. ASSUME NEW r \in Rotators, Rotate(r) \/ ApplyRotation(r) \/ ApplyRotationFails(r)
      PROVE  ren' = ren
  BY <1>6 DEF Rotate, ApplyRotation, ApplyRotationFails
<1>7. CASE RenewCertificate
  <2>1. issued \in Nat /\ MaxIssued \in Nat
    BY Constants DEF EInv, TypeOK
  <2> QED BY <1>7, <2>1 DEF RenewCertificate
<1>8. CASE InstallRenewal \/ RenewalFails
  BY <1>8 DEF InstallRenewal, RenewalFails
<1>9. CASE UNCHANGED vars
  BY <1>9 DEF vars, aside
<1> QED BY <1>1, <1>2, <1>3, <1>4, <1>5, <1>6, <1>7, <1>8, <1>9 DEF Next

LEMMA FitsNext == EInv /\ [Next]_vars => Fits'
<1> SUFFICES ASSUME EInv, [Next]_vars PROVE Fits'
  OBVIOUS
<1>t. TypeOK /\ Phase /\ Renewed /\ Fits
  BY DEF EInv
<1>n. NoIssue \notin Issue /\ Absent.reply = NoIssue
  BY Constants DEF NoIssue, Issue, Absent, None
\* The recovery ends or waits and certificate and credential are left alone.
<1>i. ASSUME pc' \notin {"apply", "clear"}, UNCHANGED <<cert, enrolled>>,
             pend'.reply = NoIssue => pend.reply = NoIssue \/ pc = "clear"
      PROVE  Fits'
  BY <1>i, <1>t DEF Fits
<1>1. CASE StartIdentity \/ MaybeRecoverIdentity
  <2>1. up /\ pc = "idle" /\ UNCHANGED <<pend, cert, enrolled>>
    BY <1>1 DEF StartIdentity, MaybeRecoverIdentity, files, history
  <2>2. pc' \notin {"apply", "clear"}
    BY <1>1, <2>1, RecoverLeaves DEF StartIdentity, MaybeRecoverIdentity, recovery
  <2> QED BY <1>i, <2>1, <2>2
<1>2. CASE Aside
  BY <1>2, <1>t, AsideLeaves DEF Fits
<1>3. CASE Choose \/ ChooseFails \/ OutOfMethods
  <2>1. pend.reply = NoIssue
    BY <1>3, <1>t DEF Choose, ChooseFails, OutOfMethods, Phase
  <2>2. UNCHANGED <<cert, enrolled>> /\ pc' \in {"send", "idle"}
    BY <1>3, EndsLeave DEF Choose, ChooseFails, OutOfMethods, files, history
  <2> QED BY <1>i, <2>1, <2>2
<1>4. CASE Served \/ Unanswered \/ Refused \/ Incompatible \/ RefusedFails
  <2>1. pend.reply = NoIssue
    BY <1>4, <1>t DEF Served, Unanswered, Refused, Incompatible, RefusedFails, Phase
  <2>2. UNCHANGED <<cert, enrolled>> /\ pc' \in {"answered", "choose", "idle"}
    BY <1>4, EndsLeave DEF Served, Unanswered, Refused, Incompatible, RefusedFails, files, history
  <2> QED BY <1>i, <2>1, <2>2
<1>5. CASE Store \/ StoreFails
  <2>1. pend.reply = NoIssue
    BY <1>5, <1>t DEF Store, StoreFails, Phase
  <2>2. UNCHANGED <<cert, enrolled>> /\ pc' \in {"install", "idle"}
    BY <1>5, EndsLeave DEF Store, StoreFails, history
  <2> QED BY <1>i, <2>1, <2>2
<1>6. CASE Install \/ InstallFails
  <2>1. pend.reply # NoIssue /\ pend' = pend /\ pc' \in {"apply", "idle"}
    BY <1>6, <1>n, <1>t, EndsLeave DEF Install, InstallFails, Phase, Finalize
  <2>2. pc' = "apply" => cert' = reply.cred /\ reply' = reply
    BY <1>6, EndsLeave DEF Install, InstallFails
  <2> QED BY <2>1, <2>2 DEF Fits
<1>7. CASE Apply
  <2>1. /\ pend.reply # NoIssue /\ pend' = pend /\ pc' = "clear"
        /\ cert = reply.cred \/ cert > MaxIssued
    BY <1>7, <1>n, <1>t DEF Apply, Phase, Finalize, Fits
  <2> QED BY <1>7, <2>1 DEF Apply, Fits
<1>8. CASE ApplyEnrollmentFails
  BY <1>8, <1>i, EndsLeave DEF ApplyEnrollmentFails
<1>9. CASE Clear \/ ClearFails
  <2>1. pc = "clear" /\ UNCHANGED <<cert, enrolled>> /\ pc' \in {"consume", "idle"}
    BY <1>9, EndsLeave DEF Clear, ClearFails, history
  <2> QED BY <1>i, <2>1
<1>10. CASE Consume
  BY <1>10, <1>i, EndsLeave DEF Consume, history
<1>11. ASSUME NEW r \in Rotators, ApplyRotation(r) \/ ApplyRotationFails(r) PROVE Fits'
  BY <1>11, <1>t, RotationLeaves DEF Fits
<1>12. CASE Crash
  BY <1>12, <1>i DEF Crash, Reset, files, history
<1>13. CASE Restart
  BY <1>13, <1>t DEF Restart, files, recovery, history, Fits
<1>14. CASE UNCHANGED vars
  BY <1>14, <1>t DEF vars, files, recovery, history, Fits
<1>15. CASE InstallRenewal \/ RenewalFails
  <2>1. cert' = cert \/ cert' > MaxIssued
    BY <1>15, <1>t DEF InstallRenewal, RenewalFails, Renewed
  <2> QED BY <1>15, <1>t, <2>1, RenewalLeaves DEF Fits
<1> QED
  BY <1>1, <1>2, <1>3, <1>4, <1>5, <1>6, <1>7, <1>8, <1>9, <1>10, <1>11, <1>12, <1>13, <1>14,
     <1>15 DEF Next, Aside

LEMMA EInvAlways == Spec => []EInv
<1>1. EInv /\ [Next]_vars => EInv'
  BY TypeNext, PhaseNext, OffersNext, LedgerNext, RedeemableNext, RenewedNext, FitsNext
     DEF EInv
<1> QED BY <1>1, EInvInit, PTL DEF Spec

-----------------------------------------------------------------------------
(* What follows. *)

\* Every reachable state of the enrollment is well typed, and a request is only
\* ever sent for a transaction on disk and with a token.
THEOREM EnrollmentTypeCorrect == Spec => []TypeOK
BY EInvAlways, PTL DEF EInv

\* The bootstrap token is not wasted: the server refuses to hear of it again, so
\* the agent keeps the transaction it was spent on, under its id and with its
\* key, until the identity is in the state file.
THEOREM SpentTokenIsNotWasted == Spec => []SpentTokenIsRedeemed
<1>1. EInv => SpentTokenIsRedeemed
  BY DEF EInv, Redeemable, SpentTokenIsRedeemed
<1> QED BY <1>1, EInvAlways, PTL

\* A request that carries the spent bootstrap token is the repetition of the one
\* it was spent on: consumed in memory and gone from the list, or still pending.
THEOREM BootstrapTokenIsSingleUse == Spec => []SpentTokenIsNotReused
<1>1. EInv => SpentTokenIsNotReused
  BY DEF EInv, Redeemable, SpentTokenIsNotReused, Offers, Phase
<1> QED BY <1>1, EInvAlways, PTL

\* Whenever no answered enrollment waits on disk, the certificate is that of the
\* enrollment applied last or one that was renewed since, whatever fails or
\* crashes in between and however a renewal (maybeRenewCertificate) falls in with
\* a recovery.
THEOREM IdentityStaysWhole == Spec => []IdentityIsWhole
<1>1. EInv => IdentityIsWhole
  BY DEF EInv, Fits, IdentityIsWhole
<1> QED BY <1>1, EInvAlways, PTL

-----------------------------------------------------------------------------
(* The newest renewal token, until two rotations cross. *)

\* Applying an answer keeps the newest token, if no other answer on its way is
\* older: whether the newest token is counted again (memory) or not (a file that
\* was written although the write failed).
LEMMA StaysHeld ==
  ASSUME NEW i \in Identity, NEW a \in Issue, NEW m, NEW n \in Nat, NEW S, NEW T,
         HeldIn(i, S, n), a.token \in S, T \subseteq S \cup {None}, S \subseteq Nat,
         a.token # None /\ a.token < n => \A s \in T : s = None \/ s = a.token \/ s >= n
  PROVE  /\ HeldIn(After(i, a, m), T, n)
         /\ HeldIn(After(i, a, m), T,
                   IF After(i, a, m).renewal > n THEN After(i, a, m).renewal ELSE n)
<1> DEFINE j == After(i, a, m)
           N == IF j.renewal > n THEN j.renewal ELSE n
<1>1. i.renewal \in Nat /\ i.previous \in Nat /\ a.token \in Nat /\ None \in Nat /\ None = 0
  BY Constants DEF Identity, Issue, None
<1>2. /\ j.renewal = (IF a.token = None THEN i.renewal ELSE a.token)
      /\ j.previous = (IF j.renewal # None /\ j.renewal # i.renewal THEN i.renewal ELSE i.previous)
  BY DEF After
<1> HIDE DEF j
<1>3. CASE a.token = None \/ a.token = i.renewal
  <2>1. j.renewal = i.renewal /\ j.previous = i.previous
    BY <1>1, <1>2, <1>3
  <2>2. \A s \in T : Harmless(s, i, n) \/ n <= i.renewal
    BY <1>1 DEF HeldIn, Harmless
  <2>3. HeldIn(j, T, n)
    BY <1>1, <2>1, <2>2 DEF HeldIn, Harmless
  <2>4. HeldIn(j, T, N)
    BY <1>1, <2>1, <2>3 DEF HeldIn
  <2> QED BY <2>3, <2>4 DEF j
<1>4. CASE a.token # None /\ a.token # i.renewal
  <2>1. j.renewal = a.token /\ j.previous = i.renewal
    BY <1>1, <1>2, <1>4
  <2>2. CASE a.token >= n
    <3>1. HeldIn(j, T, n) /\ HeldIn(j, T, N)
      BY <1>1, <2>1, <2>2 DEF HeldIn
    <3> QED BY <3>1 DEF j
  <2>3. CASE a.token < n
    <3>1. n <= i.renewal
      BY <1>1, <1>4, <2>3 DEF HeldIn, Harmless
    <3>2. HeldIn(j, T, n)
      BY <1>4, <2>1, <2>3, <3>1 DEF HeldIn, Harmless
    <3>3. N = n
      BY <1>1, <2>1, <2>3
    <3> QED BY <3>2, <3>3 DEF j
  <2> QED BY <1>1, <2>2, <2>3
<1> QED BY <1>3, <1>4

\* The invariant holds of a smaller or less urgent set of answers on their way.
LEMMA FewerIsHeld ==
  ASSUME NEW i, NEW n \in Nat, NEW S, NEW T, HeldIn(i, S, n),
         \A t \in T : t \in S \/ t = None \/ t >= n
  PROVE  HeldIn(i, T, n)
BY DEF HeldIn, Harmless

LEMMA NumbersHeld ==
  ASSUME EInv
  PROVE  /\ newest \in Nat /\ issued \in Nat /\ Due \in Nat /\ Due <= issued
         /\ \A r \in Rotators : rot[r].token \in Nat
         /\ Coming \subseteq Nat /\ mem.renewal \in Nat /\ saved.renewal \in Nat
<1>1. NoIssue.token \in Nat /\ \A a \in Issue : a.token \in Nat
  BY Constants DEF NoIssue, Issue
<1>2. /\ newest \in Nat /\ issued \in Nat /\ pend.id \in Ids \cup {None}
      /\ \A r \in Rotators : rot[r] \in Issue \cup {NoIssue}
      /\ known \in [Ids -> [cred : Numbers, token : Numbers, with : Tokens]]
  BY Constants DEF EInv, TypeOK
<1>6. mem.renewal \in Nat /\ saved.renewal \in Nat
  BY Constants DEF EInv, TypeOK, Identity
<1>3. pend.id \in Ids => known[pend.id].token \in Nat /\ known[pend.id].token <= issued
  BY <1>2, Constants DEF EInv, Ledger
<1>4. Due \in Nat /\ Due <= issued
  BY <1>2, <1>3, Constants DEF Due, None
<1>5. \A r \in Rotators : rot[r].token \in Nat
  BY <1>1, <1>2
<1> QED BY <1>2, <1>4, <1>5, <1>6 DEF Coming

LEMMA NewestInit == Init => NewestIsHeld
<1> SUFFICES ASSUME Init PROVE NewestIsHeld
  OBVIOUS
<1>1. /\ newest = 0 /\ issued = 0 /\ ~up /\ Due = 0 /\ saved.renewal = 0 /\ mem.renewal = 0
      /\ \A r \in Rotators : rot[r].token = 0
  BY DEF Init, Due, None, Absent, NoIdentity, NoIssue
<1> QED BY <1>1 DEF NewestIsHeld, HeldIn, None

\* Which token the transaction on disk may bring after a step: the same one as
\* before, none, or a new one.
LEMMA DueLeaves ==
  ASSUME EInv, [Next]_vars
  PROVE  Due' = Due \/ Due' = None \/ Due' = issued + 1
<1>1. CASE UNCHANGED known
  <2>1. known[FreshId].token = None
    BY FreshIdIsFresh DEF EInv, Ledger, Unknown
  <2>2. Absent.id = None
    BY DEF Absent
  <2> QED BY <1>1, <2>1, <2>2, PendLeaves DEF Due
<1>2. CASE up /\ pc = "send" /\ pend' = pend /\ \E a \in Issue : Accept(a)
  <2>1. PICK a \in Issue : Accept(a)
    BY <1>2
  <2>2. /\ pend.id \in Ids /\ known'[pend.id].token = a.token
        /\ UNCHANGED server \/ a.token = issued + 1
    BY <1>2, <2>1, AcceptLeaves
  <2>3. issued \in Nat
    BY NumbersHeld
  <2>4. CASE UNCHANGED server
    BY <1>1, <2>4 DEF server
  <2>5. CASE a.token = issued + 1
    BY <1>2, <2>2, <2>3, <2>5, Constants DEF Due
  <2> QED BY <2>2, <2>4, <2>5
<1> QED BY <1>1, <1>2, ServerLeaves

\* A step that applies nothing.
LEMMA NothingApplied ==
  ASSUME EInv, EInv', NewestIsHeld, [Next]_vars,
         UNCHANGED <<mem, saved, newest, rot>>, up' => up
  PROVE  NewestIsHeld'
<1>1. /\ newest \in Nat /\ issued \in Nat /\ Due \in Nat
      /\ \A r \in Rotators : rot[r].token \in Nat
      /\ mem.renewal \in Nat /\ saved.renewal \in Nat
  BY NumbersHeld
<1>2. issued' >= issued /\ issued' \in Nat
  <2>1. issued' \in {issued, issued + 1}
    BY ServerLeaves, AcceptLeaves
  <2> QED BY <1>1, <2>1
<1>3. newest <= issued /\ (Due' = Due \/ Due' = None \/ Due' >= newest)
  <2>1. newest <= issued
    BY DEF NewestIsHeld
  <2> QED BY <1>1, <2>1, DueLeaves
<1>4. /\ newest' <= issued' /\ mem'.renewal <= issued' /\ saved'.renewal <= issued'
      /\ \A r \in Rotators : rot'[r].token <= issued'
  BY <1>1, <1>2 DEF NewestIsHeld
<1>5. HeldIn(saved', {Due'}, newest')
  <2>1. HeldIn(saved, {Due}, newest)
    BY DEF NewestIsHeld
  <2>2. \A t \in {Due'} : t \in {Due} \/ t = None \/ t >= newest
    BY <1>3
  <2>3. HeldIn(saved, {Due'}, newest)
    BY <1>1, <2>1, <2>2, FewerIsHeld
  <2> QED BY <2>3
<1>6. ASSUME up' PROVE HeldIn(mem', Coming', newest')
  <2>1. HeldIn(mem, Coming, newest)
    BY <1>6 DEF NewestIsHeld
  <2>2. \A t \in Coming' : t \in Coming \/ t = None \/ t >= newest
    BY <1>3 DEF Coming
  <2>3. HeldIn(mem, Coming', newest)
    BY <1>1, <2>1, <2>2, FewerIsHeld
  <2> QED BY <2>3
<1>7. \/ Due' = None \/ Due' >= newest'
      \/ \A r \in Rotators : rot'[r].token = None \/ rot'[r].token >= newest'
  BY <1>3 DEF NewestIsHeld
<1> QED BY <1>4, <1>5, <1>6, <1>7 DEF NewestIsHeld

\* An enrollment's answer is applied, wholly or to the file only.
LEMMA EnrollmentApplied ==
  ASSUME EInv, EInv', NewestIsHeld, Apply \/ ApplyEnrollmentFails
  PROVE  NewestIsHeld'
<1>1. /\ newest \in Nat /\ issued \in Nat /\ Due \in Nat /\ Due <= issued
      /\ \A r \in Rotators : rot[r].token \in Nat
      /\ Coming \subseteq Nat /\ mem.renewal \in Nat /\ saved.renewal \in Nat
  BY NumbersHeld
<1>2. /\ up /\ reply \in Issue /\ mem \in Identity /\ reply.token = Due
      /\ UNCHANGED <<pend, known, rot, issued>>
  <2>1. pc = "apply" /\ up /\ UNCHANGED <<pend, known, rot, issued>>
    BY DEF Apply, ApplyEnrollmentFails, server, aside
  <2>2. reply \in Issue /\ pend.reply = reply /\ pend.id # None /\ mem \in Identity
    BY <2>1 DEF EInv, TypeOK, Phase, Finalize, Exchange
  <2>3. reply # NoIssue
    BY <2>2, Constants DEF NoIssue, Issue, None
  <2>4. reply = Answer(pend.id)
    BY <2>2, <2>3 DEF EInv, Phase
  <2> QED BY <2>1, <2>2, <2>4 DEF Answer, Due
<1>3. Due' = Due /\ Coming' = Coming
  BY <1>2 DEF Due, Coming
<1> DEFINE j == After(mem, reply, cur.name)
           n == IF j.renewal > newest THEN j.renewal ELSE newest
<1>4. HeldIn(j, Coming, newest) /\ HeldIn(j, Coming, n)
  <2>1. HeldIn(mem, Coming, newest) /\ Due \in Coming
    BY <1>2 DEF NewestIsHeld, Coming
  <2>2. Due # None /\ Due < newest => \A s \in Coming : s = None \/ s = Due \/ s >= newest
    BY <1>1 DEF NewestIsHeld, Coming
  <2> HIDE DEF j, n
  <2>3. \A T : T = Coming => HeldIn(After(mem, reply, cur.name), T, newest)
               /\ HeldIn(After(mem, reply, cur.name), T,
                    IF After(mem, reply, cur.name).renewal > newest
                    THEN After(mem, reply, cur.name).renewal ELSE newest)
    BY <1>1, <1>2, <2>1, <2>2, StaysHeld
  <2> QED BY <2>3 DEF j, n
<1>5. j.renewal = (IF Due = None THEN mem.renewal ELSE Due)
  BY <1>2 DEF After
<1> HIDE DEF j
<1>6. j.renewal \in Nat /\ j.renewal <= issued /\ newest <= issued /\ n \in Nat
  BY <1>1, <1>5 DEF NewestIsHeld
<1>d. Due \in Coming
  BY DEF Coming
<1>7. CASE Apply
  <2>1. saved' = j /\ mem' = j /\ newest' = n /\ up' = up
    BY <1>7 DEF Apply, ApplyCredentialUpdate, j
  <2>2. HeldIn(j, {Due}, n)
    BY <1>4, <1>6, <1>d, FewerIsHeld
  <2>3. \/ Due = None \/ Due >= n
        \/ \A r \in Rotators : rot[r].token = None \/ rot[r].token >= n
    <3>1. CASE n = newest
      BY <3>1 DEF NewestIsHeld
    <3>2. CASE n # newest
      BY <1>1, <1>5, <3>2
    <3> QED BY <3>1, <3>2
  <2>4. /\ n <= issued /\ \A r \in Rotators : rot[r].token <= issued
    BY <1>6 DEF NewestIsHeld
  <2> HIDE DEF n
  <2> QED BY <1>2, <1>3, <1>4, <1>6, <2>1, <2>2, <2>3, <2>4 DEF NewestIsHeld
<1>8. CASE ApplyEnrollmentFails
  <2>1. saved' \in {saved, j} /\ mem' = mem /\ newest' = newest
    BY <1>8 DEF ApplyEnrollmentFails, ApplyFails, j
  <2>2. HeldIn(j, {Due}, newest)
    BY <1>1, <1>4, <1>d, FewerIsHeld
  <2>3. HeldIn(saved', {Due}, newest) /\ saved'.renewal <= issued
    BY <1>6, <2>1, <2>2 DEF NewestIsHeld
  <2>4. HeldIn(mem, Coming, newest)
    BY <1>2 DEF NewestIsHeld
  <2> HIDE DEF n
  <2> QED BY <1>2, <1>3, <2>1, <2>3, <2>4 DEF NewestIsHeld
<1> QED BY <1>7, <1>8

\* A rotation's answer is applied, wholly or to the file only: it is the only one.
LEMMA RotationApplied ==
  ASSUME EInv, EInv', NewestIsHeld, Single, ~crossed',
         NEW r \in Rotators, ApplyRotation(r) \/ ApplyRotationFails(r)
  PROVE  NewestIsHeld'
<1>1. /\ newest \in Nat /\ issued \in Nat /\ Due \in Nat /\ Due <= issued
      /\ rot[r].token \in Nat
      /\ Coming \subseteq Nat /\ mem.renewal \in Nat /\ saved.renewal \in Nat
  BY NumbersHeld
<1>2. /\ up /\ up' = up /\ rot[r] \in Issue /\ mem \in Identity
      /\ UNCHANGED <<pend, known, issued>>
  BY DEF ApplyRotation, ApplyRotationFails, EInv, TypeOK, server
<1>3. \A q \in Rotators : rot'[q].token = None
  <2>1. rot' = [rot EXCEPT ![r] = NoIssue] /\ rot \in [Rotators -> Issue \cup {NoIssue}]
    BY DEF ApplyRotation, ApplyRotationFails, EInv, TypeOK
  <2>2. \A q \in Rotators : q # r => rot[q] = NoIssue
    BY DEF ApplyRotation, ApplyRotationFails, Single
  <2> QED BY <2>1, <2>2 DEF NoIssue
<1>4. Due' = Due /\ Coming' \subseteq {Due, None} /\ Due \in Coming /\ rot[r].token \in Coming
  BY <1>2, <1>3 DEF Due, Coming
<1> DEFINE j == After(mem, rot[r], "credential_rotation")
           n == IF j.renewal > newest THEN j.renewal ELSE newest
           T == {Due, None}
<1>5. HeldIn(j, T, newest) /\ HeldIn(j, T, n)
  <2>1. HeldIn(mem, Coming, newest) /\ T \subseteq Coming \cup {None}
    BY <1>2, <1>4 DEF NewestIsHeld
  <2>2. rot[r].token # None /\ rot[r].token < newest =>
          \A s \in T : s = None \/ s = rot[r].token \/ s >= newest
    BY <1>1 DEF NewestIsHeld
  <2> HIDE DEF j, n, T
  <2>3. /\ HeldIn(After(mem, rot[r], "credential_rotation"), T, newest)
        /\ HeldIn(After(mem, rot[r], "credential_rotation"), T,
             IF After(mem, rot[r], "credential_rotation").renewal > newest
             THEN After(mem, rot[r], "credential_rotation").renewal ELSE newest)
    BY <1>1, <1>2, <1>4, <2>1, <2>2, StaysHeld
  <2> QED BY <2>3 DEF j, n
<1>6. j.renewal = (IF rot[r].token = None THEN mem.renewal ELSE rot[r].token)
  BY DEF After
<1> HIDE DEF j
<1>7. j.renewal \in Nat /\ j.renewal <= issued /\ newest <= issued /\ n \in Nat
  BY <1>1, <1>6 DEF NewestIsHeld
<1>8. CASE ApplyRotation(r)
  <2>1. saved' = j /\ mem' = j /\ newest' = n
    BY <1>8 DEF ApplyRotation, ApplyCredentialUpdate, j
  <2>2. HeldIn(j, {Due}, n) /\ HeldIn(j, Coming', n)
    BY <1>4, <1>5, <1>7, FewerIsHeld
  <2>3. n <= issued
    BY <1>7
  <2> HIDE DEF n
  <2> QED BY <1>1, <1>2, <1>3, <1>4, <1>7, <2>1, <2>2, <2>3 DEF NewestIsHeld, None
<1>9. CASE ApplyRotationFails(r)
  <2>1. saved' \in {saved, j} /\ mem' = mem /\ newest' = newest
    BY <1>9 DEF ApplyRotationFails, ApplyFails, j
  <2>2. HeldIn(j, {Due}, newest)
    BY <1>1, <1>5, FewerIsHeld
  <2>3. HeldIn(saved', {Due}, newest) /\ saved'.renewal <= issued
    BY <1>7, <2>1, <2>2 DEF NewestIsHeld
  <2>4. HeldIn(mem, Coming', newest)
    <3>1. HeldIn(mem, Coming, newest)
      BY <1>2 DEF NewestIsHeld
    <3> QED BY <1>1, <1>4, <3>1, FewerIsHeld
  <2> HIDE DEF n
  <2> QED BY <1>1, <1>2, <1>3, <1>4, <1>7, <2>1, <2>3, <2>4 DEF NewestIsHeld, None
<1> QED BY <1>8, <1>9

\* A rotation is answered: its token is newer than every one applied.
LEMMA RotationAnswered ==
  ASSUME EInv, EInv', NewestIsHeld, ~crossed',
         NEW r \in Rotators, Rotate(r)
  PROVE  NewestIsHeld'
<1>1. /\ newest \in Nat /\ issued \in Nat /\ Due \in Nat /\ Due <= issued
      /\ \A q \in Rotators : rot[q].token \in Nat
      /\ mem.renewal \in Nat /\ saved.renewal \in Nat
  BY NumbersHeld
<1>2. UNCHANGED <<pend, known, saved, mem, newest, up>> /\ issued' = issued + 1
  BY DEF Rotate, files
<1>3. /\ newest <= issued /\ mem.renewal <= issued /\ saved.renewal <= issued
      /\ \A q \in Rotators : rot[q].token <= issued
  BY DEF NewestIsHeld
<1>4. Due' = Due
  BY <1>2 DEF Due
<1>5. \/ UNCHANGED rot
      \/ \A q \in Rotators : rot'[q].token \in {None, issued + 1}
  <2>1. rot \in [Rotators -> Issue \cup {NoIssue}]
    BY DEF EInv, TypeOK
  <2>2. ASSUME NEW t \in {None, issued + 1}, \A q \in Rotators : rot[q] = NoIssue,
               rot' = [rot EXCEPT ![r] = [cred |-> issued + 1, token |-> t]]
        PROVE  \A q \in Rotators : rot'[q].token \in {None, issued + 1}
    BY <2>1, <2>2 DEF NoIssue
  <2> QED BY <2>2 DEF Rotate
<1>6. /\ newest' <= issued' /\ mem'.renewal <= issued' /\ saved'.renewal <= issued'
      /\ \A q \in Rotators : rot'[q].token <= issued'
  BY <1>1, <1>2, <1>3, <1>5 DEF None
<1>7. ASSUME up PROVE HeldIn(mem, Coming', newest)
  <2>1. HeldIn(mem, Coming, newest)
    BY <1>7 DEF NewestIsHeld
  <2>2. issued + 1 >= newest
    BY <1>1, <1>3
  <2>3. \A t \in Coming' : t \in Coming \/ t = None \/ t >= newest
    BY <1>4, <1>5, <2>2 DEF Coming
  <2> QED BY <1>1, <2>1, <2>3, FewerIsHeld
<1>8. \/ Due = None \/ Due >= newest
      \/ \A q \in Rotators : rot'[q].token = None \/ rot'[q].token >= newest
  <2>1. issued + 1 >= newest
    BY <1>1, <1>3
  <2> QED BY <1>5, <2>1 DEF NewestIsHeld
<1> QED BY <1>2, <1>4, <1>6, <1>7, <1>8 DEF NewestIsHeld

LEMMA NewestNext ==
  ASSUME EInv, EInv', NewestIsHeld, Single, ~crossed', [Next]_vars
  PROVE  NewestIsHeld'
<1>1. CASE StartIdentity \/ MaybeRecoverIdentity \/ OutOfMethods \/ Served \/ Unanswered
  BY <1>1, NothingApplied
     DEF StartIdentity, MaybeRecoverIdentity, OutOfMethods, Served, Unanswered, files, history, aside
<1>2. CASE BackoffEnds \/ Reject \/ Expire
  BY <1>2, NothingApplied DEF BackoffEnds, Reject, Expire, files, history, aside
<1>3. CASE Choose \/ ChooseFails \/ Refused \/ Incompatible \/ RefusedFails \/ Clear \/ ClearFails
  BY <1>3, NothingApplied
     DEF Choose, ChooseFails, Refused, Incompatible, RefusedFails, Clear, ClearFails, history, aside
<1>4. CASE Store \/ StoreFails \/ Install \/ InstallFails \/ Consume
  BY <1>4, NothingApplied DEF Store, StoreFails, Install, InstallFails, Consume, history, aside
<1>5. CASE Crash
  BY <1>5, NothingApplied DEF Crash, files, history, aside
<1>6. CASE Apply \/ ApplyEnrollmentFails
  BY <1>6, EnrollmentApplied
<1>7. ASSUME NEW r \in Rotators, Rotate(r) \/ ApplyRotation(r) \/ ApplyRotationFails(r)
      PROVE  NewestIsHeld'
  BY <1>7, RotationApplied, RotationAnswered
<1>8. CASE Restart
  <2>1. /\ UNCHANGED <<pend, known, saved, newest, issued>> /\ mem' = saved
        /\ \A r \in Rotators : rot'[r].token = None
    BY <1>8 DEF Restart, files, server, history, NoIssue
  <2>2. Due' = Due
    BY <2>1 DEF Due
  <2>3. \A t \in Coming' : t \in {Due} \/ t = None
    BY <2>1, <2>2 DEF Coming
  <2>4. HeldIn(saved, {Due}, newest) /\ newest \in Nat /\ issued \in Nat
    BY NumbersHeld DEF NewestIsHeld
  <2>5. HeldIn(saved, Coming', newest)
    BY <2>3, <2>4, FewerIsHeld
  <2> QED BY <2>1, <2>2, <2>4, <2>5 DEF NewestIsHeld, None
<1>9. CASE RenewCertificate \/ InstallRenewal \/ RenewalFails
  BY <1>9, NothingApplied DEF RenewCertificate, InstallRenewal, RenewalFails, files, history
<1>10. CASE UNCHANGED vars
  BY <1>10, NothingApplied DEF vars, files, history, aside
<1> QED BY <1>1, <1>2, <1>3, <1>4, <1>5, <1>6, <1>7, <1>8, <1>9, <1>10 DEF Next

\* What a step does to the rotations under way.
LEMMA CrossedStays ==
  ASSUME [Next]_vars
  PROVE  \/ UNCHANGED <<rot, crossed>>
         \/ crossed' = crossed /\ rot' = [r \in Rotators |-> NoIssue]
         \/ crossed' = crossed /\ \E r \in Rotators : rot' = [rot EXCEPT ![r] = NoIssue]
         \/ crossed' = (crossed \/ \E q \in Rotators : rot[q] # NoIssue)
            /\ \E r \in Rotators : \E a : rot' = [rot EXCEPT ![r] = a]
<1>1. CASE StartIdentity \/ MaybeRecoverIdentity \/ OutOfMethods \/ Served \/ Unanswered
  BY <1>1
     DEF StartIdentity, MaybeRecoverIdentity, OutOfMethods, Served, Unanswered, history, aside
<1>2. CASE BackoffEnds \/ Reject \/ Expire \/ Crash \/ Restart
  BY <1>2 DEF BackoffEnds, Reject, Expire, Crash, Restart, history, aside
<1>3. CASE Choose \/ ChooseFails \/ Refused \/ Incompatible \/ RefusedFails \/ Clear \/ ClearFails
  BY <1>3
     DEF Choose, ChooseFails, Refused, Incompatible, RefusedFails, Clear, ClearFails, history, aside
<1>4. CASE Store \/ StoreFails \/ Install \/ InstallFails \/ Consume
  BY <1>4 DEF Store, StoreFails, Install, InstallFails, Consume, history, aside
<1>5. CASE Apply \/ ApplyEnrollmentFails
  BY <1>5 DEF Apply, ApplyEnrollmentFails, aside
<1>6. ASSUME NEW r \in Rotators, ApplyRotation(r) \/ ApplyRotationFails(r)
      PROVE  crossed' = crossed /\ rot' = [rot EXCEPT ![r] = NoIssue]
  BY <1>6 DEF ApplyRotation, ApplyRotationFails
<1>7. ASSUME NEW r \in Rotators, Rotate(r)
      PROVE  \/ UNCHANGED <<rot, crossed>>
             \/ crossed' = (crossed \/ \E q \in Rotators : rot[q] # NoIssue)
                /\ \E a : rot' = [rot EXCEPT ![r] = a]
  BY <1>7 DEF Rotate
<1>8. CASE RenewCertificate \/ InstallRenewal \/ RenewalFails
  BY <1>8 DEF RenewCertificate, InstallRenewal, RenewalFails, history
<1>9. CASE UNCHANGED vars
  BY <1>9 DEF vars, history, aside
<1> QED BY <1>1, <1>2, <1>3, <1>4, <1>5, <1>6, <1>7, <1>8, <1>9 DEF Next

LEMMA SingleNext ==
  ASSUME EInv, Single, [Next]_vars
  PROVE  Single' /\ (crossed => crossed')
<1>1. rot \in [Rotators -> Issue \cup {NoIssue}]
  BY DEF EInv, TypeOK
<1>2. CASE UNCHANGED <<rot, crossed>>
  BY <1>2 DEF Single
<1>3. CASE crossed' = crossed /\ rot' = [r \in Rotators |-> NoIssue]
  BY <1>3 DEF Single
<1>4. ASSUME NEW r \in Rotators, crossed' = crossed, rot' = [rot EXCEPT ![r] = NoIssue]
      PROVE  Single' /\ (crossed => crossed')
  BY <1>1, <1>4 DEF Single
<1>5. ASSUME NEW r \in Rotators, NEW a, rot' = [rot EXCEPT ![r] = a],
             crossed' = (crossed \/ \E q \in Rotators : rot[q] # NoIssue)
      PROVE  Single' /\ (crossed => crossed')
  BY <1>1, <1>5 DEF Single
<1> QED BY <1>2, <1>3, <1>4, <1>5, CrossedStays

\* Until two rotations have been under way at the same time, whatever the order
\* in which the answers of a rotation and of a recovery are applied, repeated or
\* lost, and whatever crashes or fails in between: one of the two renewal tokens
\* kept, in the file and in memory, is as new as any that was applied.
THEOREM NewestTokenStays == Spec => []NewestTokenIsKept
<1> DEFINE NInv == Single /\ (crossed \/ NewestIsHeld)
<1>1. Init => NInv
  BY NewestInit DEF Init, Single
<1>2. EInv /\ EInv' /\ NInv /\ [Next]_vars => NInv'
  <2> SUFFICES ASSUME EInv, EInv', NInv, [Next]_vars PROVE NInv'
    OBVIOUS
  <2>1. Single' /\ (crossed => crossed')
    BY SingleNext
  <2>2. CASE crossed'
    BY <2>1, <2>2
  <2>3. CASE ~crossed'
    BY <2>1, <2>3, NewestNext
  <2> QED BY <2>2, <2>3
<1>3. NInv => NewestTokenIsKept
  BY DEF NewestIsHeld, NewestTokenIsKept, HeldIn
<1> HIDE DEF NInv
<1> QED BY <1>1, <1>2, <1>3, EInvAlways, PTL DEF Spec

=============================================================================
