--------------------------- MODULE CertPairProofs ---------------------------
(***************************************************************************)
(* Proofs about CertPair.  What makes every state of the files recoverable *)
(* is one of three things (Safe): the current pair loads; or the old pair  *)
(* can be put together from what the first two candidates name; or no pair *)
(* was ever in use and all there is belongs to one fresh pair.  The rest   *)
(* of the invariant says which files each step of a call finds.            *)
(***************************************************************************)
EXTENDS CertPair, TLAPS

\* The current pair loads and is p.
InPlace(d, p) == d["cert"] = p /\ d["key"] = p /\ p # Absent

\* The key of p is kept as the previous one, and its certificate is the current
\* one or, with no current one, the previous one.
Kept(d, p) ==
  /\ p # Absent /\ d["key.previous"] = p
  /\ d["cert"] = p \/ (d["cert"] = Absent /\ d["cert.previous"] = p)

\* Nothing but files of a first pair g.
Fresh(d, g) ==
  /\ d["cert"] = Absent /\ d["cert.previous"] = Absent /\ d["key.previous"] = Absent
  /\ d["key"] \in {Absent, g} /\ d["cert.next"] \in {Absent, g} /\ d["key.next"] \in {Absent, g}

Safe(d, t, n) ==
  \/ \E p \in t .. n : InPlace(d, p) \/ Kept(d, p)
  \/ t = Absent /\ \E g \in 0 .. n : Fresh(d, g)

\* What recoverPair restores p from.
Restorable(d, p) == Kept(d, p) \/ (p # Absent /\ trusted = Absent /\ Fresh(d, p) /\ d["cert.next"] = p)

\* The files at each step of a commit from the pair o, which is Absent at first.
Shape(c, k, cn, kn, cp, kp) ==
  /\ disk["cert"] = c /\ disk["key"] = k /\ disk["cert.next"] = cn /\ disk["key.next"] = kn
  /\ disk["cert.previous"] = cp /\ disk["key.previous"] = kp

Staged(o) ==
  /\ pc = "stageKey"   => Shape(o, o, Absent, Absent, Absent, Absent)
  /\ pc = "stageCert"  => Shape(o, o, Absent, goal, Absent, Absent)
  /\ pc = "backupKey"  => Shape(o, o, goal, goal, Absent, Absent)
  /\ pc = "backupCert" => Shape(o, Absent, goal, goal, Absent, o)
  /\ pc = "commitKey"  => Shape(Absent, Absent, goal, goal, o, o)
  /\ pc = "commitCert" => Shape(Absent, goal, goal, Absent, o, o)
  /\ pc = "validate"   => Shape(goal, goal, Absent, Absent, o, o)

Committing == {"stageKey", "stageCert", "backupKey", "backupCert", "commitKey", "commitCert",
               "validate"}

\* What a cleanup that met no error has removed.
Swept ==
  /\ swept >= 1 => disk["cert.next"] = Absent
  /\ swept >= 2 => disk["key.next"] = Absent
  /\ swept >= 3 => disk["cert.previous"] = Absent
  /\ swept >= 4 => disk["key.previous"] = Absent

CInv ==
  /\ TypeOK
  /\ Safe(disk, trusted, issued)
  /\ trusted <= issued
  /\ caller \in {"persist", "rollback", "commit"} => goal = issued /\ goal # Absent
  /\ caller = "commit" => pc = "cleanup"
  /\ pc \in {"restoreKey", "restoreCert"} => pick \in trusted .. issued /\ Restorable(disk, pick)
  /\ pc = "restoreCert" => disk["key"] = pick
  /\ pc # "cleanup" => swept = 0
  /\ pc = "cleanup" => /\ \E p \in trusted .. issued : InPlace(disk, p)
                       /\ caller = "commit" => disk["cert"] = goal
                       /\ ~errored => Swept
  /\ pc \in Committing => caller = "persist" /\ \E o \in trusted .. issued : Staged(o)

-----------------------------------------------------------------------------
(* What a recovery comes to. *)

LEMMA FitsAre ==
  ASSUME NEW d
  PROVE  /\ Fits(d, 1) = Loads(d["cert"], d["key.previous"])
         /\ Fits(d, 2) = Loads(d["cert.previous"], d["key.previous"])
         /\ Fits(d, 3) = Loads(d["cert.next"], d["key"])
         /\ Fits(d, 4) = Loads(d["cert.next"], d["key.next"])
         /\ Fits(d, 5) = Loads(d["cert.previous"], d["key"])
         /\ Candidates(d)[1][1] = d["cert"] /\ Candidates(d)[2][1] = d["cert.previous"]
         /\ Candidates(d)[3][1] = d["cert.next"] /\ Candidates(d)[4][1] = d["cert.next"]
         /\ Candidates(d)[5][1] = d["cert.previous"]
BY DEF Fits, Candidates

LEMMA FirstFitIs ==
  ASSUME NEW d, NEW p
  PROVE  /\ Fits(d, 1) => (FirstFit(d, p) <=> p = d["cert"])
         /\ ~Fits(d, 1) /\ Fits(d, 2) => (FirstFit(d, p) <=> p = d["cert.previous"])
         /\ ~Fits(d, 1) /\ ~Fits(d, 2) /\ Fits(d, 3) => (FirstFit(d, p) <=> p = d["cert.next"])
         /\ ~Fits(d, 1) /\ ~Fits(d, 2) /\ ~Fits(d, 3) /\ Fits(d, 4) =>
              (FirstFit(d, p) <=> p = d["cert.next"])
         /\ ~Fits(d, 1) /\ ~Fits(d, 2) /\ ~Fits(d, 3) /\ ~Fits(d, 4) /\ Fits(d, 5) =>
              (FirstFit(d, p) <=> p = d["cert.previous"])
         /\ NoFit(d) => ~FirstFit(d, p)
         /\ NoFit(d) <=> ~Fits(d, 1) /\ ~Fits(d, 2) /\ ~Fits(d, 3) /\ ~Fits(d, 4) /\ ~Fits(d, 5)
<1> DEFINE F(i) == Fits(d, i)
           V(i) == Candidates(d)[i][1]
<1>1. FirstFit(d, p) <=> \E i \in 1 .. 5 : F(i) /\ (\A j \in 1 .. (i - 1) : ~F(j)) /\ p = V(i)
  BY DEF FirstFit
<1>2. NoFit(d) <=> \A i \in 1 .. 5 : ~F(i)
  BY DEF NoFit
<1>3. V(1) = d["cert"] /\ V(2) = d["cert.previous"] /\ V(3) = d["cert.next"]
      /\ V(4) = d["cert.next"] /\ V(5) = d["cert.previous"]
  BY FitsAre
<1> HIDE DEF F, V
<1>4. (\A i \in 1 .. 5 : ~F(i)) <=> ~F(1) /\ ~F(2) /\ ~F(3) /\ ~F(4) /\ ~F(5)
  OBVIOUS
<1>5. (\E i \in 1 .. 5 : F(i) /\ (\A j \in 1 .. (i - 1) : ~F(j)) /\ p = V(i)) <=>
        \/ F(1) /\ p = V(1)
        \/ F(2) /\ ~F(1) /\ p = V(2)
        \/ F(3) /\ ~F(1) /\ ~F(2) /\ p = V(3)
        \/ F(4) /\ ~F(1) /\ ~F(2) /\ ~F(3) /\ p = V(4)
        \/ F(5) /\ ~F(1) /\ ~F(2) /\ ~F(3) /\ ~F(4) /\ p = V(5)
  OBVIOUS
<1> QED BY <1>1, <1>2, <1>3, <1>4, <1>5 DEF F

\* Safe files come to a pair between the one in use and the newest.
LEMMA SafeComesOut ==
  ASSUME NEW d \in [Slots -> Nat], NEW t \in Nat, NEW n \in Nat, t <= n, Safe(d, t, n)
  PROVE  \E p \in t .. n : Outcome(d, p)
<1>1. ASSUME NEW p \in t .. n, InPlace(d, p) PROVE Outcome(d, p)
  BY <1>1 DEF InPlace, Outcome, Current, Loads
<1>2. ASSUME NEW p \in t .. n, Kept(d, p), ~Current(d) PROVE Outcome(d, p)
  <2>1. CASE d["cert"] = p
    <3>1. Fits(d, 1)
      BY <1>2, <2>1, FitsAre DEF Kept, Loads
    <3> QED BY <1>2, <2>1, <3>1, FirstFitIs DEF Outcome
  <2>2. CASE d["cert"] = Absent /\ d["cert.previous"] = p
    <3>1. ~Fits(d, 1) /\ Fits(d, 2)
      BY <1>2, <2>2, FitsAre DEF Kept, Loads
    <3> QED BY <1>2, <2>2, <3>1, FirstFitIs DEF Outcome
  <2> QED BY <1>2, <2>1, <2>2 DEF Kept
<1>3. ASSUME NEW p \in t .. n, Kept(d, p), Current(d) PROVE Outcome(d, p)
  BY <1>3 DEF Kept, Current, Loads, Outcome
<1>4. ASSUME t = Absent, NEW g \in 0 .. n, Fresh(d, g) PROVE \E p \in t .. n : Outcome(d, p)
  <2>1. ~Current(d) /\ ~Fits(d, 1) /\ ~Fits(d, 2) /\ ~Fits(d, 5)
    BY <1>4, FitsAre DEF Fresh, Current, Loads
  <2>2. CASE Fits(d, 3) \/ Fits(d, 4)
    <3>1. d["cert.next"] = g
      BY <1>4, <2>2, FitsAre DEF Fresh, Loads
    <3>2. FirstFit(d, g)
      BY <2>1, <2>2, <3>1, FirstFitIs
    <3> QED BY <1>4, <2>1, <3>2 DEF Outcome, Absent
  <2>3. CASE ~Fits(d, 3) /\ ~Fits(d, 4)
    <3>1. NoFit(d)
      BY <2>1, <2>3, FirstFitIs
    <3>2. Outcome(d, Absent)
      BY <2>1, <3>1 DEF Outcome
    <3> QED BY <1>4, <3>2 DEF Absent
  <2> QED BY <2>2, <2>3
<1> QED BY <1>1, <1>2, <1>3, <1>4 DEF Safe

\* The candidate that a recovery picks is one it can restore from.
LEMMA PickIsRestorable ==
  ASSUME CInv, ~Current(disk), NEW p, FirstFit(disk, p)
  PROVE  p \in trusted .. issued /\ Restorable(disk, p)
<1>1. disk \in [Slots -> Nat] /\ trusted \in Nat /\ issued \in Nat /\ Safe(disk, trusted, issued)
  BY DEF CInv, TypeOK
<1>2. ASSUME NEW q \in trusted .. issued, InPlace(disk, q) PROVE FALSE
  BY <1>2 DEF InPlace, Current, Loads
<1>3. ASSUME NEW q \in trusted .. issued, Kept(disk, q) PROVE p = q
  <2>1. CASE disk["cert"] = q
    <3>1. Fits(disk, 1)
      BY <1>3, <2>1, FitsAre DEF Kept, Loads
    <3> QED BY <2>1, <3>1, FirstFitIs
  <2>2. CASE disk["cert"] = Absent /\ disk["cert.previous"] = q
    <3>1. ~Fits(disk, 1) /\ Fits(disk, 2)
      BY <1>3, <2>2, FitsAre DEF Kept, Loads
    <3> QED BY <2>2, <3>1, FirstFitIs
  <2> QED BY <1>3, <2>1, <2>2 DEF Kept
<1>4. ASSUME trusted = Absent, NEW g \in 0 .. issued, Fresh(disk, g)
      PROVE  p \in trusted .. issued /\ Restorable(disk, p)
  <2>1. ~Fits(disk, 1) /\ ~Fits(disk, 2) /\ ~Fits(disk, 5)
    BY <1>4, FitsAre DEF Fresh, Loads
  <2>2. Fits(disk, 3) \/ Fits(disk, 4)
    BY <2>1, FirstFitIs
  <2>3. disk["cert.next"] = g /\ g # Absent
    BY <1>4, <2>2, FitsAre DEF Fresh, Loads
  <2>4. p = g
    BY <2>1, <2>2, <2>3, FirstFitIs
  <2> QED BY <1>1, <1>4, <2>3, <2>4 DEF Restorable, Absent
<1> QED BY <1>1, <1>2, <1>3, <1>4 DEF Safe, Restorable

-----------------------------------------------------------------------------
(* The invariant. *)

LEMMA CInvInit == Init => CInv
<1> SUFFICES ASSUME Init PROVE CInv
  OBVIOUS
<1>1. TypeOK
  <2>1. errored \in BOOLEAN /\ refused \in BOOLEAN
    BY Zenon DEF Init
  <2> QED BY <2>1 DEF Init, TypeOK, Absent, Steps
<1>2. Safe(disk, trusted, issued)
  <2>1. Fresh(disk, 0) /\ trusted = 0 /\ issued = 0
    BY DEF Init, Fresh, Absent, Slots
  <2> QED BY <2>1 DEF Safe, Absent
<1> QED BY <1>1, <1>2 DEF Init, CInv, Committing, Absent

\* A call that is over leaves nothing to say but that the files are safe.
LEMMA CallIsOver ==
  ASSUME CInv, NEW q \in {"idle", "down"}, ReturnTo(q), disk' \in [Slots -> Nat],
         issued' = issued, trusted' \in 0 .. issued, Safe(disk', trusted', issued),
         refused' \in BOOLEAN, crashes' \in Nat
  PROVE  CInv'
<1>1. errored' \in BOOLEAN
  BY Zenon DEF ReturnTo
<1>2. issued \in Nat /\ trusted' \in Nat /\ trusted' <= issued
  BY DEF CInv, TypeOK
<1> QED BY <1>1, <1>2 DEF CInv, TypeOK, ReturnTo, Committing, Steps, Absent

LEMMA FailIsSafe ==
  ASSUME CInv, Fail, disk' \in [Slots -> Nat], issued' = issued,
         Safe(disk', trusted, issued), refused' \in BOOLEAN, crashes' = crashes
  PROVE  CInv'
<1>1. trusted' = trusted /\ crashes \in Nat /\ trusted \in 0 .. issued
  BY DEF Fail, CInv, TypeOK
<1>2. PICK q \in {"idle", "down"} : ReturnTo(q)
  BY DEF Fail
<1> QED BY <1>1, <1>2, CallIsOver

\* recoverPair or a cleanup succeeds with a pair in place or with nothing at all.
LEMMA RecoveredIsSafe ==
  ASSUME CInv, pc \in {"recover", "cleanup"}, Recovered, UNCHANGED <<disk, issued, refused, crashes>>,
         NEW o \in trusted .. issued, Shape(o, o, Absent, Absent, Absent, Absent)
  PROVE  CInv'
<1>t. /\ TypeOK /\ issued \in Nat /\ trusted \in Nat /\ disk \in [Slots -> Nat] /\ o \in Nat
      /\ trusted <= issued /\ Safe(disk, trusted, issued)
  BY DEF CInv, TypeOK
<1>1. CASE caller = "persist"
  <2>1. /\ pc' = "stageKey" /\ swept' = 0 /\ UNCHANGED <<caller, goal, pick, errored, trusted>>
    BY <1>1 DEF Recovered
  <2>2. goal = issued /\ goal # Absent
    BY <1>1 DEF CInv
  <2>3. Staged(o)'
    BY <2>1 DEF Staged, Shape
  <2>4. TypeOK'
    BY <1>t, <2>1, <2>2 DEF TypeOK, Steps
  <2> QED BY <1>1, <1>t, <2>1, <2>2, <2>3, <2>4 DEF CInv, Committing
<1>2. CASE caller # "persist"
  <2>1. ReturnTo("idle") /\ trusted' = o
    BY <1>2 DEF Recovered, Shape
  <2>2. Safe(disk, o, issued)
    <3>1. CASE o = Absent
      BY <1>t, <3>1 DEF Safe, Fresh, Shape, Absent
    <3>2. CASE o # Absent
      BY <1>t, <3>2 DEF Safe, InPlace, Shape
    <3> QED BY <3>1, <3>2
  <2>3. o \in 0 .. issued /\ refused \in BOOLEAN /\ crashes \in Nat
    BY <1>t DEF TypeOK
  <2> QED BY <1>t, <2>1, <2>2, <2>3, CallIsOver
<1> QED BY <1>1, <1>2

LEMMA RecoverySafe ==
  ASSUME CInv, RecoverCurrent \/ RecoverCandidate \/ RecoverNothing \/ RecoverRefuses
  PROVE  CInv'
<1>t. /\ TypeOK /\ issued \in Nat /\ trusted \in Nat /\ disk \in [Slots -> Nat]
      /\ trusted <= issued /\ Safe(disk, trusted, issued)
  BY DEF CInv, TypeOK
<1>1. CASE RecoverCurrent
  <2>1. /\ pc = "recover" /\ pc' = "cleanup" /\ Current(disk)
        /\ UNCHANGED <<disk, caller, goal, pick, swept, errored, issued, trusted, refused, crashes>>
    BY <1>1 DEF RecoverCurrent, call
  <2>2. \E p \in trusted .. issued : InPlace(disk, p)
    <3>1. disk["cert"] = disk["key"] /\ disk["cert"] # Absent /\ disk["cert"] \in Nat
      BY <1>t, <2>1 DEF Current, Loads, Slots
    <3> QED BY <1>t, <3>1 DEF Safe, InPlace, Kept, Fresh
  <2>3. swept = 0 /\ Swept
    BY <2>1 DEF CInv, Swept
  <2>4. TypeOK'
    BY <1>t, <2>1 DEF TypeOK, Steps
  <2>5. caller = "commit" => FALSE
    BY <2>1 DEF CInv
  <2> QED BY <1>t, <2>1, <2>2, <2>3, <2>4, <2>5 DEF CInv, Committing, Swept
<1>2. CASE RecoverCandidate
  <2>1. PICK p \in 1 .. issued : FirstFit(disk, p) /\ pick' = p
    BY <1>2 DEF RecoverCandidate
  <2>2. /\ pc = "recover" /\ pc' = "restoreKey" /\ ~Current(disk)
        /\ UNCHANGED <<disk, caller, goal, swept, errored, issued, trusted, refused, crashes>>
    BY <1>2 DEF RecoverCandidate
  <2>3. p \in trusted .. issued /\ Restorable(disk, p)
    BY <2>1, <2>2, PickIsRestorable
  <2>4. TypeOK'
    BY <1>t, <2>1, <2>2 DEF TypeOK, Steps
  <2> QED BY <1>t, <2>1, <2>2, <2>3, <2>4 DEF CInv, Committing, Restorable
<1>3. CASE RecoverNothing
  <2>1. /\ pc = "recover" /\ Recovered /\ UNCHANGED <<disk, issued, refused, crashes>>
        /\ \A s \in Slots : disk[s] = Absent
    BY <1>3 DEF RecoverNothing, Pristine
  <2>2. Shape(Absent, Absent, Absent, Absent, Absent, Absent)
    BY <2>1 DEF Shape, Slots
  <2>3. Absent \in trusted .. issued
    BY <1>t, <2>2 DEF Safe, InPlace, Kept, Shape, Absent
  <2> QED BY <2>1, <2>2, <2>3, RecoveredIsSafe
<1>4. CASE RecoverRefuses
  <2>1. refused' \in BOOLEAN
    BY <1>4, Zenon DEF RecoverRefuses
  <2> QED BY <1>4, <1>t, <2>1, FailIsSafe DEF RecoverRefuses
<1> QED BY <1>1, <1>2, <1>3, <1>4

LEMMA RestoreSafe ==
  ASSUME CInv, RestoreKey \/ RestoreCert
  PROVE  CInv'
<1>t. /\ TypeOK /\ issued \in Nat /\ trusted \in Nat /\ disk \in [Slots -> Nat]
      /\ trusted <= issued /\ Safe(disk, trusted, issued) /\ refused \in BOOLEAN
  BY DEF CInv, TypeOK
<1>p. pick \in trusted .. issued /\ pick \in Nat /\ Restorable(disk, pick) /\ pick # Absent
  BY DEF CInv, TypeOK, RestoreKey, RestoreCert, Restorable, Kept
<1>c. UNCHANGED <<issued, refused, crashes>>
  BY DEF RestoreKey, RestoreCert
\* The files after the key, and after the certificate, is in place.
<1>k. ASSUME Write("key", pick)
      PROVE  /\ disk' \in [Slots -> Nat] /\ disk'["key"] = pick
             /\ Restorable(disk', pick) /\ Safe(disk', trusted, issued)
  <2>1. /\ disk' \in [Slots -> Nat] /\ disk'["key"] = pick
        /\ \A s \in Slots \ {"key"} : disk'[s] = disk[s]
    BY <1>k, <1>p, <1>t DEF Write, Slots
  <2>2. Restorable(disk', pick)
    BY <1>p, <2>1 DEF Restorable, Kept, Fresh, Slots
  <2>3. Safe(disk', trusted, issued)
    BY <1>p, <1>t, <2>2 DEF Safe, Restorable, Absent
  <2> QED BY <2>1, <2>2, <2>3
<1>d. ASSUME Write("cert", pick), disk["key"] = pick
      PROVE  /\ disk' \in [Slots -> Nat] /\ InPlace(disk', pick) /\ Safe(disk', trusted, issued)
  <2>1. disk' \in [Slots -> Nat] /\ disk'["cert"] = pick /\ disk'["key"] = disk["key"]
    BY <1>d, <1>p, <1>t DEF Write, Slots
  <2>2. InPlace(disk', pick)
    BY <1>d, <1>p, <2>1 DEF InPlace
  <2> QED BY <1>p, <2>1, <2>2 DEF Safe
<1>1. CASE pc = "restoreKey" /\ Write("key", pick) /\ pc' = "restoreCert" /\ UNCHANGED <<call, trusted>>
  <2>1. TypeOK'
    BY <1>1, <1>c, <1>k, <1>t DEF TypeOK, Steps, call
  <2> QED BY <1>1, <1>c, <1>k, <1>p, <1>t, <2>1 DEF CInv, Committing, call, Restorable
<1>2. CASE /\ pc = "restoreCert" /\ Write("cert", pick) /\ pc' = "cleanup"
           /\ UNCHANGED <<call, trusted>>
  <2>1. disk["key"] = pick /\ swept = 0 /\ caller # "commit"
    BY <1>2 DEF CInv
  <2>2. TypeOK'
    BY <1>2, <1>c, <1>d, <1>t, <2>1 DEF TypeOK, Steps, call
  <2>3. /\ disk' \in [Slots -> Nat] /\ InPlace(disk', pick) /\ Safe(disk', trusted, issued)
    BY <1>2, <1>d, <2>1
  <2> QED BY <1>2, <1>c, <1>p, <1>t, <2>1, <2>2, <2>3 DEF CInv, Committing, call, Swept
<1>3. CASE Fail
  <2>1. disk' \in [Slots -> Nat] /\ Safe(disk', trusted, issued)
    <3>1. CASE UNCHANGED disk
      BY <1>t, <3>1
    <3>2. CASE Write("key", pick)
      BY <1>k, <3>2
    <3>3. CASE pc = "restoreCert" /\ Write("cert", pick)
      BY <1>d, <3>3 DEF CInv
    <3> QED BY <3>1, <3>2, <3>3 DEF RestoreKey, RestoreCert, WriteFails
  <2> QED BY <1>3, <1>c, <1>t, <2>1, FailIsSafe
<1> QED BY <1>1, <1>2, <1>3 DEF RestoreKey, RestoreCert

LEMMA CleanupSafe ==
  ASSUME CInv, Sweep \/ EndCleanup
  PROVE  CInv'
<1>t. /\ TypeOK /\ issued \in Nat /\ trusted \in Nat /\ disk \in [Slots -> Nat]
      /\ trusted <= issued /\ Safe(disk, trusted, issued) /\ refused \in BOOLEAN /\ swept \in 0 .. 4
  BY DEF CInv, TypeOK
<1>c. /\ pc = "cleanup" /\ UNCHANGED <<issued, refused, crashes>>
      /\ ~errored => Swept
  BY DEF Sweep, EndCleanup, CInv
<1>p. PICK p \in trusted .. issued : InPlace(disk, p)
  BY <1>c DEF CInv
<1>a. /\ Len(Artifacts) = 4 /\ Artifacts[1] = "cert.next" /\ Artifacts[2] = "key.next"
      /\ Artifacts[3] = "cert.previous" /\ Artifacts[4] = "key.previous"
  BY DEF Artifacts
<1>1. CASE Sweep
  <2>1. /\ swept < 4 /\ swept' = swept + 1 /\ pc' = pc
        /\ UNCHANGED <<caller, goal, pick, issued, trusted, refused, crashes>>
    BY <1>1, <1>a DEF Sweep
  <2>2. swept' \in 1 .. 4 /\ (swept' = 1 \/ swept' = 2 \/ swept' = 3 \/ swept' = 4)
    BY <1>t, <2>1
  <2>3. Artifacts[swept'] \in Slots \ {"cert", "key"}
    BY <1>a, <2>2 DEF Slots
  <2>4. /\ disk' \in [Slots -> Nat] /\ disk'["cert"] = disk["cert"] /\ disk'["key"] = disk["key"]
        /\ errored' \in BOOLEAN
    <3>1. CASE Write(Artifacts[swept + 1], Absent) /\ UNCHANGED errored
      BY <1>t, <2>1, <2>3, <3>1 DEF Write, Slots, Absent, TypeOK
    <3>2. CASE errored' = TRUE /\ UNCHANGED disk
      <4>1. errored' \in BOOLEAN
        BY <3>2, Zenon
      <4> QED BY <1>t, <3>2, <4>1
    <3> QED BY <1>1, <3>1, <3>2 DEF Sweep
  <2>5. ~errored' => Swept'
    <3>1. CASE Write(Artifacts[swept + 1], Absent) /\ UNCHANGED errored
      <4>1. /\ disk'[Artifacts[swept']] = Absent
            /\ \A s \in Slots : disk[s] = Absent => disk'[s] = Absent
        BY <1>t, <2>1, <2>3, <3>1 DEF Write, Absent
      <4>2. ~errored' => Swept
        BY <1>c, <3>1
      <4> QED BY <1>a, <1>t, <2>1, <2>2, <4>1, <4>2 DEF Swept, Slots
    <3>2. CASE errored' = TRUE
      BY <3>2
    <3> QED BY <1>1, <3>1, <3>2 DEF Sweep
  <2>6. InPlace(disk', p)
    BY <1>p, <2>4 DEF InPlace
  <2>7. Safe(disk', trusted, issued)
    BY <2>6 DEF Safe
  <2>8. TypeOK'
    BY <1>c, <1>t, <2>1, <2>2, <2>4 DEF TypeOK, Steps
  <2> QED BY <1>c, <1>t, <2>1, <2>4, <2>5, <2>6, <2>7, <2>8 DEF CInv, Committing
<1>2. CASE EndCleanup
  <2>1. swept = 4 /\ UNCHANGED disk
    BY <1>2, <1>a DEF EndCleanup
  <2>2. CASE ~errored /\ Recovered
    <3>1. Shape(p, p, Absent, Absent, Absent, Absent)
      BY <1>c, <1>p, <2>1, <2>2 DEF Swept, Shape, InPlace
    <3> QED BY <1>c, <2>1, <2>2, <3>1, RecoveredIsSafe
  <2>3. CASE Fail
    BY <1>c, <1>t, <2>1, <2>3, FailIsSafe
  <2> QED BY <1>2, <2>2, <2>3 DEF EndCleanup
<1> QED BY <1>1, <1>2

\* A commit from o to the new pair leaves safe files at every point of it.
LEMMA ShapesAreSafe ==
  ASSUME CInv, NEW d \in [Slots -> Nat], NEW o \in trusted .. issued, NEW g \in 1 .. issued,
         \/ d["cert"] = o /\ d["key"] = o /\ d["cert.previous"] = Absent /\ d["key.previous"] = Absent
         \/ d["key.previous"] = o /\ d["key"] \in {Absent, g}
            /\ \/ d["cert"] = o /\ d["cert.previous"] = Absent
               \/ d["cert"] = Absent /\ d["cert.previous"] = o,
         d["cert.next"] \in {Absent, g}, d["key.next"] \in {Absent, g}
  PROVE  Safe(d, trusted, issued)
<1>t. trusted \in Nat /\ issued \in Nat
  BY DEF CInv, TypeOK
<1>1. CASE o = Absent
  <2>1. Fresh(d, g) /\ trusted = Absent /\ g \in 0 .. issued
    BY <1>1, <1>t DEF Fresh, Absent
  <2> QED BY <2>1 DEF Safe
<1>2. CASE o # Absent
  <2>1. InPlace(d, o) \/ Kept(d, o)
    BY <1>2 DEF InPlace, Kept
  <2> QED BY <2>1 DEF Safe
<1> QED BY <1>1, <1>2

LEMMA StageSafe ==
  ASSUME CInv, StageKey \/ StageCert
  PROVE  CInv'
<1>t. /\ TypeOK /\ issued \in Nat /\ trusted \in Nat /\ disk \in [Slots -> Nat]
      /\ trusted <= issued /\ refused \in BOOLEAN
  BY DEF CInv, TypeOK
<1>c. /\ UNCHANGED <<issued, refused, crashes>> /\ pc \in {"stageKey", "stageCert"}
      /\ caller = "persist" /\ swept = 0
      /\ goal = issued /\ goal # Absent /\ goal \in 1 .. issued
  BY <1>t DEF StageKey, StageCert, CInv, Committing, TypeOK, Absent
<1>o. PICK o \in trusted .. issued : Staged(o)
  BY <1>c DEF CInv, Committing
<1>s. /\ disk["cert"] = o /\ disk["key"] = o /\ disk["cert.next"] = Absent
      /\ disk["cert.previous"] = Absent /\ disk["key.previous"] = Absent
      /\ disk["key.next"] \in {Absent, goal}
  BY <1>c, <1>o DEF Staged, Shape
\* Whatever becomes of the two staged files.
<1>d. ASSUME NEW k \in {Absent, goal}, NEW c \in {Absent, goal},
             disk' = [disk EXCEPT !["key.next"] = k, !["cert.next"] = c]
      PROVE  /\ disk' \in [Slots -> Nat] /\ Safe(disk', trusted, issued)
             /\ disk'["cert"] = o /\ disk'["key"] = o /\ disk'["cert.next"] = c
             /\ disk'["cert.previous"] = Absent /\ disk'["key.previous"] = Absent
             /\ disk'["key.next"] = k
  <2>1. k \in Nat /\ c \in Nat
    BY <1>c, <1>t DEF Absent
  <2>2. /\ disk' \in [Slots -> Nat]
        /\ disk'["cert"] = o /\ disk'["key"] = o /\ disk'["cert.next"] = c
        /\ disk'["cert.previous"] = Absent /\ disk'["key.previous"] = Absent
        /\ disk'["key.next"] = k
    BY <1>d, <1>s, <1>t, <2>1 DEF Slots
  <2>3. Safe(disk', trusted, issued)
    BY <1>c, <1>d, <2>2, ShapesAreSafe
  <2> QED BY <2>2, <2>3
\* A write to one of them is such a change.
<1>w. /\ Write("key.next", goal) =>
           disk' = [disk EXCEPT !["key.next"] = goal, !["cert.next"] = disk["cert.next"]]
      /\ Write("cert.next", goal) =>
           disk' = [disk EXCEPT !["key.next"] = disk["key.next"], !["cert.next"] = goal]
      /\ UNCHANGED disk =>
           disk' = [disk EXCEPT !["key.next"] = disk["key.next"], !["cert.next"] = disk["cert.next"]]
  BY <1>t DEF Write, Slots
<1>1. CASE pc = "stageKey" /\ Write("key.next", goal) /\ pc' = "stageCert" /\ UNCHANGED <<call, trusted>>
  <2>1. /\ disk' \in [Slots -> Nat] /\ Safe(disk', trusted, issued)
        /\ Shape(o, o, Absent, goal, Absent, Absent)'
    BY <1>1, <1>d, <1>s, <1>w DEF Shape, call
  <2>2. Staged(o)'
    BY <1>1, <2>1 DEF Staged, Shape, call
  <2>3. TypeOK'
    BY <1>1, <1>c, <1>t, <2>1 DEF TypeOK, Steps, call
  <2> QED BY <1>1, <1>c, <1>t, <2>1, <2>2, <2>3 DEF CInv, Committing, call
<1>2. CASE pc = "stageCert" /\ Write("cert.next", goal) /\ pc' = "backupKey" /\ UNCHANGED <<call, trusted>>
  <2>0. disk["key.next"] = goal
    BY <1>2, <1>o DEF Staged, Shape
  <2>1. /\ disk' \in [Slots -> Nat] /\ Safe(disk', trusted, issued)
        /\ Shape(o, o, goal, goal, Absent, Absent)'
    BY <1>2, <1>d, <1>s, <1>w, <2>0 DEF Shape, call
  <2>2. Staged(o)'
    BY <1>2, <2>1 DEF Staged, Shape, call
  <2>3. TypeOK'
    BY <1>2, <1>c, <1>t, <2>1 DEF TypeOK, Steps, call
  <2> QED BY <1>2, <1>c, <1>t, <2>1, <2>2, <2>3 DEF CInv, Committing, call
<1>3. CASE Fail
  <2>1. \E k, c \in {Absent, goal} :
          disk' = [disk EXCEPT !["key.next"] = k, !["cert.next"] = c]
    <3>1. CASE StageKey
      BY <1>c, <1>s, <1>w, <3>1 DEF StageKey, WriteFails
    <3>2. CASE StageCert
      BY <1>c, <1>s, <1>w, <3>2 DEF StageCert
    <3> QED BY <3>1, <3>2
  <2>2. disk' \in [Slots -> Nat] /\ Safe(disk', trusted, issued)
    BY <1>d, <2>1
  <2> QED BY <1>3, <1>c, <1>t, <2>2, FailIsSafe
<1> QED BY <1>1, <1>2, <1>3 DEF StageKey, StageCert

\* A failed commit step with safe files: the recovery takes over.
LEMMA RollbackIsSafe ==
  ASSUME CInv, pc \in Committing, Rollback, disk' \in [Slots -> Nat], Safe(disk', trusted, issued),
         UNCHANGED <<issued, trusted, refused, crashes>>
  PROVE  CInv'
<1>1. TypeOK'
  BY DEF CInv, TypeOK, Rollback, Steps
<1> QED BY <1>1 DEF CInv, Rollback, Committing

\* A step of the commit that renames s to t.
LEMMA MoveIsSafe ==
  ASSUME CInv, pc \in Committing, NEW o \in trusted .. issued,
         NEW s \in Slots, NEW t \in Slots, NEW next \in Committing, next # "stageKey", next # "stageCert",
         disk \in [Slots -> Nat],
         LET d == [disk EXCEPT ![t] = disk[s], ![s] = Absent]
         IN  Safe(d, trusted, issued) /\ (pc' = next /\ disk' = d /\ UNCHANGED goal => Staged(o)'),
         CommitStep(pc, s, t, next)
  PROVE  CInv'
<1> DEFINE d == [disk EXCEPT ![t] = disk[s], ![s] = Absent]
<1>1. d \in [Slots -> Nat] /\ UNCHANGED <<issued, trusted, refused, crashes>>
  BY DEF CommitStep, Absent
<1>2. CASE Move(s, t) /\ pc' = next /\ UNCHANGED call
  <2>1. disk' = d /\ UNCHANGED <<caller, goal, pick, swept, errored>>
    BY <1>2 DEF Move, call
  <2>2. TypeOK'
    BY <1>1, <1>2, <2>1 DEF CInv, TypeOK, Steps, Committing
  <2>3. Staged(o)' /\ Safe(disk', trusted, issued)
    BY <1>2, <2>1
  <2> HIDE DEF d
  <2> QED BY <1>1, <1>2, <2>1, <2>2, <2>3 DEF CInv, Committing
<1>3. CASE (Move(s, t) \/ UNCHANGED disk) /\ Rollback
  <2>1. disk' \in [Slots -> Nat] /\ Safe(disk', trusted, issued)
    <3>1. CASE UNCHANGED disk
      BY <3>1 DEF CInv
    <3>2. CASE disk' = d
      BY <1>1, <3>2
    <3> QED BY <1>3, <3>1, <3>2 DEF Move
  <2> QED BY <1>1, <1>3, <2>1, RollbackIsSafe
<1> QED BY <1>2, <1>3 DEF CommitStep

LEMMA CommitSafe ==
  ASSUME CInv, BackupKey \/ BackupCert \/ CommitKey \/ CommitCert
  PROVE  CInv'
<1>t. issued \in Nat /\ trusted \in Nat /\ disk \in [Slots -> Nat]
  BY DEF CInv, TypeOK
<1>c. pc \in {"backupKey", "backupCert", "commitKey", "commitCert"} /\ pc \in Committing
  BY DEF BackupKey, BackupCert, CommitKey, CommitCert, CommitStep, Committing
<1>g. goal \in 1 .. issued
  BY <1>c, <1>t DEF CInv, Committing, TypeOK, Absent
<1>o. PICK o \in trusted .. issued : Staged(o)
  BY <1>c DEF CInv
<1>1. CASE BackupKey
  <2> DEFINE d == [disk EXCEPT !["key.previous"] = disk["key"], !["key"] = Absent]
  <2>1. pc = "backupKey" /\ CommitStep("backupKey", "key", "key.previous", "backupCert")
    BY <1>1 DEF BackupKey, CommitStep
  <2>2. Shape(o, o, goal, goal, Absent, Absent)
    BY <1>o, <2>1 DEF Staged
  <2>3. /\ d \in [Slots -> Nat] /\ d["cert"] = o /\ d["key"] = Absent /\ d["cert.next"] = goal
        /\ d["key.next"] = goal /\ d["cert.previous"] = Absent /\ d["key.previous"] = o
    BY <1>t, <2>2 DEF Shape, Slots, Absent
  <2>4. Safe(d, trusted, issued)
    <3> HIDE DEF d
    <3>1. /\ d["key.previous"] = o /\ d["key"] \in {Absent, goal}
          /\ d["cert"] = o /\ d["cert.previous"] = Absent
          /\ d["cert.next"] \in {Absent, goal} /\ d["key.next"] \in {Absent, goal}
          /\ d \in [Slots -> Nat]
      BY <2>3
    <3>2. CASE o = Absent
      BY <1>g, <3>1, <3>2, ShapesAreSafe
    <3>3. CASE o # Absent
      BY <3>1, <3>3 DEF Safe, Kept
    <3> QED BY <3>2, <3>3
  <2>5. pc' = "backupCert" /\ disk' = d /\ UNCHANGED goal => Staged(o)'
    BY <2>3 DEF Staged, Shape
  <2> HIDE DEF d
  <2>6. "key" \in Slots /\ "key.previous" \in Slots /\ "backupCert" \in Committing
    BY DEF Slots, Committing
  <2> QED BY <1>c, <1>t, <2>1, <2>4, <2>5, <2>6, MoveIsSafe DEF d
<1>2. CASE BackupCert
  <2> DEFINE d == [disk EXCEPT !["cert.previous"] = disk["cert"], !["cert"] = Absent]
  <2>1. pc = "backupCert" /\ CommitStep("backupCert", "cert", "cert.previous", "commitKey")
    BY <1>2 DEF BackupCert, CommitStep
  <2>2. Shape(o, Absent, goal, goal, Absent, o)
    BY <1>o, <2>1 DEF Staged
  <2>3. /\ d \in [Slots -> Nat] /\ d["cert"] = Absent /\ d["key"] = Absent /\ d["cert.next"] = goal
        /\ d["key.next"] = goal /\ d["cert.previous"] = o /\ d["key.previous"] = o
    BY <1>t, <2>2 DEF Shape, Slots, Absent
  <2>4. Safe(d, trusted, issued)
    <3> HIDE DEF d
    <3> QED BY <1>g, <2>3, ShapesAreSafe
  <2>5. pc' = "commitKey" /\ disk' = d /\ UNCHANGED goal => Staged(o)'
    BY <2>3 DEF Staged, Shape
  <2> HIDE DEF d
  <2>6. "cert" \in Slots /\ "cert.previous" \in Slots /\ "commitKey" \in Committing
    BY DEF Slots, Committing
  <2> QED BY <1>c, <1>t, <2>1, <2>4, <2>5, <2>6, MoveIsSafe DEF d
<1>3. CASE CommitKey
  <2> DEFINE d == [disk EXCEPT !["key"] = disk["key.next"], !["key.next"] = Absent]
  <2>1. pc = "commitKey" /\ CommitStep("commitKey", "key.next", "key", "commitCert")
    BY <1>3 DEF CommitKey, CommitStep
  <2>2. Shape(Absent, Absent, goal, goal, o, o)
    BY <1>o, <2>1 DEF Staged
  <2>3. /\ d \in [Slots -> Nat] /\ d["cert"] = Absent /\ d["key"] = goal /\ d["cert.next"] = goal
        /\ d["key.next"] = Absent /\ d["cert.previous"] = o /\ d["key.previous"] = o
    BY <1>t, <2>2 DEF Shape, Slots, Absent
  <2>4. Safe(d, trusted, issued)
    <3> HIDE DEF d
    <3> QED BY <1>g, <2>3, ShapesAreSafe
  <2>5. pc' = "commitCert" /\ disk' = d /\ UNCHANGED goal => Staged(o)'
    BY <2>3 DEF Staged, Shape
  <2> HIDE DEF d
  <2>6. "key" \in Slots /\ "key.next" \in Slots /\ "commitCert" \in Committing
    BY DEF Slots, Committing
  <2> QED BY <1>c, <1>t, <2>1, <2>4, <2>5, <2>6, MoveIsSafe DEF d
<1>4. CASE CommitCert
  <2> DEFINE d == [disk EXCEPT !["cert"] = disk["cert.next"], !["cert.next"] = Absent]
  <2>1. pc = "commitCert" /\ CommitStep("commitCert", "cert.next", "cert", "validate")
    BY <1>4 DEF CommitCert, CommitStep
  <2>2. Shape(Absent, goal, goal, Absent, o, o)
    BY <1>o, <2>1 DEF Staged
  <2>3. /\ d \in [Slots -> Nat] /\ d["cert"] = goal /\ d["key"] = goal /\ d["cert.next"] = Absent
        /\ d["key.next"] = Absent /\ d["cert.previous"] = o /\ d["key.previous"] = o
    BY <1>t, <2>2 DEF Shape, Slots, Absent
  <2>4. Safe(d, trusted, issued)
    <3>1. InPlace(d, goal) /\ goal \in trusted .. issued
      BY <1>c, <1>g, <1>t, <2>3 DEF InPlace, Absent, CInv, Committing
    <3> QED BY <3>1 DEF Safe
  <2>5. pc' = "validate" /\ disk' = d /\ UNCHANGED goal => Staged(o)'
    BY <2>3 DEF Staged, Shape
  <2> HIDE DEF d
  <2>6. "cert" \in Slots /\ "cert.next" \in Slots /\ "validate" \in Committing
    BY DEF Slots, Committing
  <2> QED BY <1>c, <1>t, <2>1, <2>4, <2>5, <2>6, MoveIsSafe DEF d
<1> QED BY <1>1, <1>2, <1>3, <1>4

LEMMA ValidateSafe ==
  ASSUME CInv, Validate
  PROVE  CInv'
<1>t. issued \in Nat /\ trusted \in Nat /\ disk \in [Slots -> Nat] /\ trusted <= issued
  BY DEF CInv, TypeOK
<1>c. /\ pc = "validate" /\ UNCHANGED <<disk, issued, trusted, refused, crashes>>
      /\ caller = "persist" /\ goal = issued /\ goal # Absent /\ swept = 0
  BY DEF Validate, CInv, Committing
<1>1. InPlace(disk, goal) /\ goal \in trusted .. issued
  BY <1>c, <1>t DEF CInv, Committing, Staged, Shape, InPlace
<1>2. CASE /\ pc' = "cleanup" /\ caller' = "commit"
           /\ UNCHANGED <<goal, pick, swept, errored>>
  <2>1. TypeOK'
    BY <1>2, <1>c DEF CInv, TypeOK, Steps
  <2> QED BY <1>1, <1>2, <1>c, <2>1 DEF CInv, Committing, InPlace, Swept
<1>3. CASE Rollback
  BY <1>3, <1>c, <1>t, RollbackIsSafe DEF CInv, Committing
<1> QED BY <1>2, <1>3 DEF Validate

\* The files stay safe when one more pair is issued.
LEMMA SafeGrows ==
  ASSUME CInv PROVE Safe(disk, trusted, issued + 1)
<1>1. issued \in Nat /\ trusted \in Nat /\ Safe(disk, trusted, issued)
  BY DEF CInv, TypeOK
<1>2. trusted .. issued \subseteq trusted .. (issued + 1) /\ 0 .. issued \subseteq 0 .. (issued + 1)
  BY <1>1
<1> QED BY <1>1, <1>2 DEF Safe

LEMMA CallsSafe ==
  ASSUME CInv, Start \/ CheckIdentity \/ PersistPair
  PROVE  CInv'
<1>t. TypeOK /\ issued \in Nat /\ trusted \in Nat /\ trusted <= issued
  BY DEF CInv, TypeOK
<1>1. /\ pc' = "recover" /\ pick' = Absent /\ swept' = 0 /\ errored' = FALSE
      /\ UNCHANGED <<disk, trusted, refused, crashes>>
      /\ \/ caller' \in {"start", "check"} /\ goal' = Absent /\ issued' = issued
         \/ caller' = "persist" /\ goal' = issued + 1 /\ issued' = issued + 1
  BY DEF Start, CheckIdentity, PersistPair, Enter
<1>2. errored' \in BOOLEAN
  BY <1>1, Zenon
<1>3. issued' \in Nat /\ goal' \in Nat /\ trusted <= issued'
      /\ (caller' = "persist" => goal' = issued' /\ goal' # Absent)
  BY <1>1, <1>t DEF Absent
<1>4. TypeOK'
  BY <1>1, <1>2, <1>3, <1>t DEF TypeOK, Steps, Absent
<1>5. Safe(disk, trusted, issued')
  BY <1>1, SafeGrows DEF CInv
<1> QED BY <1>1, <1>3, <1>4, <1>5 DEF CInv, Committing

LEMMA CInvNext == CInv /\ [Next]_vars => CInv'
<1> SUFFICES ASSUME CInv, [Next]_vars PROVE CInv'
  OBVIOUS
<1>1. CASE Crash
  <2>1. /\ ReturnTo("down") /\ UNCHANGED <<disk, issued, trusted, refused>> /\ crashes' = crashes + 1
    BY <1>1 DEF Crash
  <2>2. /\ disk \in [Slots -> Nat] /\ trusted \in 0 .. issued /\ refused \in BOOLEAN
        /\ crashes' \in Nat /\ Safe(disk, trusted, issued)
    BY <2>1 DEF CInv, TypeOK
  <2> QED BY <2>1, <2>2, CallIsOver
<1>2. CASE UNCHANGED vars
  BY <1>2 DEF vars, CInv, TypeOK, Restorable, Staged, Shape, Swept
<1> QED BY <1>1, <1>2, CallsSafe, RecoverySafe, RestoreSafe, CleanupSafe, StageSafe, CommitSafe,
           ValidateSafe DEF Next

LEMMA CInvAlways == Spec => []CInv
BY CInvInit, CInvNext, PTL DEF Spec

-----------------------------------------------------------------------------
(* What follows. *)

\* Every reachable state of the installation of a pair is well typed.
THEOREM CertPairTypeCorrect == Spec => []TypeOK
BY CInvAlways, PTL DEF CInv

\* For any number of pairs issued, of crashes and of failed file operations: from
\* the files as any step leaves them, recoverPair comes to the pair in use or to
\* a newer one, never to none and never to one that was replaced.
THEOREM PairIsNeverRolledBack == Spec => []NeverRolledBack
<1>1. CInv => NeverRolledBack
  BY SafeComesOut DEF CInv, TypeOK, NeverRolledBack
<1> QED BY <1>1, CInvAlways, PTL

\* A call that returns success with another pair in use has left a pair that
\* loads and no copy of a key beside it; PersistPair has installed its own.
THEOREM PairSuccessIsComplete == Spec => SuccessIsComplete
<1>1. CInv /\ [Next]_vars =>
        [pc # "idle" /\ pc' = "idle" /\ trusted' # trusted =>
           /\ Loads(disk'["cert"], disk'["key"]) /\ trusted' = disk'["cert"]
           /\ caller = "commit" => trusted' = goal
           /\ \A i \in 1 .. Len(Artifacts) : disk'[Artifacts[i]] = Absent]_vars
  <2> SUFFICES ASSUME CInv, [Next]_vars, pc # "idle", pc' = "idle", trusted' # trusted
               PROVE  /\ Loads(disk'["cert"], disk'["key"]) /\ trusted' = disk'["cert"]
                      /\ caller = "commit" => trusted' = goal
                      /\ \A i \in 1 .. Len(Artifacts) : disk'[Artifacts[i]] = Absent
    OBVIOUS
  <2>1. RecoverNothing \/ EndCleanup
    BY DEF Next, vars, Start, CheckIdentity, PersistPair, RecoverCurrent, RecoverCandidate,
           RecoverRefuses, Fail, RestoreKey, RestoreCert, Sweep, StageKey, StageCert,
           BackupKey, BackupCert, CommitKey, CommitCert, CommitStep, Validate, Crash
  <2>2. ~Fail /\ Recovered /\ UNCHANGED disk /\ trusted' = disk'["cert"]
    BY <2>1 DEF RecoverNothing, EndCleanup, Fail, Recovered
  <2>3. CASE RecoverNothing
    <3>1. \A s \in Slots : disk[s] = Absent
      BY <2>3 DEF RecoverNothing, Pristine
    <3>2. trusted = Absent
      BY <3>1 DEF CInv, Safe, InPlace, Kept, Slots
    <3> QED BY <2>2, <3>1, <3>2 DEF Slots
  <2>4. CASE EndCleanup
    <3>1. pc = "cleanup" /\ swept = 4 /\ ~errored
      BY <2>2, <2>4 DEF EndCleanup, Artifacts
    <3>2. PICK p \in trusted .. issued : InPlace(disk, p)
      BY <3>1 DEF CInv
    <3>3. Swept /\ (caller = "commit" => disk["cert"] = goal)
      BY <3>1 DEF CInv
    <3>4. \A i \in 1 .. Len(Artifacts) : disk[Artifacts[i]] = Absent
      <4>1. /\ Len(Artifacts) = 4 /\ Artifacts[1] = "cert.next" /\ Artifacts[2] = "key.next"
            /\ Artifacts[3] = "cert.previous" /\ Artifacts[4] = "key.previous"
        BY DEF Artifacts
      <4>2. \A i \in 1 .. 4 : i = 1 \/ i = 2 \/ i = 3 \/ i = 4
        OBVIOUS
      <4> QED BY <3>1, <3>3, <4>1, <4>2 DEF Swept
    <3> QED BY <2>2, <3>2, <3>3, <3>4 DEF InPlace, Loads
  <2> QED BY <2>1, <2>3, <2>4
<1> QED BY <1>1, CInvAlways, PTL DEF Spec, SuccessIsComplete

=============================================================================
