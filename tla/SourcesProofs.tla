---------------------------- MODULE SourcesProofs ----------------------------
(***************************************************************************)
(* Proofs about the loops that observe the host and the server: protocol   *)
(* negotiation with the end of a service that is not compatible            *)
(* (Compatibility), the auth log's collection cycle (AuthLog), the probes  *)
(* of topology discovery (Discovery) and the file integrity capture (Fim). *)
(* The four share no state.                                                *)
(***************************************************************************)
EXTENDS AuthLog, Compatibility, Discovery, Fim,
        SequenceTheorems, FiniteSetTheorems, WellFoundedInduction, TLAPS

-----------------------------------------------------------------------------
(* Protocol negotiation *)

\* What Negotiate accepts is compatible, and the schema it settles on is one that
\* both sides know, for any ranges of the server, given or left out.
LEMMA NegotiateIsSound ==
  ASSUME NEW d \in Descriptors, Negotiate(d)
  PROVE  /\ Compatible(d)
         /\ NegotiatedSchema(d) \in MinEventSchema .. MaxEventSchema
         /\ LET r == RangeOf(d.smin, d.smax, SchemaOf(d)) IN NegotiatedSchema(d) \in r[1] .. r[2]
<1> DEFINE r == RangeOf(d.smin, d.smax, SchemaOf(d))
           p == RangeOf(d.min, d.max, d.version)
<1>1. SchemaOf(d) \in Int
  BY DescriptorsAssumption, VersionAssumption DEF SchemaOf
<1>2. r[1] \in Int /\ r[2] \in Int /\ p[1] \in Int /\ p[2] \in Int
  BY <1>1, DescriptorsAssumption DEF RangeOf
<1>3. /\ r[1] <= r[2] /\ MaxEventSchema >= r[1] /\ MinEventSchema <= r[2]
      /\ p[1] <= Version /\ Version <= p[2]
  BY DEF Negotiate, Usable, Overlap
<1>4. NegotiatedSchema(d) = IF EventSchemaVersion > r[2] THEN r[2] ELSE EventSchemaVersion
  BY DEF NegotiatedSchema
<1> HIDE DEF r, p
<1>5. /\ NegotiatedSchema(d) \in MinEventSchema .. MaxEventSchema
      /\ NegotiatedSchema(d) \in r[1] .. r[2]
  BY <1>2, <1>3, <1>4, VersionAssumption
<1>6. Version \in p[1] .. p[2]
  BY <1>2, <1>3, VersionAssumption
<1>7. QED BY <1>5, <1>6 DEF Compatible, r, p

(***************************************************************************)
(* An answer that was judged good is still the answer while the server is  *)
(* not replaced.  The channel is filled before the heartbeat goroutine     *)
(* cancels, so that a cancelled context with an empty channel comes from a *)
(* signal, and a run ends with nil only in that state.                     *)
(***************************************************************************)
CompatInv ==
  /\ upgrades \in Nat /\ server \in {{d} : d \in Descriptors} \cup {{}}
  /\ verified \in BOOLEAN /\ signalledFirst \in BOOLEAN
  /\ fatal \in BOOLEAN /\ cancelled \in BOOLEAN
  /\ verified /\ upgrades = 0 => ~Incompatible
  /\ beat = "cancel" => fatal
  /\ cancelled /\ ~fatal => signalledFirst
  /\ main = "exited" /\ status = "nil" => cancelled /\ ~fatal

LEMMA InitCompat == COInit => CompatInv
<1> SUFFICES ASSUME COInit PROVE CompatInv
  OBVIOUS
<1>1. /\ verified \in BOOLEAN /\ signalledFirst \in BOOLEAN
      /\ fatal \in BOOLEAN /\ cancelled \in BOOLEAN
  BY Zenon DEF COInit
<1>2. QED BY <1>1 DEF COInit, CompatInv

LEMMA StepCompat == CompatInv /\ [CONext]_coVars => CompatInv'
<1> SUFFICES ASSUME CompatInv, [CONext]_coVars PROVE CompatInv'
  OBVIOUS
<1> USE DEF CompatInv
<1>1. CASE Upgrade
  BY <1>1 DEF Upgrade
<1>2. CASE Signal
  BY <1>2 DEF Signal, Incompatible
<1>3. CASE StartAgent
  BY <1>3 DEF StartAgent, Incompatible
<1>a. ASSUME ~cancelled, Answered PROVE CompatInv'
  BY <1>a DEF Answered, IsIncompatibility, Incompatible, Exit
<1>4. CASE Verify
  BY <1>4, <1>a DEF Verify
<1>5. CASE VerifyFails
  BY <1>5 DEF VerifyFails, Incompatible
<1>6. CASE NewCredential
  BY <1>6 DEF NewCredential, Incompatible
<1>7. CASE VerifyAgain
  BY <1>7, <1>a DEF VerifyAgain
<1>8. CASE Unverified
  BY <1>8 DEF Unverified, Incompatible
<1>9. CASE Beat
  BY <1>9 DEF Beat, FirstOfFail, Incompatible
<1>10. CASE Hands
  BY <1>10 DEF Hands, FirstOfFail, Incompatible
<1>11. CASE Cancels
  BY <1>11 DEF Cancels, FirstOfFail, Incompatible
<1>12. CASE LoopFatal
  BY <1>12 DEF LoopFatal, Exit, Incompatible
<1>13. CASE LoopDone
  BY <1>13 DEF LoopDone, Exit, Incompatible
<1>14. CASE UNCHANGED coVars
  BY <1>14 DEF coVars, Incompatible
<1>15. QED
  BY <1>1, <1>2, <1>3, <1>4, <1>5, <1>6, <1>7, <1>8, <1>9, <1>10, <1>11, <1>12, <1>13, <1>14
  DEF CONext

\* A server whose answer to the first heartbeat was judged good speaks the agent's
\* protocol and one of its event schemas, whatever ranges it states.
THEOREM VerifiedServerIsCompatible == COSpec => []VerifiedIsCompatible
<1>1. CompatInv => VerifiedIsCompatible
  <2> SUFFICES ASSUME CompatInv, verified, upgrades = 0, NEW d \in server, d.version > 0
               PROVE  /\ Compatible(d)
                      /\ NegotiatedSchema(d) \in MinEventSchema .. MaxEventSchema
                      /\ LET r == RangeOf(d.smin, d.smax, SchemaOf(d))
                         IN  NegotiatedSchema(d) \in r[1] .. r[2]
    BY DEF VerifiedIsCompatible
  <2>1. d \in Descriptors /\ Negotiate(d)
    BY DEF CompatInv, Incompatible
  <2>2. QED BY <2>1, NegotiateIsSound
<1>2. QED BY <1>1, InitCompat, StepCompat, PTL DEF COSpec

\* fail hands the error over before it cancels, and the main loop looks into the
\* channel once more: a run that met an incompatibility ends with an error unless
\* a signal came first.
THEOREM IncompatibilityIsTold == COSpec => []ExitTellsIncompatibility
<1>1. CompatInv => ExitTellsIncompatibility
  BY DEF CompatInv, ExitTellsIncompatibility
<1>2. QED BY <1>1, InitCompat, StepCompat, PTL DEF COSpec

-----------------------------------------------------------------------------
(* The auth log *)

\* The captured lines.
InBatch == {batch[k] : k \in 1 .. Len(batch)}

\* Line n is settled, or it will be when the captured lines are durable.
Accounted(n) ==
  \/ Settled(n) \/ n \in InBatch
  \/ HasKey(n) /\ \E m \in InBatch : Lines[m] = Lines[n]

\* Position and identity, of the memory, of the checkpoint or of a capture to be
\* rolled back: never of a file to come, and nothing without a file.
Position(pos, ino) == pos \in Nat /\ ino \in 0 .. inode /\ (ino = 0 => pos = 0)

AuthType ==
  /\ log \in Seq(Nat) /\ inode \in Nat \ {0} /\ written \in Nat
  /\ Position(offset, lastInode) /\ Position(checkpoint.offset, checkpoint.inode)
  /\ \A p \in pending : Position(p.offset, p.inode)
  /\ \E X : batch \in Seq(X)
  /\ sent \in Nat /\ others \in Nat /\ truncated \in BOOLEAN /\ noticed \in BOOLEAN
  /\ cycle \notin {"send", "decide"} => pending = {} /\ batch = <<>> /\ noticed = FALSE
  /\ pending = {} => batch = <<>>

\* Every line in front of the position is in the log and settled.
AllSettled(pos) == pos <= Len(log) /\ \A i \in 1 .. pos : Settled(log[i])

\* A key of the duplicate cache has a durable event or one among the captured.
CacheInv ==
  /\ \A k \in cache : \E m \in durable \cup InBatch : Lines[m] = k
  /\ \A p \in pending : \A k \in p.cache : \E m \in durable : Lines[m] = k

\* What the positions stand for.  A capture that began at the start of the log after
\* the last truncation has read all that is in front of its offset.
PositionInv ==
  /\ lastInode = inode /\ (~truncated \/ noticed) =>
       offset <= Len(log) /\ \A i \in 1 .. offset : Accounted(log[i])
  /\ checkpoint.inode = inode /\ ~truncated => AllSettled(checkpoint.offset)
  /\ \A p \in pending : p.inode = inode /\ ~truncated => AllSettled(p.offset)

\* Enough events sent: all captured lines are durable.
SentInv == sent >= Len(batch) => InBatch \subseteq durable

AuthInv == AuthType /\ CacheInv /\ PositionInv /\ SentInv

\* A set of numbers that is not empty has a least member.
LEMMA LeastOf ==
  ASSUME NEW S \in SUBSET Nat, S # {}
  PROVE  \E m \in S : \A n \in S : m <= n
<1>1. PICK k \in S : TRUE
  OBVIOUS
<1> DEFINE I == 0 .. k
           C == {T \in SUBSET I : \E m \in S : T = 0 .. m}
<1>2. IsFiniteSet(I)
  BY FS_Interval
<1>3. IsWellFoundedOn(StrictSubsetOrdering(I), SUBSET I)
  BY <1>2, FS_StrictSubsetOrderingWellFounded, FS_FiniteSubsetsOfFinite
<1>4. I \in C
  BY <1>1
<1>5. C \subseteq SUBSET I /\ C # {}
  BY <1>4
<1>6. PICK T \in C : \A U \in C : <<U, T>> \notin StrictSubsetOrdering(I)
  <2> HIDE DEF C, I
  <2> QED BY <1>3, <1>5, WFMin
<1>7. PICK m \in S : T = 0 .. m
  OBVIOUS
<1>8. ASSUME NEW n \in S, ~(m <= n) PROVE FALSE
  <2>1. n \in Nat /\ m \in Nat /\ n < m
    BY <1>8
  <2>2. 0 .. n \subseteq T /\ 0 .. n # T
    <3>1. m \in T /\ m \notin 0 .. n
      BY <1>7, <2>1
    <3>2. 0 .. n \subseteq 0 .. m
      BY <2>1
    <3>3. QED BY <1>7, <3>1, <3>2
  <2>3. T \subseteq I
    OBVIOUS
  <2>4. 0 .. n \in SUBSET I
    BY <2>2, <2>3
  <2>5. 0 .. n \in C
    BY <2>4
  <2> HIDE DEF C, I
  <2>6. QED BY <1>6, <2>2, <2>3, <2>4, <2>5 DEF StrictSubsetOrdering
<1>9. QED BY <1>8

\* Sets of positions are finite.
LEMMA EventsFinite ==
  ASSUME NEW start \in Nat, NEW c, NEW e \in Nat
  PROVE  IsFiniteSet(Events(start, c, e)) /\ Cardinality(Events(start, c, e)) \in Nat
<1>1. IsFiniteSet(start + 1 .. e)
  BY FS_Interval
<1>2. Events(start, c, e) \subseteq start + 1 .. e
  BY DEF Events
<1>3. QED BY <1>1, <1>2, FS_Subset, FS_CardinalityType

\* There is a place where reading stops: the end of the log, or the first line with
\* which the capture is full.
LEMMA ReadToFits ==
  ASSUME log \in Seq(Nat), NEW start \in Nat, start <= Len(log), NEW c
  PROVE  ReadTo(start, c) \in start .. Len(log)
<1> DEFINE N == Len(log)
           ev(e) == Events(start, c, e)
           n(e) == Cardinality(ev(e))
           Stops(e) == \/ n(e) = CaptureMax /\ e \in ev(e)
                       \/ n(e) < CaptureMax /\ e = N
<1>0. N \in Nat /\ CaptureMax \in Nat /\ CaptureMax > 0
  BY SizesAssumption
<1>1. \A e \in Nat : IsFiniteSet(ev(e)) /\ n(e) \in Nat
  BY EventsFinite
<1>2. SUFFICES \E e \in start .. N : Stops(e)
  BY DEF ReadTo
<1>3. CASE n(N) < CaptureMax
  BY <1>0, <1>3
<1>4. CASE ~(n(N) < CaptureMax)
  <2> DEFINE Full == {e \in start .. N : n(e) >= CaptureMax}
  <2>1. N \in Full
    BY <1>0, <1>1, <1>4
  <2>2. Full \in SUBSET Nat /\ Full # {}
    BY <2>1
  <2>3. PICK e \in Full : \A d \in Full : e <= d
    <3> HIDE DEF Full
    <3> QED BY <2>2, LeastOf
  <2>4. e \in start .. N /\ n(e) >= CaptureMax /\ e \in Nat
    BY <1>0
  <2>5. e # start
    <3>1. ev(start) = {}
      BY DEF Events
    <3>2. n(start) = 0
      BY <3>1, FS_EmptySet
    <3>3. QED BY <1>0, <2>4, <3>2
  <2>6. e - 1 \in start .. N /\ e - 1 \in Nat /\ e - 1 \notin Full
    BY <1>0, <2>3, <2>4, <2>5
  <2>7. n(e - 1) < CaptureMax
    BY <1>0, <1>1, <2>6
  <2>8. ev(e) \subseteq ev(e - 1) \cup {e} /\ (e \notin ev(e) => ev(e) \subseteq ev(e - 1))
    BY <2>4, <2>6 DEF Events
  <2>9. n(e - 1) \in Nat /\ IsFiniteSet(ev(e - 1)) /\ n(e) \in Nat
    BY <1>1, <2>4, <2>6
  <2>10. e \in ev(e)
    <3>1. CASE ev(e) \subseteq ev(e - 1)
      <4>1. n(e) <= n(e - 1)
        BY <2>9, <3>1, FS_Subset
      <4>2. QED BY <1>0, <2>4, <2>7, <2>9, <4>1
    <3>2. QED BY <2>8, <3>1
  <2>11. n(e) <= n(e - 1) + 1
    <3>1. e \notin ev(e - 1)
      BY <2>4 DEF Events
    <3>2. IsFiniteSet(ev(e - 1) \cup {e}) /\ Cardinality(ev(e - 1) \cup {e}) = n(e - 1) + 1
      BY <2>9, <3>1, FS_AddElement
    <3>3. QED BY <2>8, <3>2, FS_Subset
  <2>12. n(e) = CaptureMax
    BY <1>0, <2>4, <2>7, <2>9, <2>11
  <2>13. QED BY <2>4, <2>10, <2>12
<1>5. QED BY <1>3, <1>4

\* Every event of a capture is in the batch.
LEMMA CapturedHasAll ==
  ASSUME NEW start \in Nat, NEW upto \in Nat, NEW c, NEW b, b = Captured(start, c, upto)
  PROVE  /\ \E X : b \in Seq(X)
         /\ \A i \in Events(start, c, upto) : \E k \in 1 .. Len(b) : b[k] = log[i]
<1> DEFINE ev == Events(start, c, upto)
           n == Cardinality(ev)
           rank(i) == Cardinality({j \in ev : j <= i})
<1>1. IsFiniteSet(ev) /\ n \in Nat /\ ev \subseteq Nat
  BY EventsFinite DEF Events
<1>2. b = [k \in 1 .. n |-> log[CHOOSE i \in ev : rank(i) = k]]
  BY DEF Captured
<1>3. \A i \in ev : {j \in ev : j <= i} \subseteq ev /\ IsFiniteSet({j \in ev : j <= i})
  BY <1>1, FS_Subset
<1>4. ASSUME NEW i \in ev PROVE rank(i) \in 1 .. n
  <2> DEFINE S == {j \in ev : j <= i}
  <2>1. IsFiniteSet(S) /\ S \subseteq ev /\ i \in S
    BY <1>1, <1>3
  <2> HIDE DEF S
  <2>2. Cardinality(S) \in Nat /\ Cardinality(S) <= n
    BY <1>1, <2>1, FS_Subset, FS_CardinalityType
  <2>3. Cardinality(S) # 0
    BY <2>1, FS_EmptySet
  <2>4. Cardinality(S) \in 1 .. n
    BY <1>1, <2>2, <2>3
  <2>5. QED BY <2>4 DEF S
<1>5. ASSUME NEW i \in ev, NEW j \in ev, rank(i) = rank(j), i <= j PROVE i = j
  <2> DEFINE S == {m \in ev : m <= i}
             T == {m \in ev : m <= j}
  <2>1. S \subseteq T /\ IsFiniteSet(T) /\ j \in T /\ (j \in S => i = j)
    BY <1>1, <1>3, <1>5
  <2>2. Cardinality(S) = Cardinality(T)
    BY <1>5
  <2> HIDE DEF S, T
  <2>3. S = T
    BY <2>1, <2>2, FS_Subset
  <2>4. QED BY <2>1, <2>3
<1>6. ASSUME NEW i \in ev, NEW j \in ev, rank(i) = rank(j) PROVE i = j
  <2>1. i \in Nat /\ j \in Nat
    BY <1>1
  <2>2. i <= j \/ j <= i
    BY <2>1
  <2> HIDE DEF ev, rank
  <2>3. QED BY <1>5, <1>6, <2>2
<1> HIDE DEF ev, n, rank
<1>7. ASSUME NEW i \in ev PROVE rank(i) \in 1 .. n /\ b[rank(i)] = log[i]
  <2>1. rank(i) \in 1 .. n
    BY <1>4
  <2>2. (CHOOSE j \in ev : rank(j) = rank(i)) = i
    BY <1>6
  <2>3. QED BY <1>2, <2>1, <2>2
<1>8. b \in [1 .. n -> {b[k] : k \in 1 .. n}]
  BY <1>2
<1>9. b \in Seq({b[k] : k \in 1 .. n}) /\ Len(b) = n
  BY <1>1, <1>8, LenProperties
<1>10. QED BY <1>7, <1>9 DEF ev

\* A line that is read becomes an event, is nothing to report, or is a duplicate of a
\* key in the cache or of an event of the same capture.
LEMMA ReadIsAccounted ==
  ASSUME NEW start \in Nat, NEW upto \in Nat, NEW c, NEW i \in start + 1 .. upto
  PROVE  \/ Lines[log[i]] = "other" \/ i \in Events(start, c, upto)
         \/ HasKey(log[i]) /\ Lines[log[i]] \in c
         \/ HasKey(log[i]) /\ \E j \in Events(start, c, upto) : Lines[log[j]] = Lines[log[i]]
<1> SUFFICES ASSUME Lines[log[i]] # "other", i \notin Events(start, c, upto),
                    Lines[log[i]] \notin c
             PROVE  HasKey(log[i]) /\ \E j \in Events(start, c, upto) : Lines[log[j]] = Lines[log[i]]
  BY DEF HasKey, Events, Becomes
<1>1. HasKey(log[i])
  BY DEF HasKey, Events, Becomes
<1> DEFINE Same == {j \in start + 1 .. upto : Lines[log[j]] = Lines[log[i]]}
<1>2. Same \in SUBSET Nat /\ Same # {}
  OBVIOUS
<1>3. PICK j \in Same : \A d \in Same : j <= d
  <2> HIDE DEF Same
  <2> QED BY <1>2, LeastOf
<1>4. \A d \in start + 1 .. j - 1 : Lines[log[d]] # Lines[log[j]]
  BY <1>3
<1>5. Becomes(start, c, j)
  BY <1>1, <1>4 DEF Becomes, HasKey
<1>6. QED BY <1>1, <1>5 DEF Events

\* A line that is settled stays settled while events become durable.
LEMMA SettledStays ==
  ASSUME durable \subseteq durable'
  PROVE  \A n : Settled(n) => Settled(n)'
BY DEF Settled, HasKey

\* A line that is accounted for stays so while no captured line is dropped.
LEMMA AccountedStays ==
  ASSUME durable \subseteq durable', batch' = batch
  PROVE  \A n : Accounted(n) => Accounted(n)'
BY SettledStays DEF Accounted, InBatch, HasKey

\* When the captured lines are durable, or there are none, accounted for is settled.
LEMMA AccountedIsSettled ==
  ASSUME InBatch \subseteq durable
  PROVE  \A n : Accounted(n) => Settled(n)
BY DEF Accounted, Settled

\* Nothing is in an empty batch.
LEMMA EmptyBatch ==
  ASSUME batch = <<>>
  PROVE  InBatch = {}
BY DEF InBatch

LEMMA InitAuth == AuthInit => AuthInv
<1> SUFFICES ASSUME AuthInit PROVE AuthInv
  OBVIOUS
<1> USE DEF AuthInit
<1>1. AuthType
  <2>1. truncated \in BOOLEAN /\ noticed \in BOOLEAN
    BY Zenon
  <2>2. batch \in Seq({})
    OBVIOUS
  <2>3. \E X : batch \in Seq(X)
    BY <2>2
  <2>4. Position(offset, lastInode) /\ Position(checkpoint.offset, checkpoint.inode)
    BY DEF Position
  <2>5. QED BY <2>1, <2>3, <2>4 DEF AuthType
<1>2. CacheInv
  BY DEF CacheInv
<1>3. PositionInv
  BY DEF PositionInv
<1>4. SentInv
  BY EmptyBatch DEF SentInv
<1>5. QED BY <1>1, <1>2, <1>3, <1>4 DEF AuthInv

\* The log changes; the agent does nothing.
LEMMA LogAuth ==
  ASSUME AuthInv, WriteLine \/ Rotate \/ TruncateLog
  PROVE  AuthInv'
<1> USE DEF AuthInv
<1>1. /\ UNCHANGED <<offset, lastInode, cache, pending, checkpoint, cycle, batch, sent, others,
                     durable>>
      /\ inode' \in Nat \ {0} /\ inode <= inode' /\ inode' \in Nat /\ inode \in Nat
  BY DEF WriteLine, Rotate, TruncateLog, capturer, AuthType
<1>2. AuthType'
  <2>1. log' \in Seq(Nat) /\ written' \in Nat
    <3>1. log \in Seq(Nat) /\ written \in Nat /\ written + 1 \in Nat /\ <<>> \in Seq(Nat)
      BY DEF AuthType
    <3>2. Append(log, written + 1) \in Seq(Nat)
      BY <3>1
    <3>3. QED BY <3>1, <3>2 DEF WriteLine, Rotate, TruncateLog
  <2>2. truncated' \in BOOLEAN /\ noticed' \in BOOLEAN
    BY Zenon DEF WriteLine, Rotate, TruncateLog, AuthType
  <2>3. \A pos, ino : Position(pos, ino) => Position(pos, ino)'
    BY <1>1 DEF Position
  <2>4. noticed = FALSE => noticed' = FALSE
    BY DEF WriteLine, Rotate, TruncateLog
  <2>5. /\ Position(offset, lastInode)' /\ Position(checkpoint.offset, checkpoint.inode)'
        /\ (\A p \in pending : Position(p.offset, p.inode))'
    BY <1>1, <2>3 DEF AuthType
  <2>6. (\E X : batch \in Seq(X))' /\ sent' \in Nat /\ others' \in Nat
    BY <1>1 DEF AuthType
  <2>7. QED BY <1>1, <2>1, <2>2, <2>4, <2>5, <2>6 DEF AuthType
<1>3. CacheInv' /\ SentInv'
  BY <1>1 DEF CacheInv, SentInv, InBatch
<1>4. PositionInv'
  <2>1. CASE WriteLine
    <3>1. log \in Seq(Nat) /\ Len(log) \in Nat /\ written + 1 \in Nat
      BY DEF AuthType
    <3>2. Len(log') = Len(log) + 1 /\ \A i \in 1 .. Len(log) : log'[i] = log[i]
      BY <2>1, <3>1 DEF WriteLine
    <3>3. UNCHANGED <<inode, truncated, noticed>>
      BY <2>1 DEF WriteLine
    <3>4. \A n : Settled(n) => Settled(n)'
      BY <1>1, SettledStays
    <3>5. \A n : Accounted(n) => Accounted(n)'
      BY <1>1, AccountedStays
    <3>6. ASSUME NEW pos \in Nat, AllSettled(pos) PROVE AllSettled(pos)'
      <4>1. \A i \in 1 .. pos : i \in 1 .. Len(log)
        BY <3>1, <3>6 DEF AllSettled
      <4>2. QED BY <3>1, <3>2, <3>4, <3>6, <4>1 DEF AllSettled
    <3>7. ASSUME offset <= Len(log), \A i \in 1 .. offset : Accounted(log[i])
          PROVE  offset <= Len(log') /\ \A i \in 1 .. offset : Accounted(log[i])'
      <4>1. offset \in Nat
        BY DEF AuthType, Position
      <4>2. \A i \in 1 .. offset : i \in 1 .. Len(log)
        BY <3>1, <3>7, <4>1
      <4>3. QED BY <3>1, <3>2, <3>5, <3>7, <4>1, <4>2
    <3>8. checkpoint.offset \in Nat /\ \A p \in pending : p.offset \in Nat
      BY DEF AuthType, Position
    <3>9. (lastInode = inode /\ (~truncated \/ noticed) =>
             offset <= Len(log) /\ \A i \in 1 .. offset : Accounted(log[i]))'
      BY <1>1, <3>3, <3>7 DEF PositionInv
    <3>10. (checkpoint.inode = inode /\ ~truncated => AllSettled(checkpoint.offset))'
      BY <1>1, <3>3, <3>6, <3>8 DEF PositionInv
    <3>11. (\A p \in pending : p.inode = inode /\ ~truncated => AllSettled(p.offset))'
      BY <1>1, <3>3, <3>6, <3>8 DEF PositionInv
    <3>12. QED BY <3>9, <3>10, <3>11 DEF PositionInv
  <2>2. CASE Rotate
    <3>1. inode' = inode + 1
      BY <2>2 DEF Rotate
    <3>2. lastInode # inode' /\ checkpoint.inode # inode' /\ \A p \in pending : p.inode # inode'
      BY <1>1, <3>1 DEF AuthType, Position
    <3>3. QED BY <1>1, <3>2 DEF PositionInv
  <2>3. CASE TruncateLog
    <3>1. truncated' = TRUE /\ noticed' = FALSE
      BY <2>3 DEF TruncateLog
    <3>2. QED BY <3>1 DEF PositionInv
  <2>4. QED BY <2>1, <2>2, <2>3
<1>5. QED BY <1>2, <1>3, <1>4

\* A capture: what was in front of its start is settled, and what it read is in the
\* batch, of no interest, or a duplicate of what is.
LEMMA CaptureAuth ==
  ASSUME AuthInv, Capture
  PROVE  AuthInv'
<1> USE DEF AuthInv
<1> DEFINE start == StartOffset
           c == cache
           upto == ReadTo(start, c)
<1>1. /\ cycle = "idle" /\ pending = {} /\ batch = <<>> /\ noticed = FALSE
      /\ log \in Seq(Nat) /\ inode \in Nat \ {0} /\ Len(log) \in Nat
      /\ Position(offset, lastInode)
  BY DEF Capture, AuthType
<1>2. /\ UNCHANGED <<log, inode, written, checkpoint, durable, truncated>>
      /\ pending' = {Memory} /\ noticed' = (start = 0)
      /\ offset' = upto /\ lastInode' = inode
      /\ cache' = c \cup KeysRead(start, upto)
      /\ batch' = Captured(start, c, upto)
      /\ sent' = 0 /\ others' \in 0 .. 1 /\ cycle' \in {"decide", "send"}
  BY DEF Capture, fvars
<1>3. start \in Nat /\ start <= Len(log)
  BY <1>1 DEF StartOffset, Position
<1>4. upto \in start .. Len(log) /\ upto \in Nat
  <2>1. upto \in start .. Len(log)
    <3> HIDE DEF start, c
    <3> QED BY <1>1, <1>3, ReadToFits
  <2>2. QED BY <1>1, <1>3, <2>1
<1>5. InBatch = {}
  BY <1>1, EmptyBatch
<1>6. \A n : Accounted(n) => Settled(n)
  BY <1>5, AccountedIsSettled
<1>7. \A n : Settled(n) => Settled(n)'
  BY <1>2, SettledStays
<1>8. \A k \in c : \E m \in durable : Lines[m] = k
  BY <1>5 DEF CacheInv
<1>9. start # 0 => start = offset /\ lastInode = inode
  BY <1>1 DEF StartOffset, Position
<1>10. /\ \E X : batch' \in Seq(X)
       /\ \A i \in Events(start, c, upto) : log[i] \in InBatch'
  <2> HIDE DEF start, c, upto
  <2>1. /\ \E X : batch' \in Seq(X)
        /\ \A i \in Events(start, c, upto) : \E k \in 1 .. Len(batch') : batch'[k] = log[i]
    <3>1. PICK b : b = Captured(start, c, upto)
      OBVIOUS
    <3>2. /\ \E X : b \in Seq(X)
          /\ \A i \in Events(start, c, upto) : \E k \in 1 .. Len(b) : b[k] = log[i]
      BY <1>3, <1>4, <3>1, CapturedHasAll
    <3>3. batch' = b
      BY <1>2, <3>1
    <3>4. QED BY <3>2, <3>3
  <2>2. QED BY <2>1 DEF InBatch
<1> HIDE DEF start, c, upto
<1>11. ASSUME NEW i \in start + 1 .. upto
       PROVE  /\ Accounted(log[i])'
              /\ HasKey(log[i]) => \E m \in durable \cup InBatch' : Lines[m] = Lines[log[i]]
  <2>1. \/ Lines[log[i]] = "other" \/ i \in Events(start, c, upto)
        \/ HasKey(log[i]) /\ Lines[log[i]] \in c
        \/ HasKey(log[i]) /\ \E j \in Events(start, c, upto) : Lines[log[j]] = Lines[log[i]]
    BY <1>3, <1>4, ReadIsAccounted
  <2>2. CASE Lines[log[i]] = "other"
    BY <1>2, <2>2 DEF Accounted, Settled, HasKey
  <2>3. CASE i \in Events(start, c, upto)
    BY <1>2, <1>10, <2>3 DEF Accounted
  <2>4. CASE HasKey(log[i]) /\ Lines[log[i]] \in c
    <3>1. PICK m \in durable : Lines[m] = Lines[log[i]]
      BY <1>8, <2>4
    <3>2. QED BY <1>2, <2>4, <3>1 DEF Accounted, Settled, HasKey
  <2>5. CASE HasKey(log[i]) /\ \E j \in Events(start, c, upto) : Lines[log[j]] = Lines[log[i]]
    <3>1. PICK j \in Events(start, c, upto) : Lines[log[j]] = Lines[log[i]]
      BY <2>5
    <3>2. log[j] \in InBatch'
      BY <1>10
    <3>3. QED BY <1>2, <2>5, <3>1, <3>2 DEF Accounted, HasKey
  <2>6. QED BY <2>1, <2>2, <2>3, <2>4, <2>5
<1>12. AuthType'
  <2>1. noticed' \in BOOLEAN /\ truncated' \in BOOLEAN
    BY <1>2, Zenon DEF AuthType
  <2>2. Position(offset, lastInode)'
    BY <1>1, <1>2, <1>4 DEF Position
  <2>3. Position(checkpoint.offset, checkpoint.inode)'
    BY <1>2 DEF AuthType, Position
  <2>4. (\A p \in pending : Position(p.offset, p.inode))'
    BY <1>1, <1>2 DEF Memory, Position
  <2>5. (\E X : batch \in Seq(X))'
    BY <1>10
  <2>6. pending' # {} /\ cycle' \in {"send", "decide"} /\ sent' \in Nat /\ others' \in Nat
    BY <1>2
  <2>7. log' \in Seq(Nat) /\ inode' \in Nat \ {0} /\ written' \in Nat
    BY <1>2 DEF AuthType
  <2>8. QED BY <2>1, <2>2, <2>3, <2>4, <2>5, <2>6, <2>7 DEF AuthType
<1>13. CacheInv'
  <2>1. ASSUME NEW k \in cache' PROVE \E m \in durable' \cup InBatch' : Lines[m] = k
    <3>1. CASE k \in c
      BY <1>2, <1>8, <3>1
    <3>2. CASE k \in KeysRead(start, upto)
      <4>1. PICK i \in start + 1 .. upto : HasKey(log[i]) /\ k = Lines[log[i]]
        BY <3>2 DEF KeysRead
      <4>2. QED BY <1>2, <1>11, <4>1
    <3>3. QED BY <1>2, <3>1, <3>2
  <2>2. ASSUME NEW p \in pending', NEW k \in p.cache PROVE \E m \in durable' : Lines[m] = k
    <3>1. p.cache = c
      BY <1>2, <2>2 DEF Memory, c
    <3>2. QED BY <1>2, <1>8, <2>2, <3>1
  <2>3. QED BY <2>1, <2>2 DEF CacheInv
<1>14. PositionInv'
  <2>1. ASSUME ~truncated \/ start = 0, NEW i \in 1 .. upto PROVE Accounted(log[i])'
    <3>1. CASE i \in start + 1 .. upto
      BY <1>11, <3>1
    <3>2. CASE i \notin start + 1 .. upto
      <4>1. i \in 1 .. start
        BY <1>3, <1>4, <3>2
      <4>2. start # 0
        BY <1>3, <4>1
      <4>3. Accounted(log[i])
        BY <1>9, <2>1, <4>1, <4>2 DEF PositionInv
      <4>4. QED BY <1>2, <1>6, <1>7, <4>3 DEF Accounted
    <3>3. QED BY <3>1, <3>2
  <2>2. upto <= Len(log)
    BY <1>1, <1>3, <1>4
  <2>3. (lastInode = inode /\ (~truncated \/ noticed) =>
           offset <= Len(log) /\ \A i \in 1 .. offset : Accounted(log[i]))'
    BY <1>2, <2>1, <2>2
  <2>4. (checkpoint.inode = inode /\ ~truncated => AllSettled(checkpoint.offset))'
    BY <1>2, <1>7 DEF PositionInv, AllSettled
  <2>5. (\A p \in pending : p.inode = inode /\ ~truncated => AllSettled(p.offset))'
    <3>1. PICK q : q = offset
      OBVIOUS
    <3>2. ASSUME lastInode = inode, ~truncated PROVE AllSettled(q)'
      BY <1>2, <1>6, <1>7, <3>1, <3>2 DEF PositionInv, AllSettled
    <3>3. \A p \in pending' : p.offset = q /\ p.inode = lastInode
      BY <1>2, <3>1 DEF Memory
    <3>4. QED BY <1>2, <3>2, <3>3
  <2>6. QED BY <2>3, <2>4, <2>5 DEF PositionInv
<1>15. SentInv'
  <2>1. PICK X : batch' \in Seq(X)
    BY <1>10
  <2>2. Len(batch') \in Nat
    BY <2>1
  <2>3. sent' >= Len(batch') => InBatch' = {}
    BY <1>2, <2>2 DEF InBatch
  <2>4. QED BY <2>3 DEF SentInv
<1>16. QED BY <1>12, <1>13, <1>14, <1>15

\* Sending: more captured lines are durable, the first of them first.
LEMMA SendAuth ==
  ASSUME AuthInv, SendBatch \/ SendQueued \/ SendFails
  PROVE  AuthInv'
<1> USE DEF AuthInv
<1>1. /\ UNCHANGED <<log, inode, written, offset, lastInode, cache, pending, checkpoint, batch,
                     others, noticed, truncated>>
      /\ cycle = "send" /\ cycle' \in {"send", "decide"} /\ durable \subseteq durable'
  BY DEF SendBatch, SendQueued, SendFails, NextBatch, fvars, capturer
<1>2. PICK X : batch \in Seq(X)
  BY DEF AuthType
<1>3. Len(batch) \in Nat /\ sent \in Nat
  BY <1>2 DEF AuthType
<1>4. InBatch' = InBatch
  BY <1>1 DEF InBatch
<1>5. sent' \in Nat /\ SentInv'
  <2>1. CASE SendFails
    <3>1. UNCHANGED <<sent, durable>>
      BY <2>1 DEF SendFails
    <3>2. QED BY <1>1, <1>3, <1>4, <3>1 DEF SentInv
  <2>2. CASE NextBatch
    <3>1. /\ sent' = Lesser(sent + SendMax, Total)
          /\ durable' = durable \cup {batch[k] : k \in 1 .. AuthSent(sent')}
      BY <2>2 DEF NextBatch
    <3>2. sent' \in Nat
      BY <1>3, <3>1, SizesAssumption DEF Lesser, Total, AuthType
    <3>3. sent' >= Len(batch) => AuthSent(sent') = Len(batch)
      BY <1>3, <3>2 DEF AuthSent
    <3>4. sent' >= Len(batch) => InBatch \subseteq durable'
      BY <3>1, <3>3 DEF InBatch
    <3>5. QED BY <1>1, <1>4, <3>2, <3>4 DEF SentInv
  <2>3. QED BY <2>1, <2>2 DEF SendBatch, SendQueued
<1>6. AuthType'
  <2>1. (\E Y : batch \in Seq(Y))'
    BY <1>1, <1>2
  <2>2. Position(offset, lastInode)' /\ Position(checkpoint.offset, checkpoint.inode)'
    BY <1>1 DEF AuthType, Position
  <2>3. (\A p \in pending : Position(p.offset, p.inode))'
    BY <1>1 DEF AuthType, Position
  <2>4. QED BY <1>1, <1>5, <2>1, <2>2, <2>3 DEF AuthType
<1>7. CacheInv'
  BY <1>1, <1>4 DEF CacheInv
<1>8. PositionInv'
  <2>1. \A n : Settled(n) => Settled(n)'
    BY <1>1, SettledStays
  <2>2. \A n : Accounted(n) => Accounted(n)'
    BY <1>1, AccountedStays
  <2>3. QED BY <1>1, <2>1, <2>2 DEF PositionInv, AllSettled
<1>9. QED BY <1>5, <1>6, <1>7, <1>8

\* What the end of a cycle, a crash and a restart have in common: the log and what is
\* durable stay, and no capture is left.
LEMMA EmptyAuth ==
  ASSUME AuthInv, UNCHANGED <<log, inode, written, durable>>,
         pending' = {}, batch' = <<>>, sent' \in Nat, others' \in Nat, noticed' = FALSE,
         truncated' \in BOOLEAN, cycle' \notin {"send", "decide"},
         Position(offset', lastInode'), Position(checkpoint'.offset, checkpoint'.inode),
         \A k \in cache' : \E m \in durable : Lines[m] = k,
         lastInode' = inode /\ ~truncated' => AllSettled(offset'),
         checkpoint'.inode = inode /\ ~truncated' => AllSettled(checkpoint'.offset)
  PROVE  AuthInv'
<1>1. AuthType'
  <2>1. batch' \in Seq({})
    OBVIOUS
  <2>2. (\E X : batch \in Seq(X))'
    BY <2>1
  <2>3. Position(offset, lastInode)' /\ Position(checkpoint.offset, checkpoint.inode)'
    BY DEF Position
  <2>4. noticed' \in BOOLEAN
    BY Zenon
  <2>5. log' \in Seq(Nat) /\ inode' \in Nat \ {0} /\ written' \in Nat
    BY DEF AuthInv, AuthType
  <2>6. QED BY <2>2, <2>3, <2>4, <2>5 DEF AuthType
<1>2. InBatch' = {}
  BY DEF InBatch
<1>3. CacheInv'
  BY DEF CacheInv
<1>4. PositionInv'
  <2>1. \A n : Settled(n) => Settled(n)'
    BY SettledStays
  <2>2. QED BY <2>1 DEF PositionInv, AllSettled, Accounted
<1>5. SentInv'
  BY <1>2 DEF SentInv
<1>6. QED BY <1>1, <1>3, <1>4, <1>5 DEF AuthInv

\* The end of a cycle.  A commit finds every captured line durable, so what was
\* accounted for is settled; a rollback goes back to positions that are settled.
LEMMA EndAuth ==
  ASSUME AuthInv, Commit \/ RollbackCapture
  PROVE  AuthInv'
<1>1. CASE Commit
  <2> DEFINE new == [offset |-> offset, inode |-> lastInode]
  <2>1. /\ UNCHANGED <<log, inode, written, offset, lastInode, cache, durable>>
        /\ pending' = {} /\ batch' = <<>> /\ sent' = 0 /\ others' = 0 /\ noticed' = FALSE
        /\ cycle' = "idle" /\ sent >= Len(batch)
        /\ checkpoint' \in {new, checkpoint}
        /\ truncated' = (truncated /\ ~(noticed /\ checkpoint' = new))
    BY <1>1 DEF Commit, EndCycle, AllDurable, fvars, capturer
  <2>2. InBatch \subseteq durable
    BY <2>1 DEF AuthInv, SentInv
  <2>3. \A n : Accounted(n) => Settled(n)
    BY <2>2, AccountedIsSettled
  <2>4. lastInode = inode /\ (~truncated \/ noticed) => AllSettled(offset)
    BY <2>3 DEF AuthInv, PositionInv, AllSettled
  <2>5. \A k \in cache : \E m \in durable : Lines[m] = k
    BY <2>2 DEF AuthInv, CacheInv
  <2>6. truncated' \in BOOLEAN
    BY <2>1, Zenon DEF AuthInv, AuthType
  <2>7. Position(checkpoint'.offset, checkpoint'.inode) /\ Position(offset', lastInode')
    BY <2>1 DEF AuthInv, AuthType
  <2>8. ~truncated' => ~truncated \/ (noticed /\ checkpoint' = new)
    BY <2>1
  <2>9. checkpoint'.inode = inode /\ ~truncated' => AllSettled(checkpoint'.offset)
    BY <2>1, <2>4, <2>8 DEF AuthInv, PositionInv
  <2>10. lastInode' = inode /\ ~truncated' => AllSettled(offset')
    BY <2>1, <2>4, <2>8
  <2> HIDE DEF new
  <2>11. QED BY <2>1, <2>5, <2>6, <2>7, <2>9, <2>10, EmptyAuth
<1>2. CASE RollbackCapture
  <2>1. PICK p \in pending : offset' = p.offset /\ lastInode' = p.inode /\ cache' = p.cache
    BY <1>2 DEF RollbackCapture, RestoredCache
  <2>2. /\ UNCHANGED <<log, inode, written, checkpoint, durable, truncated>>
        /\ pending' = {} /\ batch' = <<>> /\ sent' = 0 /\ others' = 0 /\ noticed' = FALSE
        /\ cycle' = "idle"
    BY <1>2 DEF RollbackCapture, EndCycle, fvars
  <2>3. Position(offset', lastInode') /\ Position(checkpoint'.offset, checkpoint'.inode)
    BY <2>1, <2>2 DEF AuthInv, AuthType
  <2>4. \A k \in cache' : \E m \in durable : Lines[m] = k
    BY <2>1 DEF AuthInv, CacheInv
  <2>5. /\ lastInode' = inode /\ ~truncated' => AllSettled(offset')
        /\ checkpoint'.inode = inode /\ ~truncated' => AllSettled(checkpoint'.offset)
    BY <2>1, <2>2 DEF AuthInv, PositionInv
  <2>6. truncated' \in BOOLEAN
    BY <2>2 DEF AuthInv, AuthType
  <2>7. QED BY <2>2, <2>3, <2>4, <2>5, <2>6, EmptyAuth
<1>3. QED BY <1>1, <1>2

\* A key that expires, a crash and a restart.
LEMMA RestAuth ==
  ASSUME AuthInv, Expires \/ CrashAgent \/ LoadCheckpoint
  PROVE  AuthInv'
<1>1. /\ UNCHANGED <<log, inode, written, checkpoint, durable, truncated>>
      /\ truncated' \in BOOLEAN
      /\ Position(checkpoint'.offset, checkpoint'.inode)
      /\ checkpoint'.inode = inode /\ ~truncated' => AllSettled(checkpoint'.offset)
  BY DEF Expires, CrashAgent, LoadCheckpoint, fvars, AuthInv, AuthType, PositionInv
<1>2. CASE Expires
  <2>1. /\ UNCHANGED <<offset, lastInode, pending, cycle, batch, sent, others, noticed>>
        /\ cache' \subseteq cache /\ cycle = "idle"
    BY <1>2 DEF Expires
  <2>2. InBatch' = InBatch
    BY <2>1 DEF InBatch
  <2>3. \A n : (Settled(n) => Settled(n)') /\ (Accounted(n) => Accounted(n)')
    BY <1>1, <2>1, SettledStays, AccountedStays
  <2>4. AuthType'
    BY <1>1, <2>1 DEF AuthInv, AuthType, Position
  <2>5. CacheInv' /\ SentInv'
    BY <1>1, <2>1, <2>2 DEF AuthInv, CacheInv, SentInv
  <2>6. PositionInv'
    BY <1>1, <2>1, <2>3 DEF AuthInv, PositionInv, AllSettled
  <2>7. QED BY <2>4, <2>5, <2>6 DEF AuthInv
<1>3. CASE CrashAgent
  <2>1. /\ offset' = 0 /\ lastInode' = 0 /\ cache' = {} /\ pending' = {} /\ cycle' = "down"
        /\ batch' = <<>> /\ sent' = 0 /\ others' = 0 /\ noticed' = FALSE
    BY <1>3 DEF CrashAgent
  <2>2. inode \in Nat \ {0}
    BY DEF AuthInv, AuthType
  <2>3. Position(offset', lastInode') /\ lastInode' # inode
    BY <2>1, <2>2 DEF Position
  <2>4. QED BY <1>1, <2>1, <2>3, EmptyAuth
<1>4. CASE LoadCheckpoint
  <2>1. /\ cycle = "down" /\ cycle' \in {"idle", "unreadable"}
        /\ UNCHANGED <<cache, pending, batch, sent, others, noticed>>
        /\ \/ offset' = checkpoint.offset /\ lastInode' = checkpoint.inode
           \/ UNCHANGED <<offset, lastInode>>
    BY <1>4 DEF LoadCheckpoint
  <2>2. pending = {} /\ batch = <<>> /\ noticed = FALSE
    BY <2>1 DEF AuthInv, AuthType
  <2>3. InBatch = {}
    BY <2>2, EmptyBatch
  <2>4. \A n : Accounted(n) => Settled(n)
    BY <2>3, AccountedIsSettled
  <2>5. Position(offset', lastInode') /\ sent' \in Nat /\ others' \in Nat
    BY <2>1 DEF AuthInv, AuthType
  <2>6. \A k \in cache' : \E m \in durable : Lines[m] = k
    BY <2>1, <2>3 DEF AuthInv, CacheInv
  <2>7. lastInode' = inode /\ ~truncated' => AllSettled(offset')
    <3>1. lastInode = inode /\ ~truncated => AllSettled(offset)
      BY <2>4 DEF AuthInv, PositionInv, AllSettled
    <3>2. checkpoint.inode = inode /\ ~truncated => AllSettled(checkpoint.offset)
      BY DEF AuthInv, PositionInv
    <3>3. QED BY <1>1, <2>1, <3>1, <3>2
  <2>8. QED BY <1>1, <2>1, <2>2, <2>5, <2>6, <2>7, EmptyAuth
<1>5. QED BY <1>2, <1>3, <1>4

LEMMA StepAuth == AuthInv /\ [AuthNext]_authVars => AuthInv'
<1> SUFFICES ASSUME AuthInv, [AuthNext]_authVars PROVE AuthInv'
  OBVIOUS
<1>1. CASE WriteLine \/ Rotate \/ TruncateLog
  BY <1>1, LogAuth
<1>2. CASE Capture
  BY <1>2, CaptureAuth
<1>3. CASE SendBatch \/ SendQueued \/ SendFails
  BY <1>3, SendAuth
<1>4. CASE Commit \/ RollbackCapture
  BY <1>4, EndAuth
<1>5. CASE Expires \/ CrashAgent \/ LoadCheckpoint
  BY <1>5, RestAuth
<1>6. CASE UNCHANGED authVars
  <2>1. UNCHANGED <<log, inode, written, offset, lastInode, cache, pending, checkpoint, cycle,
                    batch, sent, others, noticed, durable, truncated>>
    BY <1>6 DEF authVars, fvars, capturer
  <2>2. AuthType'
    BY <2>1 DEF AuthInv, AuthType, Position
  <2>3. CacheInv' /\ SentInv'
    BY <2>1 DEF AuthInv, CacheInv, SentInv, InBatch
  <2>4. PositionInv'
    <3>1. \A n : (Settled(n) => Settled(n)') /\ (Accounted(n) => Accounted(n)')
      BY <2>1, SettledStays, AccountedStays
    <3>2. QED BY <2>1, <3>1 DEF AuthInv, PositionInv, AllSettled
  <2>5. QED BY <2>2, <2>3, <2>4 DEF AuthInv
<1>7. QED BY <1>1, <1>2, <1>3, <1>4, <1>5, <1>6 DEF AuthNext, Collect

\* The collector never moves past evidence: whatever lines are written, however the log
\* is rotated, sends fail, captures are rolled back, the checkpoint is not written or the
\* agent crashes, a line in front of a committed offset has a durable event, is a
\* duplicate of one that has, or is nothing to report.
THEOREM EvidenceIsNotSkipped == AuthSpec => []NoLineSkipped
<1>1. AuthInv => NoLineSkipped
  <2> SUFFICES ASSUME AuthInv, ~truncated PROVE
        /\ \A n \in ReadBy(checkpoint.offset, checkpoint.inode) : Settled(n)
        /\ pending = {} => \A n \in ReadBy(offset, lastInode) : Settled(n)
        /\ \A p \in pending : \A n \in ReadBy(p.offset, p.inode) : Settled(n)
    BY DEF NoLineSkipped
  <2>1. Len(log) \in Nat
    BY DEF AuthInv, AuthType
  <2>2. ASSUME NEW pos \in Nat, NEW ino, ino = inode => AllSettled(pos), NEW n \in ReadBy(pos, ino)
        PROVE  Settled(n)
    <3>1. PICK i \in 1 .. Lesser(pos, Len(log)) : ino = inode /\ n = log[i]
      BY DEF ReadBy
    <3>2. i \in 1 .. pos
      BY <2>1 DEF Lesser
    <3>3. QED BY <2>2, <3>1, <3>2 DEF AllSettled
  <2>3. checkpoint.offset \in Nat /\ offset \in Nat /\ \A p \in pending : p.offset \in Nat
    BY DEF AuthInv, AuthType, Position
  <2>4. \A n \in ReadBy(checkpoint.offset, checkpoint.inode) : Settled(n)
    BY <2>2, <2>3 DEF AuthInv, PositionInv
  <2>5. \A p \in pending : \A n \in ReadBy(p.offset, p.inode) : Settled(n)
    BY <2>2, <2>3 DEF AuthInv, PositionInv
  <2>6. ASSUME pending = {} PROVE \A n \in ReadBy(offset, lastInode) : Settled(n)
    <3>1. InBatch = {}
      BY <2>6, EmptyBatch DEF AuthInv, AuthType
    <3>2. \A n : Accounted(n) => Settled(n)
      BY <3>1, AccountedIsSettled
    <3>3. lastInode = inode => AllSettled(offset)
      BY <3>2 DEF AuthInv, PositionInv, AllSettled
    <3>4. QED BY <2>2, <2>3, <3>3
  <2>7. QED BY <2>4, <2>5, <2>6
<1>2. QED BY <1>1, InitAuth, StepAuth, PTL DEF AuthSpec

-----------------------------------------------------------------------------
(* Topology discovery *)

\* What a run goes by is within the local policy.
WithinLocal(cfg) ==
  /\ cfg.on => policy.on
  /\ cfg.public => policy.public
  /\ cfg.max \in Nat /\ cfg.max <= policy.max
  /\ cfg.cidrs \in Seq(Cidrs)
  /\ policy.cidrs # <<>> =>
       /\ cfg.cidrs # <<>>
       /\ \A c \in Range(cfg.cidrs) : \E d \in Range(policy.cidrs) : Span(c) \subseteq Span(d)

DiscType ==
  /\ policy \in LocalPolicies /\ remote \subseteq RemotePolicies
  /\ DOMAIN run = Triggers /\ DOMAIN runCfg = Triggers
  /\ DOMAIN targets = Triggers /\ DOMAIN probed = Triggers
  /\ \A t \in Triggers : (\E X : targets[t] \in Seq(X)) /\ IsFiniteSet(probed[t])

\* The plan of a run, what is probed of it and what is not.
RunInv(t) ==
  /\ run[t] \in {"plan", "probe"} => policy.on
  /\ run[t] = "plan" => WithinLocal(runCfg[t]) /\ probed[t] = {}
  /\ run[t] # "probe" => targets[t] = <<>>
  /\ \A k \in 1 .. Len(targets[t]) : Permitted(targets[t][k])
  /\ \A ip \in probed[t] : Permitted(ip)
  /\ Cardinality(probed[t]) + Len(targets[t]) <= policy.max
  /\ probed[t] # {} => policy.on

DiscInv == DiscType /\ \A t \in Triggers : RunInv(t)

\* A CIDR block with its first address in another one, and not larger, is part of it.
LEMMA InsideNests ==
  ASSUME NEW c \in Cidrs, NEW d \in Cidrs, Inside(c, d)
  PROVE  Span(c) \subseteq Span(d)
<1>1. /\ c.base \in Nat /\ c.size \in Nat \ {0} /\ d.base \in Nat /\ d.size \in Nat \ {0}
      /\ c.v6 = d.v6 /\ c.size <= d.size /\ c.base \in Span(d)
  BY CidrsAssumption DEF Inside
<1>2. c.base \in Span(c) /\ c.base + c.size - 1 \in Span(c) /\ d.base \in Span(d)
      /\ d.base + d.size - 1 \in Span(d)
  BY <1>1 DEF Span
<1>3. CASE Span(d) \subseteq Span(c)
  <2>1. d.base \in Span(c) /\ d.base + d.size - 1 \in Span(c)
    BY <1>2, <1>3
  <2>2. d.base = c.base /\ d.size = c.size
    BY <1>1, <2>1 DEF Span
  <2>3. QED BY <2>2 DEF Span
<1>4. CASE Span(c) \cap Span(d) = {}
  BY <1>1, <1>2, <1>4
<1>5. QED BY <1>1, <1>3, <1>4, CidrsAssumption

\* The hosts of a block are in it.
LEMMA HostsInSpan ==
  ASSUME NEW c \in Cidrs
  PROVE  HostsOf(c) \subseteq Span(c) /\ HostsOf(c) \subseteq Nat /\ IsFiniteSet(HostsOf(c))
<1>1. c.base \in Nat /\ c.size \in Nat \ {0}
  BY CidrsAssumption
<1>2. HostsOf(c) \subseteq Span(c)
  BY <1>1 DEF HostsOf, Span
<1>3. Span(c) \subseteq Nat
  BY <1>1 DEF Span
<1>4. IsFiniteSet(Span(c))
  <2>1. PICK last \in Int : last = c.base + c.size - 1
    BY <1>1
  <2>2. c.base \in Int
    BY <1>1
  <2>3. IsFiniteSet(c.base .. last)
    BY <2>1, <2>2, FS_Interval
  <2>4. QED BY <2>1, <2>3 DEF Span
<1>5. QED BY <1>2, <1>3, <1>4, FS_Subset

\* The networks of a plan, by their places.
LEMMA SelectedType ==
  ASSUME NEW cfg, cfg.cidrs \in Seq(Cidrs), NEW nets, nets = SelectedCidrs(cfg)
  PROVE  DOMAIN nets \subseteq Nat /\ IsFiniteSet(DOMAIN nets) /\ \A i \in DOMAIN nets : nets[i] \in Cidrs
<1>0. ASSUME NEW q \in Seq(Cidrs), DOMAIN nets \subseteq DOMAIN q,
             \A i \in DOMAIN nets : nets[i] = q[i]
      PROVE  DOMAIN nets \subseteq Nat /\ IsFiniteSet(DOMAIN nets) /\ \A i \in DOMAIN nets : nets[i] \in Cidrs
  <2>1. DOMAIN q = 1 .. Len(q) /\ Len(q) \in Nat
    OBVIOUS
  <2>2. IsFiniteSet(DOMAIN q)
    BY <2>1, FS_Interval
  <2>3. QED BY <1>0, <2>1, <2>2, FS_Subset
<1>1. CASE cfg.cidrs # <<>>
  <2>1. nets = cfg.cidrs
    BY <1>1 DEF SelectedCidrs
  <2>2. QED BY <1>0, <2>1
<1>2. CASE cfg.cidrs = <<>>
  <2>1. nets = [i \in {j \in DOMAIN HostCidrs : ~HostCidrs[j].v6 /\ IsPrivate(HostCidrs[j])} |->
                  HostCidrs[i]]
    BY <1>2 DEF SelectedCidrs
  <2>2. DOMAIN nets \subseteq DOMAIN HostCidrs /\ \A i \in DOMAIN nets : nets[i] = HostCidrs[i]
    BY <2>1
  <2>3. QED BY <1>0, <2>2, CidrsAssumption
<1>3. QED BY <1>1, <1>2

\* The eligible addresses are finitely many numbers.
LEMMA EligibleFinite ==
  ASSUME NEW nets, DOMAIN nets \subseteq Nat, IsFiniteSet(DOMAIN nets),
         \A i \in DOMAIN nets : nets[i] \in Cidrs
  PROVE  Eligible(nets) \subseteq Nat /\ IsFiniteSet(Eligible(nets))
<1> DEFINE H == {HostsOf(nets[i]) : i \in DOMAIN nets}
           g == [i \in DOMAIN nets |-> HostsOf(nets[i])]
<1>1. \A i \in DOMAIN nets : HostsOf(nets[i]) \subseteq Nat /\ IsFiniteSet(HostsOf(nets[i]))
  BY HostsInSpan
<1>2. g \in Surjection(DOMAIN nets, H)
  BY DEF Surjection
<1>3. IsFiniteSet(H)
  <2> HIDE DEF g, H
  <2> QED BY <1>2, FS_Surjection
<1>4. \A x \in H : IsFiniteSet(x)
  BY <1>1
<1>5. IsFiniteSet(UNION H)
  <2> HIDE DEF H
  <2> QED BY <1>3, <1>4, FS_UNION
<1>6. Eligible(nets) \subseteq UNION H /\ Eligible(nets) \subseteq Nat
  BY <1>1 DEF Eligible
<1>7. QED BY <1>5, <1>6, FS_Subset

\* The order of the walk is a strict and total order of the eligible addresses.
LEMMA WalkOrder ==
  ASSUME NEW nets, DOMAIN nets \subseteq Nat, NEW S \in SUBSET Nat,
         \A a \in S : \E i \in DOMAIN nets : a \in HostsOf(nets[i])
  PROVE  /\ \A a \in S : ~ComesBefore(nets, a, a)
         /\ \A a, b, c \in S :
              ComesBefore(nets, a, b) /\ ComesBefore(nets, b, c) => ComesBefore(nets, a, c)
         /\ \A a, b \in S : a = b \/ ComesBefore(nets, a, b) \/ ComesBefore(nets, b, a)
<1>1. ASSUME NEW a \in S PROVE \E i \in DOMAIN nets : FirstIn(nets, a, i)
  <2> DEFINE I == {i \in DOMAIN nets : a \in HostsOf(nets[i])}
  <2>1. I \in SUBSET Nat /\ I # {}
    OBVIOUS
  <2>2. PICK i \in I : \A j \in I : i <= j
    <3> HIDE DEF I
    <3> QED BY <2>1, LeastOf
  <2>3. \A j \in DOMAIN nets : j < i => a \notin HostsOf(nets[j])
    BY <2>2
  <2>4. QED BY <2>2, <2>3 DEF FirstIn
<1>2. ASSUME NEW a, NEW i \in DOMAIN nets, NEW j \in DOMAIN nets,
             FirstIn(nets, a, i), FirstIn(nets, a, j)
      PROVE  i = j
  BY <1>2 DEF FirstIn
<1>3. \A a \in S : ~ComesBefore(nets, a, a)
  BY <1>2 DEF ComesBefore
<1>4. ASSUME NEW a \in S, NEW b \in S, NEW c \in S,
             ComesBefore(nets, a, b), ComesBefore(nets, b, c)
      PROVE  ComesBefore(nets, a, c)
  <2>1. PICK i \in DOMAIN nets, j \in DOMAIN nets :
          FirstIn(nets, a, i) /\ FirstIn(nets, b, j) /\ (i < j \/ (i = j /\ a < b))
    BY <1>4 DEF ComesBefore
  <2>2. PICK k \in DOMAIN nets, l \in DOMAIN nets :
          FirstIn(nets, b, k) /\ FirstIn(nets, c, l) /\ (k < l \/ (k = l /\ b < c))
    BY <1>4 DEF ComesBefore
  <2>3. j = k
    BY <1>2, <2>1, <2>2
  <2>4. i \in Nat /\ j \in Nat /\ l \in Nat /\ a \in Nat /\ b \in Nat /\ c \in Nat
    OBVIOUS
  <2>5. i < l \/ (i = l /\ a < c)
    BY <2>1, <2>2, <2>3, <2>4
  <2>6. QED BY <2>1, <2>2, <2>5 DEF ComesBefore
<1>5. ASSUME NEW a \in S, NEW b \in S, a # b
      PROVE  ComesBefore(nets, a, b) \/ ComesBefore(nets, b, a)
  <2>1. PICK i \in DOMAIN nets : FirstIn(nets, a, i)
    BY <1>1
  <2>2. PICK j \in DOMAIN nets : FirstIn(nets, b, j)
    BY <1>1
  <2>3. i \in Nat /\ j \in Nat /\ a \in Nat /\ b \in Nat
    OBVIOUS
  <2>4. i < j \/ j < i \/ (i = j /\ a < b) \/ (j = i /\ b < a)
    BY <1>5, <2>3
  <2>5. QED BY <2>1, <2>2, <2>4 DEF ComesBefore
<1>6. QED BY <1>3, <1>4, <1>5

\* A strict total order of a finite set numbers its members: every rank is taken.
LEMMA RanksAreTaken ==
  ASSUME NEW S, IsFiniteSet(S), NEW R \in [S -> SUBSET S],
         \A a \in S : a \notin R[a],
         \A a, b \in S : a \in R[b] => R[a] \subseteq R[b],
         \A a, b \in S : a = b \/ a \in R[b] \/ b \in R[a]
  PROVE  \A k \in 1 .. Cardinality(S) : \E a \in S : Cardinality(R[a]) = k - 1
<1> DEFINE n == Cardinality(S)
           rank == [a \in S |-> Cardinality(R[a]) + 1]
<1>1. n \in Nat
  BY FS_CardinalityType
<1>2. \A a \in S : R[a] \subseteq S /\ IsFiniteSet(R[a]) /\ Cardinality(R[a]) \in Nat
  BY FS_Subset, FS_CardinalityType
<1>3. ASSUME NEW a \in S, NEW T, IsFiniteSet(T), R[a] \subseteq T, a \in T
      PROVE  Cardinality(R[a]) < Cardinality(T)
  <2>1. Cardinality(R[a]) <= Cardinality(T) /\ (Cardinality(R[a]) = Cardinality(T) => R[a] = T)
    BY <1>3, FS_Subset
  <2>2. R[a] # T
    BY <1>3
  <2>3. Cardinality(T) \in Nat
    BY <1>3, FS_CardinalityType
  <2>4. QED BY <1>2, <2>1, <2>2, <2>3
<1>4. \A a \in S : rank[a] \in 1 .. n
  <2> TAKE a \in S
  <2>1. Cardinality(R[a]) < n
    BY <1>2, <1>3
  <2>2. QED BY <1>1, <1>2, <2>1
<1>5. ASSUME NEW a \in S, NEW b \in S, a \in R[b] PROVE rank[a] # rank[b]
  <2>1. Cardinality(R[a]) < Cardinality(R[b])
    BY <1>2, <1>3, <1>5
  <2>2. QED BY <1>2, <2>1
<1>6. \A a, b \in S : rank[a] = rank[b] => a = b
  <2> TAKE a, b \in S
  <2> HAVE rank[a] = rank[b]
  <2> HIDE DEF rank
  <2> QED BY <1>5
<1>7. rank \in Injection(S, 1 .. n)
  <2>1. rank \in [S -> 1 .. n]
    BY <1>4
  <2> HIDE DEF rank, n
  <2>2. QED BY <1>6, <2>1 DEF Injection, IsInjective
<1>8. IsFiniteSet(1 .. n) /\ Cardinality(1 .. n) = n
  BY <1>1, FS_Interval
<1>9. rank \in Surjection(S, 1 .. n)
  <2> HIDE DEF rank, n
  <2>1. Cardinality(S) = Cardinality(1 .. n)
    BY <1>8 DEF n
  <2>2. QED BY <1>7, <1>8, <2>1, FS_Injection
<1>10. \A k \in 1 .. n : \E a \in S : rank[a] = k
  BY <1>9 DEF Surjection
<1>11. QED BY <1>2, <1>10

\* A plan has eligible addresses only, and no more than it may.
LEMMA PlanFits ==
  ASSUME NEW cfg, cfg.cidrs \in Seq(Cidrs), cfg.max \in Nat,
         NEW nets, nets = SelectedCidrs(cfg)
  PROVE  PlanTargets(cfg) \in Seq(Eligible(nets)) /\ Len(PlanTargets(cfg)) <= cfg.max
<1> DEFINE ips == Eligible(nets)
           n == IF Cardinality(ips) > cfg.max THEN cfg.max ELSE Cardinality(ips)
           R == [b \in ips |-> {a \in ips : ComesBefore(nets, a, b)}]
<1>1. DOMAIN nets \subseteq Nat /\ IsFiniteSet(DOMAIN nets) /\ \A i \in DOMAIN nets : nets[i] \in Cidrs
  BY SelectedType
<1>2. ips \subseteq Nat /\ IsFiniteSet(ips)
  BY <1>1, EligibleFinite
<1>3. \A a \in ips : \E i \in DOMAIN nets : a \in HostsOf(nets[i])
  BY DEF Eligible
<1>4. PlanTargets(cfg) =
        [k \in 1 .. n |-> CHOOSE ip \in ips : Cardinality({a \in ips : ComesBefore(nets, a, ip)}) = k - 1]
  BY DEF PlanTargets
<1> HIDE DEF ips
<1>5. Cardinality(ips) \in Nat
  BY <1>2, FS_CardinalityType
<1>6. n \in Nat /\ n <= cfg.max /\ n <= Cardinality(ips)
  BY <1>5
<1>7. \A k \in 1 .. Cardinality(ips) : \E a \in ips : Cardinality(R[a]) = k - 1
  <2>1. /\ \A a \in ips : ~ComesBefore(nets, a, a)
        /\ \A a, b, c \in ips :
             ComesBefore(nets, a, b) /\ ComesBefore(nets, b, c) => ComesBefore(nets, a, c)
        /\ \A a, b \in ips : a = b \/ ComesBefore(nets, a, b) \/ ComesBefore(nets, b, a)
    <3>1. ips \in SUBSET Nat
      BY <1>2
    <3>2. QED BY <1>1, <1>3, <3>1, WalkOrder
  <2>2. /\ R \in [ips -> SUBSET ips]
        /\ \A a \in ips : a \notin R[a]
        /\ \A a, b \in ips : a \in R[b] => R[a] \subseteq R[b]
        /\ \A a, b \in ips : a = b \/ a \in R[b] \/ b \in R[a]
    BY <2>1
  <2> HIDE DEF R
  <2>3. QED BY <1>2, <2>2, RanksAreTaken
<1>8. \A k \in 1 .. n : \E a \in ips : Cardinality({b \in ips : ComesBefore(nets, b, a)}) = k - 1
  <2> TAKE k \in 1 .. n
  <2>1. k \in 1 .. Cardinality(ips)
    BY <1>5, <1>6
  <2>2. PICK a \in ips : Cardinality(R[a]) = k - 1
    BY <1>7, <2>1
  <2>3. R[a] = {b \in ips : ComesBefore(nets, b, a)}
    OBVIOUS
  <2>4. QED BY <2>2, <2>3
<1> HIDE DEF n, R
<1>9. \A k \in 1 .. n : PlanTargets(cfg)[k] \in ips
  BY <1>4, <1>8
<1>10. PlanTargets(cfg) \in [1 .. n -> ips]
  BY <1>4, <1>9
<1>11. PlanTargets(cfg) \in Seq(ips) /\ Len(PlanTargets(cfg)) = n
  BY <1>6, <1>10, LenProperties
<1>12. QED BY <1>6, <1>11 DEF ips

\* An address of a plan that is not refused is one the local policy permits.
LEMMA PlanIsPermitted ==
  ASSUME policy \in LocalPolicies, NEW cfg, WithinLocal(cfg), ~PlanRefused(cfg),
         NEW ip \in Eligible(SelectedCidrs(cfg))
  PROVE  Permitted(ip)
<1>1. PICK nets : nets = SelectedCidrs(cfg)
  OBVIOUS
<1>2. \A i \in DOMAIN nets : nets[i] \in Cidrs
  BY <1>1, SelectedType DEF WithinLocal
<1>3. PICK i \in DOMAIN nets : ip \in HostsOf(nets[i])
  BY <1>1 DEF Eligible
<1>4. ip \notin HostIPs /\ ~IsDenied(ip)
  BY DEF Eligible
<1>5. PICK c \in Cidrs : c = nets[i]
  BY <1>2
<1>6. ip \in Span(c)
  BY <1>3, <1>5, HostsInSpan
<1>7. c \in Range(nets)
  BY <1>5 DEF Range
<1>8. ~c.v6 /\ (cfg.public \/ IsPrivate(c))
  BY <1>1, <1>7 DEF PlanRefused
<1>9. policy.public \/ \E d \in PrivateCidrs : ~d.v6 /\ ip \in Span(d)
  <2>1. CASE cfg.public
    BY <2>1 DEF WithinLocal
  <2>2. CASE IsPrivate(c)
    <3>1. PICK d \in PrivateCidrs : Inside(c, d)
      BY <2>2 DEF IsPrivate
    <3>2. d \in Cidrs /\ ~d.v6
      BY <1>8, <3>1 DEF Cidrs, Inside
    <3>3. QED BY <1>6, <3>1, <3>2, InsideNests
  <2>3. QED BY <1>8, <2>1, <2>2
<1>10. ASSUME policy.cidrs # <<>> PROVE \E d \in Range(policy.cidrs) : ip \in Span(d)
  <2>1. nets = cfg.cidrs
    BY <1>1, <1>10 DEF WithinLocal, SelectedCidrs
  <2>2. PICK d \in Range(policy.cidrs) : Span(c) \subseteq Span(d)
    BY <1>7, <1>10, <2>1 DEF WithinLocal
  <2>3. QED BY <1>6, <2>2
<1>11. QED BY <1>4, <1>9, <1>10 DEF Permitted

\* The remote configuration narrows: what TopologyDiscovery returns is within the
\* local policy.
LEMMA RemoteNarrows ==
  ASSUME policy \in LocalPolicies, remote \subseteq RemotePolicies,
         NEW cfg \in TopologyDiscovery
  PROVE  WithinLocal(cfg)
<1>1. /\ policy.max \in Nat \ {0} /\ policy.cidrs \in Seq(Cidrs)
      /\ policy.on \in BOOLEAN /\ policy.public \in BOOLEAN
  BY PoliciesAssumption, CidrsAssumption
<1>2. ASSUME NEW p \in LocalPolicies \cup RemotePolicies, NEW c \in Range(p.cidrs) PROVE c \in Cidrs
  BY DEF Cidrs
<1>3. CASE remote = {}
  <2>1. cfg = policy
    BY <1>3 DEF TopologyDiscovery
  <2>2. QED BY <1>1, <2>1 DEF WithinLocal
<1>4. CASE remote # {}
  <2>1. PICK r \in remote : ~Exceeds(policy, r) /\ cfg = Narrowed(policy, r)
    BY <1>4 DEF TopologyDiscovery
  <2>2. r.max \in Nat /\ r.cidrs \in Seq(Cidrs) /\ r.on \in BOOLEAN /\ r.public \in BOOLEAN
    BY PoliciesAssumption, CidrsAssumption
  <2>3. /\ cfg.on = (policy.on /\ r.on) /\ cfg.public = (policy.public /\ r.public)
        /\ cfg.max = IF r.max > 0 /\ r.max <= policy.max THEN r.max ELSE policy.max
        /\ cfg.cidrs = IF r.cidrs = <<>> THEN policy.cidrs ELSE r.cidrs
    BY <2>1 DEF Narrowed
  <2>4. (cfg.on => policy.on) /\ (cfg.public => policy.public)
    BY <2>3, Zenon
  <2>5. cfg.max \in Nat /\ cfg.max <= policy.max /\ cfg.cidrs \in Seq(Cidrs)
    BY <1>1, <2>2, <2>3
  <2>6. ASSUME policy.cidrs # <<>>
        PROVE  /\ cfg.cidrs # <<>>
               /\ \A c \in Range(cfg.cidrs) : \E d \in Range(policy.cidrs) : Span(c) \subseteq Span(d)
    <3>1. CASE r.cidrs = <<>>
      BY <2>3, <2>6, <3>1
    <3>2. CASE r.cidrs # <<>>
      <4>1. \A c \in Range(r.cidrs) : \E d \in Range(policy.cidrs) : Inside(c, d)
        BY <2>1, <2>6, <3>2 DEF Exceeds, cidrsWithin
      <4>2. \A c \in Range(r.cidrs) : \A d \in Range(policy.cidrs) : Inside(c, d) => Span(c) \subseteq Span(d)
        BY <1>2, InsideNests
      <4>3. QED BY <2>3, <3>2, <4>1, <4>2
    <3>3. QED BY <3>1, <3>2
  <2>7. QED BY <2>4, <2>5, <2>6 DEF WithinLocal
<1>5. QED BY <1>3, <1>4

LEMMA InitDisc == DiscInit => DiscInv
<1> SUFFICES ASSUME DiscInit PROVE DiscInv
  OBVIOUS
<1>1. ASSUME NEW t \in Triggers PROVE targets[t] = <<>> /\ probed[t] = {} /\ run[t] = "idle"
  BY DEF DiscInit
<1>2. <<>> \in Seq({}) /\ Len(<<>>) = 0 /\ IsFiniteSet({}) /\ Cardinality({}) = 0
  BY FS_EmptySet
<1>3. policy.max \in Nat
  BY PoliciesAssumption DEF DiscInit
<1>4. DiscType
  BY <1>1, <1>2 DEF DiscType, DiscInit
<1>5. ASSUME NEW t \in Triggers PROVE RunInv(t)
  <2>1. Len(targets[t]) = 0 /\ Cardinality(probed[t]) = 0
    BY <1>1, <1>2
  <2>2. Cardinality(probed[t]) + Len(targets[t]) <= policy.max
    BY <1>3, <2>1
  <2>3. \A k \in 1 .. Len(targets[t]) : Permitted(targets[t][k])
    BY <2>1
  <2>4. QED BY <1>1, <2>2, <2>3 DEF RunInv
<1>6. QED BY <1>4, <1>5 DEF DiscInv

\* A step of one run leaves the other alone, and no step changes the local policy.
LEMMA RunStep ==
  ASSUME DiscInv, NEW t \in Triggers, UNCHANGED <<policy, remote>>,
         DOMAIN run' = Triggers, DOMAIN runCfg' = Triggers,
         DOMAIN targets' = Triggers, DOMAIN probed' = Triggers,
         \A u \in Triggers : u # t =>
           /\ run'[u] = run[u] /\ runCfg'[u] = runCfg[u]
           /\ targets'[u] = targets[u] /\ probed'[u] = probed[u],
         \E X : targets'[t] \in Seq(X), IsFiniteSet(probed'[t]), RunInv(t)'
  PROVE  DiscInv'
<1>1. DiscType'
  BY DEF DiscInv, DiscType
<1>2. ASSUME NEW u \in Triggers, u # t PROVE RunInv(u)'
  BY <1>2 DEF DiscInv, RunInv, WithinLocal, Permitted
<1>3. QED BY <1>1, <1>2 DEF DiscInv

LEMMA StepDisc == DiscInv /\ [DiscNext]_discVars => DiscInv'
<1> SUFFICES ASSUME DiscInv, [DiscNext]_discVars PROVE DiscInv'
  OBVIOUS
<1>0. /\ policy \in LocalPolicies /\ policy.max \in Nat /\ remote \subseteq RemotePolicies
      /\ DOMAIN run = Triggers /\ DOMAIN runCfg = Triggers
      /\ DOMAIN targets = Triggers /\ DOMAIN probed = Triggers
  BY PoliciesAssumption DEF DiscInv, DiscType
<1>e. /\ <<>> \in Seq({}) /\ Len(<<>>) = 0 /\ IsFiniteSet({}) /\ Cardinality({}) = 0
      /\ \E X : <<>> \in Seq(X)
  BY FS_EmptySet
<1>1. CASE SetRemote
  <2>1. remote' \subseteq RemotePolicies /\ UNCHANGED <<policy, run, runCfg, targets, probed>>
    BY <1>1 DEF SetRemote
  <2>2. DiscType'
    BY <2>1 DEF DiscInv, DiscType
  <2>3. ASSUME NEW t \in Triggers PROVE RunInv(t)'
    BY <2>1 DEF DiscInv, RunInv, WithinLocal, Permitted
  <2>4. QED BY <2>2, <2>3 DEF DiscInv
<1>2. CASE UNCHANGED discVars
  BY <1>2 DEF discVars, DiscInv, DiscType, RunInv, WithinLocal, Permitted
<1>3. ASSUME NEW t \in Triggers,
             \/ BeginRun(t) \/ MakePlan(t) \/ PlanFails(t) \/ ProbeNext(t) \/ ProbesEnd(t)
             \/ ReportRun(t) \/ ReportFails(t)
      PROVE  DiscInv'
  <2>0. /\ RunInv(t) /\ IsFiniteSet(probed[t]) /\ Cardinality(probed[t]) \in Nat
        /\ \E X : targets[t] \in Seq(X)
    BY FS_CardinalityType DEF DiscInv, DiscType
  <2>t. PICK X : targets[t] \in Seq(X)
    BY <2>0
  <2>l. Len(targets[t]) \in Nat
    BY <2>t
  <2>1. CASE BeginRun(t)
    <3>1. PICK cfg \in TopologyDiscovery :
            cfg.on /\ run' = [run EXCEPT ![t] = "plan"] /\ runCfg' = [runCfg EXCEPT ![t] = cfg]
      BY <2>1 DEF BeginRun
    <3>2. /\ run[t] = "idle" /\ probed' = [probed EXCEPT ![t] = {}]
          /\ UNCHANGED <<policy, remote, targets>>
      BY <2>1 DEF BeginRun
    <3>3. WithinLocal(cfg)
      BY <1>0, RemoteNarrows
    <3>4. targets'[t] = <<>> /\ probed'[t] = {} /\ run'[t] = "plan" /\ runCfg'[t] = cfg
      BY <1>0, <2>0, <3>1, <3>2 DEF RunInv
    <3>5. WithinLocal(cfg)' /\ policy.on
      BY <3>1, <3>2, <3>3 DEF WithinLocal
    <3>6. RunInv(t)'
      BY <1>0, <1>e, <3>2, <3>4, <3>5 DEF RunInv
    <3>7. QED
      <4>1. /\ DOMAIN run' = Triggers /\ DOMAIN runCfg' = Triggers
            /\ DOMAIN targets' = Triggers /\ DOMAIN probed' = Triggers
            /\ \A u \in Triggers : u # t =>
                 /\ run'[u] = run[u] /\ runCfg'[u] = runCfg[u]
                 /\ targets'[u] = targets[u] /\ probed'[u] = probed[u]
        BY <1>0, <3>1, <3>2
      <4>2. QED BY <1>e, <3>2, <3>4, <3>6, <4>1, RunStep
  <2>2. CASE MakePlan(t)
    <3>1. PICK ping \in BOOLEAN :
            /\ run' = [run EXCEPT ![t] = IF ping THEN "probe" ELSE "report"]
            /\ targets' = [targets EXCEPT ![t] = IF ping THEN PlanTargets(runCfg[t]) ELSE <<>>]
      BY <2>2 DEF MakePlan
    <3>2. /\ run[t] = "plan" /\ ~PlanRefused(runCfg[t])
          /\ UNCHANGED <<policy, remote, runCfg, probed>>
      BY <2>2 DEF MakePlan
    <3>3. policy.on /\ WithinLocal(runCfg[t]) /\ probed[t] = {}
      BY <2>0, <3>2 DEF RunInv
    <3>4. PICK cfg : cfg = runCfg[t]
      OBVIOUS
    <3>5. PICK nets : nets = SelectedCidrs(cfg)
      OBVIOUS
    <3>6. PICK q : q = PlanTargets(cfg)
      OBVIOUS
    <3>7. q \in Seq(Eligible(nets)) /\ Len(q) <= cfg.max
      BY <3>3, <3>4, <3>5, <3>6, PlanFits DEF WithinLocal
    <3>8. \A ip \in Eligible(nets) : Permitted(ip)
      BY <1>0, <3>2, <3>3, <3>4, <3>5, PlanIsPermitted
    <3>9. \A k \in 1 .. Len(q) : Permitted(q[k])
      BY <3>7, <3>8
    <3>10. Len(q) \in Nat /\ Len(q) <= policy.max
      BY <1>0, <3>3, <3>4, <3>7 DEF WithinLocal
    <3>11. targets'[t] = (IF ping THEN q ELSE <<>>) /\ run'[t] \in {"probe", "report"}
           /\ (run'[t] # "probe" => ~ping)
      BY <1>0, <3>1, <3>4, <3>6
    <3>12. \A ip : Permitted(ip) => Permitted(ip)'
      BY <3>2 DEF Permitted
    <3>13. /\ \A k \in 1 .. Len(targets'[t]) : Permitted(targets'[t][k])
           /\ Len(targets'[t]) \in Nat /\ Len(targets'[t]) <= policy.max
           /\ run'[t] # "probe" => targets'[t] = <<>>
           /\ \E Y : targets'[t] \in Seq(Y)
      BY <1>0, <1>e, <3>7, <3>9, <3>10, <3>11
    <3>14. probed'[t] = {} /\ policy' = policy
      BY <3>2, <3>3
    <3>15. RunInv(t)'
      BY <1>0, <1>e, <3>3, <3>11, <3>12, <3>13, <3>14 DEF RunInv
    <3>16. /\ DOMAIN run' = Triggers /\ DOMAIN runCfg' = Triggers
           /\ DOMAIN targets' = Triggers /\ DOMAIN probed' = Triggers
           /\ \A u \in Triggers : u # t =>
                /\ run'[u] = run[u] /\ runCfg'[u] = runCfg[u]
                /\ targets'[u] = targets[u] /\ probed'[u] = probed[u]
      BY <1>0, <3>1, <3>2
    <3>17. QED BY <1>e, <3>2, <3>13, <3>14, <3>15, <3>16, RunStep
  <2>3. CASE ProbeNext(t)
    <3>1. /\ run[t] = "probe" /\ targets[t] # <<>>
          /\ probed' = [probed EXCEPT ![t] = probed[t] \cup {Head(targets[t])}]
          /\ targets' = [targets EXCEPT ![t] = Tail(targets[t])]
          /\ UNCHANGED <<policy, remote, run, runCfg>>
      BY <2>3 DEF ProbeNext
    <3>2. PICK q \in Seq(X) : q = targets[t]
      BY <2>t
    <3>3. /\ Head(q) = q[1] /\ Len(q) \in Nat \ {0} /\ Len(Tail(q)) = Len(q) - 1
          /\ Tail(q) \in Seq(X) /\ \A k \in 1 .. Len(Tail(q)) : Tail(q)[k] = q[k + 1]
      BY <3>1, <3>2
    <3>4. \A k \in 1 .. Len(q) : Permitted(q[k])
      BY <2>0, <3>2 DEF RunInv
    <3>5. \A k \in 1 .. Len(Tail(q)) : k + 1 \in 1 .. Len(q)
      BY <3>3
    <3>6. \A ip : Permitted(ip) => Permitted(ip)'
      BY <3>1 DEF Permitted
    <3>7. /\ targets'[t] = Tail(q) /\ probed'[t] = probed[t] \cup {Head(q)}
          /\ run'[t] = "probe" /\ policy' = policy
      BY <1>0, <3>1, <3>2
    <3>8. /\ \A k \in 1 .. Len(Tail(q)) : Permitted(Tail(q)[k])
          /\ Permitted(Head(q)) /\ \A ip \in probed[t] : Permitted(ip)
      BY <2>0, <3>3, <3>4, <3>5 DEF RunInv
    <3>9. /\ IsFiniteSet(probed[t] \cup {Head(q)})
          /\ Cardinality(probed[t] \cup {Head(q)}) \in Nat
          /\ Cardinality(probed[t] \cup {Head(q)}) <= Cardinality(probed[t]) + 1
      <4>1. PICK S, h : S = probed[t] /\ h = Head(q)
        OBVIOUS
      <4>2. IsFiniteSet(S) /\ Cardinality(S) \in Nat
        BY <2>0, <4>1
      <4>3. CASE h \in S
        <5>1. S \cup {h} = S
          BY <4>3
        <5>2. \A m \in Nat : m <= m + 1
          OBVIOUS
        <5>3. Cardinality(S) <= Cardinality(S) + 1
          BY <4>2, <5>2
        <5>4. probed[t] \cup {Head(q)} = S
          BY <4>1, <5>1
        <5>5. QED BY <4>1, <4>2, <5>3, <5>4, Zenon
      <4>4. CASE h \notin S
        <5>1. IsFiniteSet(S \cup {h}) /\ Cardinality(S \cup {h}) = Cardinality(S) + 1
          BY <4>2, <4>4, FS_AddElement
        <5>2. QED BY <4>1, <4>2, <5>1
      <4>5. QED BY <4>3, <4>4
    <3>10. Cardinality(probed'[t]) + Len(targets'[t]) <= policy.max
      <4>1. Cardinality(probed[t]) + Len(q) <= policy.max
        BY <2>0, <3>2 DEF RunInv
      <4>2. QED BY <1>0, <2>0, <3>3, <3>7, <3>9, <4>1
    <3>11. policy.on
      BY <2>0, <3>1 DEF RunInv
    <3>12. RunInv(t)'
      BY <3>6, <3>7, <3>8, <3>10, <3>11 DEF RunInv
    <3>13. /\ DOMAIN run' = Triggers /\ DOMAIN runCfg' = Triggers
           /\ DOMAIN targets' = Triggers /\ DOMAIN probed' = Triggers
           /\ \A u \in Triggers : u # t =>
                /\ run'[u] = run[u] /\ runCfg'[u] = runCfg[u]
                /\ targets'[u] = targets[u] /\ probed'[u] = probed[u]
      BY <1>0, <3>1
    <3>14. QED BY <3>1, <3>3, <3>7, <3>9, <3>12, <3>13, RunStep
  <2>4. CASE PlanFails(t) \/ ProbesEnd(t) \/ ReportRun(t) \/ ReportFails(t)
    <3>1. /\ UNCHANGED <<policy, remote, runCfg, probed>>
          /\ \E x \in {"idle", "report"} : run' = [run EXCEPT ![t] = x]
          /\ targets' = [targets EXCEPT ![t] = <<>>] \/ (run[t] = "report" /\ targets' = targets)
      BY <2>4 DEF PlanFails, ProbesEnd, ReportRun, ReportFails, FailRun
    <3>2. PICK x \in {"idle", "report"} : run' = [run EXCEPT ![t] = x]
      BY <3>1
    <3>3. run'[t] = x /\ targets'[t] = <<>> /\ probed'[t] = probed[t] /\ policy' = policy
      BY <1>0, <2>0, <3>1, <3>2 DEF RunInv
    <3>4. \A ip : Permitted(ip) => Permitted(ip)'
      BY <3>1 DEF Permitted
    <3>5. Cardinality(probed[t]) <= policy.max
      BY <1>0, <2>0, <2>l DEF RunInv
    <3>6. RunInv(t)'
      BY <1>0, <1>e, <2>0, <3>3, <3>4, <3>5 DEF RunInv
    <3>7. /\ DOMAIN run' = Triggers /\ DOMAIN runCfg' = Triggers
          /\ DOMAIN targets' = Triggers /\ DOMAIN probed' = Triggers
          /\ \A u \in Triggers : u # t =>
               /\ run'[u] = run[u] /\ runCfg'[u] = runCfg[u]
               /\ targets'[u] = targets[u] /\ probed'[u] = probed[u]
      BY <1>0, <3>1, <3>2
    <3>8. QED BY <1>e, <2>0, <3>1, <3>3, <3>6, <3>7, RunStep
  <2>5. QED BY <1>3, <2>1, <2>2, <2>3, <2>4
<1>4. QED BY <1>1, <1>2, <1>3 DEF DiscNext

\* Whatever the server asks for and whenever it changes its mind, a run of the
\* discovery probes nothing outside the local policy: the policy a run goes by is
\* narrowed when it begins, and the plan checks every network again.
THEOREM ProbesAreWithinPolicy == DiscSpec => []ProbesWithinLocalPolicy
<1>1. DiscInv => ProbesWithinLocalPolicy
  <2> SUFFICES ASSUME DiscInv, NEW t \in Triggers
               PROVE  /\ \A ip \in probed[t] : Permitted(ip)
                      /\ Cardinality(probed[t]) <= policy.max
                      /\ probed[t] # {} => policy.on
    BY DEF ProbesWithinLocalPolicy
  <2>1. RunInv(t)
    BY DEF DiscInv
  <2>2. PICK X : targets[t] \in Seq(X)
    BY DEF DiscInv, DiscType
  <2>3. Len(targets[t]) \in Nat /\ Cardinality(probed[t]) \in Nat /\ policy.max \in Nat
    BY <2>2, FS_CardinalityType, PoliciesAssumption DEF DiscInv, DiscType
  <2>4. QED BY <2>1, <2>3 DEF RunInv
<1>2. QED BY <1>1, InitDisc, StepDisc, PTL DEF DiscSpec

-----------------------------------------------------------------------------
(* File integrity monitoring *)

\* A file, a state and a cache entry: there is one or there is none.
AtMostOne(s) == s = {} \/ \E x : s = {x}

FimType ==
  /\ clock \in Nat /\ fimNow \in Nat /\ fimNow <= clock /\ todoPaths \in Seq(Paths)
  /\ DOMAIN fsFiles = Paths /\ DOMAIN curr = Paths /\ DOMAIN snapshot = Paths
  /\ DOMAIN hashCache = Paths /\ DOMAIN known = Paths
  /\ \A p \in Paths :
       /\ AtMostOne(fsFiles[p]) /\ AtMostOne(curr[p]) /\ AtMostOne(snapshot[p])
       /\ \A f \in fsFiles[p] : f.mtime \in Nat
       /\ \A e \in hashCache[p] : e.mtime \in Nat /\ e.at \in Nat /\ e.at <= clock
  /\ \A f \in looked : f.mtime \in Nat
  /\ \A p \in Paths : \A c \in curr[p] : c.at \in Nat /\ fimNow - c.at <= HashCacheTTL
  /\ fimPc \in {"idle", "stat", "hash"} /\ initialized \in BOOLEAN

\* An entry that is settled has the content of the file with its modification time,
\* unless that is another one under the same time.
SettledEntries ==
  \A p \in Paths \ masked : \A e \in hashCache[p], f \in fsFiles[p] :
    e.mtime = f.mtime /\ e.at >= e.mtime + SettleWindow => e.digest = f.content

\* The path between the look and the read.
InHand == IF fimPc = "hash" THEN {Head(todoPaths)} ELSE {}

\* What the scan has so far of the paths that have not changed.
ScanInv ==
  /\ fimPc = "hash" => /\ todoPaths # <<>>
                       /\ Head(todoPaths) \notin dirty => looked = fsFiles[Head(todoPaths)]
  /\ \A p \in Paths \ (dirty \cup InHand \cup masked) : \A c \in curr[p] :
       c.digest # "" => \E f \in fsFiles[p] : f.content = c.digest
  /\ fimPc # "idle" => \A p \in Paths \ (dirty \cup Range(todoPaths)) :
                         curr[p] = {} => fsFiles[p] = {}

\* What the reader knows is what the last scan found.
KnownInv ==
  initialized =>
    \A p \in Paths \ gaps :
      /\ snapshot[p] = {} => known[p] = Gone
      /\ \A o \in snapshot[p] : o.digest = known[p] /\ o.digest # ""

FimInv == FimType /\ SettledEntries /\ ScanInv /\ KnownInv /\ ReportsTellContents

\* A modification time that is set now is less than one unit old.
LEMMA StampIsRecent ==
  ASSUME clock \in Nat
  PROVE  Stamp \in Nat /\ clock < Stamp + Grain
<1>1. Grain \in Nat \ {0}
  BY FimAssumption
<1>2. \A n \in Nat, g \in Nat \ {0} : (n \div g) * g \in Nat /\ n < (n \div g) * g + g
  OBVIOUS
<1>3. QED BY <1>1, <1>2 DEF Stamp

LEMMA InitFim == FimInit => FimInv
<1> SUFFICES ASSUME FimInit PROVE FimInv
  OBVIOUS
<1>1. /\ clock = 0 /\ fimPc = "idle" /\ fimNow = 0 /\ todoPaths = <<>> /\ looked = {}
      /\ curr = [p \in Paths |-> {}] /\ snapshot = [p \in Paths |-> {}] /\ initialized = FALSE
      /\ hashCache = [p \in Paths |-> {}] /\ known = [p \in Paths |-> Gone]
      /\ dirty = {} /\ masked = {} /\ gaps = {}
  BY DEF FimInit, Nothing
<1>2. PICK c \in Contents, a \in Attrs :
        fsFiles = [p \in Paths |-> IF p = WatchPaths[1]
                                 THEN {[inode |-> 1, content |-> c, mtime |-> 0, attr |-> a]}
                                 ELSE {}]
  BY DEF FimInit
<1>3. FimType
  <2>1. initialized \in BOOLEAN
    BY <1>1, Zenon
  <2>2. todoPaths \in Seq(Paths)
    BY <1>1
  <2>3. ASSUME NEW p \in Paths PROVE AtMostOne(fsFiles[p]) /\ \A f \in fsFiles[p] : f.mtime \in Nat
    <3>1. PICK g : g = [inode |-> 1, content |-> c, mtime |-> 0, attr |-> a]
      OBVIOUS
    <3>2. g.mtime = 0
      BY <3>1
    <3>3. fsFiles[p] = {g} \/ fsFiles[p] = {}
      BY <1>2, <3>1
    <3>4. QED BY <3>2, <3>3 DEF AtMostOne
  <2>4. /\ DOMAIN fsFiles = Paths /\ DOMAIN curr = Paths /\ DOMAIN snapshot = Paths
        /\ DOMAIN hashCache = Paths /\ DOMAIN known = Paths
    BY <1>1, <1>2
  <2>5. \A p \in Paths : curr[p] = {} /\ snapshot[p] = {} /\ hashCache[p] = {}
    BY <1>1
  <2>6. \A p \in Paths : AtMostOne(curr[p]) /\ AtMostOne(snapshot[p])
    BY <2>5 DEF AtMostOne
  <2>7. fimPc \in {"idle", "stat", "hash"} /\ clock \in Nat /\ fimNow \in Nat /\ fimNow <= clock
    BY <1>1
  <2>8. QED BY <1>1, <2>1, <2>2, <2>3, <2>4, <2>5, <2>6, <2>7 DEF FimType
<1>4. SettledEntries
  BY <1>1 DEF SettledEntries
<1>5. ScanInv
  BY <1>1 DEF ScanInv
<1>6. KnownInv /\ ReportsTellContents
  BY <1>1 DEF KnownInv, ReportsTellContents
<1>7. QED BY <1>3, <1>4, <1>5, <1>6 DEF FimInv

\* Files change: only what is then dirty, and no settled entry comes to be about
\* another content.
LEMMA FilesChange ==
  ASSUME FimInv, NEW ps \in SUBSET Paths, UNCHANGED <<clock, capture>>, dirty' = dirty \cup ps,
         masked \subseteq masked', masked' \subseteq masked \cup ps,
         DOMAIN fsFiles' = Paths, \A p \in Paths \ ps : fsFiles'[p] = fsFiles[p],
         \A p \in ps : AtMostOne(fsFiles'[p]),
         \A p \in ps : \A f \in fsFiles'[p] : f.mtime \in Nat,
         \A p \in ps \ masked' : \A e \in hashCache[p], f \in fsFiles'[p] :
           e.mtime = f.mtime /\ e.at >= e.mtime + SettleWindow => e.digest = f.content
  PROVE  FimInv'
<1>0. UNCHANGED <<fimPc, fimNow, todoPaths, looked, curr, snapshot, initialized, hashCache, known,
                  gaps, InHand>>
  BY DEF capture, InHand
<1>1. FimType'
  <2>1. ASSUME NEW p \in Paths PROVE AtMostOne(fsFiles[p])' /\ \A f \in fsFiles'[p] : f.mtime \in Nat
    BY DEF FimInv, FimType, AtMostOne
  <2>2. QED BY <1>0, <2>1 DEF FimInv, FimType, AtMostOne
<1>2. SettledEntries'
  BY <1>0 DEF FimInv, SettledEntries
<1>3. ScanInv'
  <2>1. fimPc = "hash" => Head(todoPaths) \in Paths
    <3>1. todoPaths \in Seq(Paths) /\ (fimPc = "hash" => todoPaths # <<>>)
      BY DEF FimInv, ScanInv, FimType
    <3>2. QED BY <3>1
  <2>2. (fimPc = "hash" => /\ todoPaths # <<>>
                           /\ Head(todoPaths) \notin dirty => looked = fsFiles[Head(todoPaths)])'
    BY <1>0, <2>1 DEF FimInv, ScanInv
  <2>3. (\A p \in Paths \ (dirty \cup InHand \cup masked) : \A c \in curr[p] :
           c.digest # "" => \E f \in fsFiles[p] : f.content = c.digest)'
    <3>1. \A p \in Paths \ (dirty' \cup InHand \cup masked') :
            fsFiles'[p] = fsFiles[p] /\ p \in Paths \ (dirty \cup InHand \cup masked)
      OBVIOUS
    <3>2. \A p \in Paths \ (dirty \cup InHand \cup masked) : \A c \in curr[p] :
            c.digest # "" => \E f \in fsFiles[p] : f.content = c.digest
      BY DEF FimInv, ScanInv
    <3>3. ASSUME NEW p \in Paths \ (dirty' \cup InHand \cup masked'), NEW c \in curr[p], c.digest # ""
          PROVE  \E f \in fsFiles'[p] : f.content = c.digest
      <4>1. p \in Paths \ (dirty \cup InHand \cup masked) /\ fsFiles'[p] = fsFiles[p]
        BY <3>1
      <4>2. PICK f \in fsFiles[p] : f.content = c.digest
        BY <3>2, <3>3, <4>1
      <4>3. QED BY <4>1, <4>2
    <3>4. QED BY <1>0, <3>3
  <2>4. (fimPc # "idle" => \A p \in Paths \ (dirty \cup Range(todoPaths)) :
                             curr[p] = {} => fsFiles[p] = {})'
    BY <1>0 DEF FimInv, ScanInv
  <2>5. QED BY <2>2, <2>3, <2>4 DEF ScanInv
<1>4. KnownInv'
  BY <1>0 DEF FimInv, KnownInv
<1>5. ReportsTellContents'
  BY <1>0 DEF FimInv, ReportsTellContents
<1>6. QED BY <1>1, <1>2, <1>3, <1>4, <1>5 DEF FimInv

\* A settled entry is older than a modification time that is set now.
LEMMA SettledIsOlder ==
  ASSUME FimInv, NEW p \in Paths, NEW e \in hashCache[p], e.at >= e.mtime + SettleWindow
  PROVE  e.mtime # Stamp
<1>1. e.mtime \in Nat /\ e.at \in Nat /\ e.at <= clock /\ clock \in Nat
  BY DEF FimInv, FimType
<1>2. Stamp \in Nat /\ clock < Stamp + Grain
  BY <1>1, StampIsRecent
<1>3. Grain \in Nat /\ SettleWindow \in Nat /\ Grain <= SettleWindow
  BY FimAssumption
<1>4. QED BY <1>1, <1>2, <1>3

\* Writes, new attributes, new files and deletions.
LEMMA FilesFim ==
  ASSUME FimInv, NEW p \in Paths,
         WriteContent(p) \/ ChangeAttr(p) \/ CreateFile(p) \/ DeleteFile(p)
  PROVE  FimInv'
<1>0. /\ DOMAIN fsFiles = Paths /\ clock \in Nat
      /\ \A q \in Paths : AtMostOne(fsFiles[q]) /\ \A f \in fsFiles[q] : f.mtime \in Nat
  BY DEF FimInv, FimType
<1>00. UNCHANGED masked
  BY DEF WriteContent, ChangeAttr, CreateFile, DeleteFile
<1>1. CASE WriteContent(p) \/ CreateFile(p)
  <2>1. PICK f : /\ f.mtime = Stamp
                 /\ Touch({p}, [fsFiles EXCEPT ![p] = {f}])
    <3>1. CASE WriteContent(p)
      <4>1. PICK g \in fsFiles[p], c \in Contents :
              Touch({p}, [fsFiles EXCEPT ![p] = {[g EXCEPT !.content = c, !.mtime = Stamp]}])
        BY <3>1 DEF WriteContent
      <4>2. [g EXCEPT !.content = c, !.mtime = Stamp].mtime = Stamp
        OBVIOUS
      <4>3. QED BY <4>1, <4>2
    <3>2. CASE CreateFile(p)
      <4>1. PICK c \in Contents, a \in Attrs :
              Touch({p}, [fsFiles EXCEPT ![p] = {[inode |-> inodes', content |-> c,
                                                mtime |-> Stamp, attr |-> a]}])
        BY <3>2 DEF CreateFile
      <4>2. PICK g : g = [inode |-> inodes', content |-> c, mtime |-> Stamp, attr |-> a]
        OBVIOUS
      <4>3. g.mtime = Stamp
        BY <4>2
      <4>4. QED BY <4>1, <4>2, <4>3
    <3>3. QED BY <1>1, <3>1, <3>2
  <2>2. /\ UNCHANGED <<clock, capture>> /\ dirty' = dirty \cup {p}
        /\ fsFiles' = [fsFiles EXCEPT ![p] = {f}]
    BY <2>1 DEF Touch
  <2>3. fsFiles'[p] = {f} /\ DOMAIN fsFiles' = Paths /\ \A q \in Paths \ {p} : fsFiles'[q] = fsFiles[q]
    BY <1>0, <2>2
  <2>4. Stamp \in Nat
    BY <1>0, StampIsRecent
  <2>5. \A e \in hashCache[p] : ~(e.mtime = f.mtime /\ e.at >= e.mtime + SettleWindow)
    BY <2>1, SettledIsOlder
  <2>6. QED BY <1>00, <2>1, <2>2, <2>3, <2>4, <2>5, FilesChange DEF AtMostOne
<1>2. CASE ChangeAttr(p)
  <2>1. PICK g \in fsFiles[p], a \in Attrs : Touch({p}, [fsFiles EXCEPT ![p] = {[g EXCEPT !.attr = a]}])
    BY <1>2 DEF ChangeAttr
  <2>2. PICK f : f = [g EXCEPT !.attr = a]
    OBVIOUS
  <2>3. f.mtime = g.mtime /\ f.content = g.content
    BY <2>2
  <2>4. /\ UNCHANGED <<clock, capture>> /\ dirty' = dirty \cup {p}
        /\ fsFiles' = [fsFiles EXCEPT ![p] = {f}]
    BY <2>1, <2>2 DEF Touch
  <2>5. fsFiles'[p] = {f} /\ DOMAIN fsFiles' = Paths /\ \A q \in Paths \ {p} : fsFiles'[q] = fsFiles[q]
    BY <1>0, <2>4
  <2>6. p \notin masked => \A e \in hashCache[p] :
          e.mtime = f.mtime /\ e.at >= e.mtime + SettleWindow => e.digest = f.content
    BY <2>3 DEF FimInv, SettledEntries
  <2>7. AtMostOne(fsFiles'[p]) /\ \A h \in fsFiles'[p] : h.mtime \in Nat
    BY <1>0, <2>3, <2>5 DEF AtMostOne
  <2>8. \A r \in {p} \ masked' : \A e \in hashCache[r], h \in fsFiles'[r] :
          e.mtime = h.mtime /\ e.at >= e.mtime + SettleWindow => e.digest = h.content
    BY <1>00, <2>5, <2>6
  <2>9. {p} \in SUBSET Paths
    OBVIOUS
  <2>10. QED BY <1>00, <2>4, <2>5, <2>7, <2>8, <2>9, FilesChange
<1>3. CASE DeleteFile(p)
  <2>1. /\ UNCHANGED <<clock, capture>> /\ dirty' = dirty \cup {p}
        /\ fsFiles' = [fsFiles EXCEPT ![p] = {}]
    BY <1>3 DEF DeleteFile, Touch
  <2>2. fsFiles'[p] = {} /\ DOMAIN fsFiles' = Paths /\ \A q \in Paths \ {p} : fsFiles'[q] = fsFiles[q]
    BY <1>0, <2>1
  <2>3. \A r \in {p} : AtMostOne(fsFiles'[r]) /\ fsFiles'[r] = {}
    BY <2>2 DEF AtMostOne
  <2>4. {p} \in SUBSET Paths
    OBVIOUS
  <2>5. QED BY <1>00, <2>1, <2>2, <2>3, <2>4, FilesChange
<1>5. QED BY <1>1, <1>2, <1>3

\* A file comes under a time that a settled digest of another content may have: the path
\* is then masked.
LEMMA MaskedFim ==
  ASSUME FimInv, NEW p \in Paths, NEW fs, AtMostOne(fs), \A f \in fs : f.mtime \in Nat,
         NEW ps \in SUBSET Paths, p \in ps, UNCHANGED <<clock, capture>>, dirty' = dirty \cup ps,
         DOMAIN fsFiles' = Paths, \A q \in Paths \ ps : fsFiles'[q] = fsFiles[q],
         fsFiles'[p] = fs, \A q \in ps \ {p} : fsFiles'[q] = {}, Mask(p, fs)
  PROVE  FimInv'
<1>1. /\ masked \subseteq masked' /\ masked' \subseteq masked \cup ps
      /\ p \notin masked' => \A f \in fs : ~Masks(p, f)
  BY DEF Mask
<1>2. \A q \in ps : AtMostOne(fsFiles'[q])
  BY DEF AtMostOne
<1>3. \A q \in ps : \A f \in fsFiles'[q] : f.mtime \in Nat
  OBVIOUS
<1>4. \A q \in ps \ masked' : \A e \in hashCache[q], f \in fsFiles'[q] :
        e.mtime = f.mtime /\ e.at >= e.mtime + SettleWindow => e.digest = f.content
  BY <1>1 DEF Masks
<1>5. QED BY <1>1, <1>2, <1>3, <1>4, FilesChange

\* A time that is set, a content that changes behind a link, and a rename.
LEMMA TimesFim ==
  ASSUME FimInv, NEW p \in Paths,
         SetTime(p) \/ WriteBehind(p) \/ \E q \in Paths : RenameFile(p, q)
  PROVE  FimInv'
<1>0. /\ DOMAIN fsFiles = Paths
      /\ \A q \in Paths : AtMostOne(fsFiles[q]) /\ \A f \in fsFiles[q] : f.mtime \in Nat
  BY DEF FimInv, FimType
<1>1. CASE SetTime(p) \/ WriteBehind(p)
  <2>1. PICK g : g.mtime \in Nat /\ Touch({p}, [fsFiles EXCEPT ![p] = {g}]) /\ Mask(p, {g})
    <3>1. CASE SetTime(p)
      <4>1. PICK f \in fsFiles[p], t \in Times :
              /\ Touch({p}, [fsFiles EXCEPT ![p] = {[f EXCEPT !.mtime = t]}])
              /\ Mask(p, {[f EXCEPT !.mtime = t]})
        BY <3>1 DEF SetTime
      <4>2. t \in Nat /\ [f EXCEPT !.mtime = t].mtime = t
        BY FimBounds, FimAssumption DEF Times
      <4>3. QED BY <4>1, <4>2
    <3>2. CASE WriteBehind(p)
      <4>1. PICK f \in fsFiles[p], c \in Contents :
              /\ Touch({p}, [fsFiles EXCEPT ![p] = {[f EXCEPT !.content = c]}])
              /\ Mask(p, {[f EXCEPT !.content = c]})
        BY <3>2 DEF WriteBehind
      <4>2. [f EXCEPT !.content = c].mtime = f.mtime
        OBVIOUS
      <4>3. QED BY <1>0, <4>1, <4>2
    <3>3. QED BY <1>1, <3>1, <3>2
  <2>2. /\ UNCHANGED <<clock, capture>> /\ dirty' = dirty \cup {p}
        /\ fsFiles' = [fsFiles EXCEPT ![p] = {g}]
    BY <2>1 DEF Touch
  <2>3. fsFiles'[p] = {g} /\ DOMAIN fsFiles' = Paths /\ \A q \in Paths \ {p} : fsFiles'[q] = fsFiles[q]
    BY <1>0, <2>2
  <2>4. AtMostOne({g}) /\ {p} \in SUBSET Paths
    BY DEF AtMostOne
  <2>5. QED BY <2>1, <2>2, <2>3, <2>4, MaskedFim
<1>2. ASSUME NEW q \in Paths, RenameFile(p, q) PROVE FimInv'
  <2>1. /\ p # q /\ UNCHANGED <<clock, capture>> /\ dirty' = dirty \cup {p, q}
        /\ fsFiles' = [fsFiles EXCEPT ![q] = fsFiles[p], ![p] = {}] /\ Mask(q, fsFiles[p])
    BY <1>2 DEF RenameFile, Touch
  <2>2. /\ fsFiles'[p] = {} /\ fsFiles'[q] = fsFiles[p] /\ DOMAIN fsFiles' = Paths
        /\ \A r \in Paths \ {p, q} : fsFiles'[r] = fsFiles[r]
    BY <1>0, <2>1
  <2>3. {p, q} \in SUBSET Paths /\ \A r \in {p, q} \ {q} : fsFiles'[r] = {}
    BY <2>2
  <2>4. PICK fs : fs = fsFiles[p]
    OBVIOUS
  <2>5. AtMostOne(fs) /\ (\A f \in fs : f.mtime \in Nat) /\ Mask(q, fs) /\ fsFiles'[q] = fs
    BY <1>0, <2>1, <2>2, <2>4
  <2>6. q \in {p, q}
    OBVIOUS
  <2>7. QED BY <2>1, <2>2, <2>3, <2>5, <2>6, MaskedFim
<1>3. QED BY <1>1, <1>2

\* The first path of a walk and the rest of it.
LEMMA HeadAndRest ==
  ASSUME NEW S, NEW q \in Seq(S), q # <<>>
  PROVE  /\ Head(q) \in S /\ Tail(q) \in Seq(S) /\ Head(q) \in Range(q)
         /\ \A x \in Range(q) : x = Head(q) \/ x \in Range(Tail(q))
<1>1. /\ Len(q) \in Nat \ {0} /\ DOMAIN q = 1 .. Len(q) /\ Head(q) = q[1]
      /\ Tail(q) \in Seq(S) /\ Len(Tail(q)) = Len(q) - 1
      /\ \A i \in 1 .. Len(Tail(q)) : Tail(q)[i] = q[i + 1]
      /\ DOMAIN Tail(q) = 1 .. Len(Tail(q))
  OBVIOUS
<1>2. Head(q) \in S /\ Head(q) \in Range(q)
  BY <1>1 DEF Range
<1>3. ASSUME NEW x \in Range(q), x # Head(q) PROVE x \in Range(Tail(q))
  <2>1. PICK i \in 1 .. Len(q) : x = q[i]
    BY <1>1 DEF Range
  <2>2. i - 1 \in 1 .. Len(Tail(q)) /\ (i - 1) + 1 = i
    BY <1>1, <1>3, <2>1
  <2>3. x = Tail(q)[i - 1]
    BY <1>1, <2>1, <2>2
  <2>4. QED BY <1>1, <2>2, <2>3 DEF Range
<1>4. QED BY <1>1, <1>2, <1>3

\* Time passes, and a capture begins.
LEMMA BeginFim ==
  ASSUME FimInv, Tick \/ BeginCapture
  PROVE  FimInv'
<1>1. /\ clock' \in Nat /\ clock <= clock' /\ clock \in Nat
      /\ UNCHANGED <<fsFiles, looked, snapshot, initialized, hashCache, known, masked, gaps>>
  BY DEF Tick, BeginCapture, capture, fsVars, FimInv, FimType
<1>2. SettledEntries' /\ KnownInv'
  BY <1>1 DEF FimInv, SettledEntries, KnownInv
<1>3. \A p \in Paths : \A e \in hashCache[p] :
        e.mtime \in Nat /\ e.at \in Nat /\ e.at <= clock'
  BY <1>1 DEF FimInv, FimType
<1>4. CASE Tick
  <2>1. UNCHANGED <<fimPc, fimNow, todoPaths, curr, dirty, InHand>>
    BY <1>4 DEF Tick, capture, InHand
  <2>2. fimNow' <= clock'
    BY <1>1, <2>1 DEF FimInv, FimType
  <2>3. FimType'
    BY <1>1, <1>3, <2>1, <2>2 DEF FimInv, FimType, AtMostOne
  <2>4. ScanInv' /\ ReportsTellContents'
    BY <1>1, <2>1 DEF FimInv, ScanInv, ReportsTellContents
  <2>5. QED BY <1>2, <2>3, <2>4 DEF FimInv
<1>5. CASE BeginCapture
  <2>1. /\ fimPc' = "stat" /\ fimNow' = clock /\ todoPaths' = WatchPaths /\ dirty' = {}
        /\ curr' = [p \in Paths |-> {}] /\ clock' = clock
    BY <1>5 DEF BeginCapture, Nothing, fsVars
  <2>2. FimType'
    <3>1. \A p \in Paths : AtMostOne(curr'[p]) /\ AtMostOne(fsFiles'[p]) /\ AtMostOne(snapshot'[p])
      BY <1>1, <2>1 DEF FimInv, FimType, AtMostOne
    <3>2. todoPaths' \in Seq(Paths) /\ DOMAIN curr' = Paths
      BY <2>1, WalkAssumption
    <3>3. fimNow' \in Nat /\ fimNow' <= clock' /\ fimPc' \in {"idle", "stat", "hash"}
      BY <1>1, <2>1
    <3>4. \A p \in Paths : \A c \in curr'[p] : c.at \in Nat /\ fimNow' - c.at <= HashCacheTTL
      BY <2>1
    <3>5. QED BY <1>1, <1>3, <3>1, <3>2, <3>3, <3>4 DEF FimInv, FimType
  <2>3. ScanInv'
    BY <2>1 DEF ScanInv, Paths
  <2>4. ReportsTellContents'
    BY <2>1 DEF ReportsTellContents
  <2>5. QED BY <1>2, <2>2, <2>3, <2>4 DEF FimInv
<1>6. QED BY <1>4, <1>5

\* The next path is looked at.
LEMMA LookFim ==
  ASSUME FimInv, LookAt
  PROVE  FimInv'
<1> DEFINE p == Head(todoPaths)
<1>1. /\ fimPc = "stat" /\ todoPaths # <<>> /\ todoPaths \in Seq(Paths)
      /\ dirty' = IF fsFiles[p] = {} /\ curr[p] # {} THEN dirty ELSE dirty \ {p}
      /\ UNCHANGED <<fsFiles, clock, fimNow, curr, snapshot, initialized, hashCache, known, masked,
                     gaps>>
      /\ \/ fsFiles[p] = {} /\ todoPaths' = Tail(todoPaths) /\ UNCHANGED <<fimPc, looked>>
         \/ fsFiles[p] # {} /\ looked' = fsFiles[p] /\ fimPc' = "hash" /\ UNCHANGED todoPaths
  BY DEF LookAt, FimInv, FimType, fsVars
<1>2. /\ p \in Paths /\ Tail(todoPaths) \in Seq(Paths) /\ p \in Range(todoPaths)
      /\ \A x \in Range(todoPaths) : x = p \/ x \in Range(Tail(todoPaths))
  BY <1>1, HeadAndRest
<1> HIDE DEF p
<1>3. InHand = {} /\ InHand' \subseteq {p} /\ (fsFiles[p] # {} => InHand' = {p})
  BY <1>1 DEF InHand, p
<1>4. FimType'
  <2>1. todoPaths' \in Seq(Paths) /\ fimPc' \in {"idle", "stat", "hash"}
    BY <1>1, <1>2
  <2>2. \A f \in looked' : f.mtime \in Nat
    BY <1>1, <1>2 DEF FimInv, FimType
  <2>3. QED BY <1>1, <2>1, <2>2 DEF FimInv, FimType, AtMostOne
<1>5. SettledEntries' /\ KnownInv'
  BY <1>1 DEF FimInv, SettledEntries, KnownInv
<1>6. ScanInv'
  <2>1. (fimPc = "hash" => /\ todoPaths # <<>>
                           /\ Head(todoPaths) \notin dirty => looked = fsFiles[Head(todoPaths)])'
    BY <1>1 DEF p
  <2>2. ASSUME NEW x \in Paths \ (dirty' \cup InHand' \cup masked), NEW c \in curr[x], c.digest # ""
        PROVE  \E f \in fsFiles[x] : f.content = c.digest
    <3>1. x \in Paths \ (dirty \cup InHand \cup masked)
      BY <1>1, <1>3, <2>2
    <3>2. QED BY <2>2, <3>1 DEF FimInv, ScanInv
  <2>3. ASSUME NEW x \in Paths \ (dirty' \cup Range(todoPaths')), curr[x] = {}
        PROVE  fsFiles[x] = {}
    <3>1. CASE x = p
      BY <1>1, <1>2, <2>3, <3>1
    <3>2. CASE x # p
      <4>1. x \notin dirty /\ x \notin Range(todoPaths)
        BY <1>1, <1>2, <2>3, <3>2
      <4>2. QED BY <1>1, <2>3, <4>1 DEF FimInv, ScanInv
    <3>3. QED BY <3>1, <3>2
  <2>4. QED BY <1>1, <2>1, <2>2, <2>3 DEF ScanInv
<1>7. ReportsTellContents'
  BY <1>1 DEF ReportsTellContents
<1>8. QED BY <1>4, <1>5, <1>6, <1>7 DEF FimInv

\* The content is read or taken from the cache.
LEMMA HashFim ==
  ASSUME FimInv, HashIt
  PROVE  FimInv'
<1> DEFINE p == Head(todoPaths)
<1>1. /\ fimPc = "hash" /\ fimPc' = "stat" /\ looked' = {} /\ todoPaths' = Tail(todoPaths)
      /\ UNCHANGED <<fsFiles, clock, fimNow, snapshot, initialized, known, dirty, gaps>>
      /\ todoPaths # <<>> /\ todoPaths \in Seq(Paths)
      /\ p \notin dirty => looked = fsFiles[p]
  BY DEF HashIt, fsVars, FimInv, FimType, ScanInv
<1>2. /\ p \in Paths /\ Tail(todoPaths) \in Seq(Paths) /\ p \in Range(todoPaths)
      /\ \A x \in Range(todoPaths) : x = p \/ x \in Range(Tail(todoPaths))
  BY <1>1, HeadAndRest
<1>3. PICK f, st :
        /\ f \in looked
        /\ curr' = [curr EXCEPT ![p] = {st}]
        /\ \/ /\ UNCHANGED <<hashCache, masked>>
              /\ \E e \in hashCache[p] : CacheHit(e, f) /\ st.digest = e.digest /\ st.at = e.at
           \/ /\ \E g \in fsFiles[p] :
                   /\ st.digest = g.content
                   /\ hashCache' = [hashCache EXCEPT ![p] =
                        {[digest |-> g.content, mtime |-> f.mtime, at |-> fimNow]}]
              /\ masked' = masked \ {p} /\ st.at = fimNow
           \/ st.digest = "" /\ st.at = fimNow /\ UNCHANGED <<hashCache, masked>>
  <2>1. \A f, d, n : StateOf(f, d, n).digest = d /\ StateOf(f, d, n).at = n
    BY DEF StateOf
  <2>2. PICK f \in looked :
       \/ \E e \in hashCache[p] :
            /\ CacheHit(e, f)
            /\ curr' = [curr EXCEPT ![p] = {StateOf(f, e.digest, e.at)}]
            /\ UNCHANGED <<hashCache, masked>>
       \/ \E g \in fsFiles[p] :
               /\ curr' = [curr EXCEPT ![p] = {StateOf(f, g.content, fimNow)}]
               /\ hashCache' = [hashCache EXCEPT ![p] =
                    {[digest |-> g.content, mtime |-> f.mtime, at |-> fimNow]}]
               /\ masked' = masked \ {p}
       \/ /\ curr' = [curr EXCEPT ![p] = {StateOf(f, "", fimNow)}]
          /\ UNCHANGED <<hashCache, masked>>
    BY DEF HashIt
  <2> HIDE DEF p
  <2>3. CASE \E e \in hashCache[p] :
            /\ CacheHit(e, f)
            /\ curr' = [curr EXCEPT ![p] = {StateOf(f, e.digest, e.at)}]
            /\ UNCHANGED <<hashCache, masked>>
    <3>1. PICK e \in hashCache[p] :
            /\ CacheHit(e, f) /\ UNCHANGED <<hashCache, masked>>
            /\ curr' = [curr EXCEPT ![p] = {StateOf(f, e.digest, e.at)}]
      BY <2>3
    <3>2. PICK st : st = StateOf(f, e.digest, e.at)
      OBVIOUS
    <3>3. st.digest = e.digest /\ st.at = e.at /\ curr' = [curr EXCEPT ![p] = {st}]
      BY <2>1, <3>1, <3>2
    <3>4. QED BY <3>1, <3>3
  <2>4. CASE \E g \in fsFiles[p] :
               /\ curr' = [curr EXCEPT ![p] = {StateOf(f, g.content, fimNow)}]
               /\ hashCache' = [hashCache EXCEPT ![p] =
                    {[digest |-> g.content, mtime |-> f.mtime, at |-> fimNow]}]
               /\ masked' = masked \ {p}
    <3>1. PICK g \in fsFiles[p] :
            /\ curr' = [curr EXCEPT ![p] = {StateOf(f, g.content, fimNow)}]
            /\ hashCache' = [hashCache EXCEPT ![p] =
                 {[digest |-> g.content, mtime |-> f.mtime, at |-> fimNow]}]
            /\ masked' = masked \ {p}
      BY <2>4
    <3>2. PICK st : st = StateOf(f, g.content, fimNow)
      OBVIOUS
    <3>3. st.digest = g.content /\ st.at = fimNow /\ curr' = [curr EXCEPT ![p] = {st}]
      BY <2>1, <3>1, <3>2
    <3>4. QED BY <3>1, <3>3
  <2>5. CASE /\ curr' = [curr EXCEPT ![p] = {StateOf(f, "", fimNow)}]
             /\ UNCHANGED <<hashCache, masked>>
    <3>1. PICK st : st = StateOf(f, "", fimNow)
      OBVIOUS
    <3>2. st.digest = "" /\ st.at = fimNow /\ curr' = [curr EXCEPT ![p] = {st}]
      BY <2>1, <2>5, <3>1
    <3>3. QED BY <2>5, <3>2
  <2>6. QED BY <2>2, <2>3, <2>4, <2>5
<1>4. InHand = {p} /\ InHand' = {}
  BY <1>1 DEF InHand
<1> HIDE DEF p
<1>5. /\ DOMAIN curr' = Paths /\ DOMAIN hashCache' = Paths /\ curr'[p] = {st}
      /\ \A x \in Paths \ {p} : curr'[x] = curr[x] /\ hashCache'[x] = hashCache[x]
  BY <1>2, <1>3 DEF FimInv, FimType
<1>6. \/ UNCHANGED <<hashCache, masked>>
      \/ /\ masked' = masked \ {p}
         /\ \E g \in fsFiles[p] : hashCache'[p] = {[digest |-> g.content, mtime |-> f.mtime, at |-> fimNow]}
  BY <1>2, <1>3 DEF FimInv, FimType
<1>7. \A g \in fsFiles[p] : fsFiles[p] = {g}
  BY <1>2 DEF FimInv, FimType, AtMostOne
<1>8. FimType'
  <2>1. todoPaths' \in Seq(Paths) /\ fimPc' \in {"idle", "stat", "hash"} /\ \A h \in looked' : h.mtime \in Nat
    BY <1>1, <1>2
  <2>2. \A x \in Paths : AtMostOne(curr'[x]) /\ AtMostOne(fsFiles'[x]) /\ AtMostOne(snapshot'[x])
    <3>1. AtMostOne(curr'[p])
      BY <1>5 DEF AtMostOne
    <3>2. \A x \in Paths : AtMostOne(curr[x]) /\ AtMostOne(fsFiles[x]) /\ AtMostOne(snapshot[x])
      BY DEF FimInv, FimType
    <3>3. \A x \in Paths : AtMostOne(curr'[x])
      BY <1>5, <3>1, <3>2
    <3>4. QED BY <1>1, <3>2, <3>3
  <2>3. f.mtime \in Nat /\ fimNow \in Nat /\ fimNow <= clock
    BY <1>3 DEF FimInv, FimType
  <2>4. ASSUME NEW x \in Paths, NEW e \in hashCache'[x]
        PROVE  e.mtime \in Nat /\ e.at \in Nat /\ e.at <= clock
    BY <1>5, <1>6, <2>3 DEF FimInv, FimType
  <2>5. st.at \in Nat /\ fimNow - st.at <= HashCacheTTL
    <3>1. CASE st.at = fimNow
      BY <2>3, <3>1, FimAssumption
    <3>2. CASE \E e \in hashCache[p] : CacheHit(e, f) /\ st.at = e.at
      BY <1>2, <3>2 DEF CacheHit, FimInv, FimType
    <3>3. QED BY <1>3, <3>1, <3>2
  <2>6. \A x \in Paths : \A c \in curr'[x] : c.at \in Nat /\ fimNow - c.at <= HashCacheTTL
    BY <1>5, <2>5 DEF FimInv, FimType
  <2>7. QED BY <1>1, <1>5, <2>1, <2>2, <2>4, <2>6 DEF FimInv, FimType
<1>9. SettledEntries'
  <2>1. ASSUME NEW x \in Paths \ masked', NEW e \in hashCache'[x], NEW h \in fsFiles[x],
               e.mtime = h.mtime, e.at >= e.mtime + SettleWindow
        PROVE  e.digest = h.content
    <3>1. CASE e \in hashCache[x] /\ x \notin masked
      BY <2>1, <3>1 DEF FimInv, SettledEntries
    <3>2. CASE x = p /\ \E g \in fsFiles[p] : hashCache'[p] = {[digest |-> g.content, mtime |-> f.mtime, at |-> fimNow]}
      <4>1. PICK g \in fsFiles[p] : e = [digest |-> g.content, mtime |-> f.mtime, at |-> fimNow]
        BY <2>1, <3>2
      <4>2. h = g /\ e.digest = g.content
        BY <1>7, <3>2, <4>1
      <4>3. QED BY <4>2
    <3>3. QED BY <1>5, <1>6, <3>1, <3>2
  <2>2. QED BY <1>1, <2>1 DEF SettledEntries
<1>10. ScanInv'
  <2>1. ASSUME NEW x \in Paths \ (dirty \cup masked'), NEW c \in curr'[x], c.digest # ""
        PROVE  \E h \in fsFiles[x] : h.content = c.digest
    <3>1. CASE x # p
      <4>1. x \in Paths \ (dirty \cup InHand \cup masked) /\ c \in curr[x]
        BY <1>4, <1>5, <1>6, <3>1
      <4>2. QED BY <2>1, <4>1 DEF FimInv, ScanInv
    <3>2. CASE x = p
      <4>1. c = st /\ f \in fsFiles[p]
        BY <1>1, <1>3, <1>5, <3>2 DEF p
      <4>2. CASE UNCHANGED masked /\ \E e \in hashCache[p] : CacheHit(e, f) /\ st.digest = e.digest
        <5>1. PICK e \in hashCache[p] : CacheHit(e, f) /\ st.digest = e.digest
          BY <4>2
        <5>2. e.mtime = f.mtime /\ e.at >= e.mtime + SettleWindow
          BY <5>1 DEF CacheHit
        <5>3. p \in Paths \ masked
          BY <2>1, <3>2, <4>2
        <5>4. SettledEntries
          BY DEF FimInv
        <5>5. e.digest = f.content
          BY <4>1, <5>1, <5>2, <5>3, <5>4 DEF SettledEntries
        <5>6. QED BY <3>2, <4>1, <5>1, <5>5
      <4>3. CASE \E g \in fsFiles[p] : st.digest = g.content
        BY <3>2, <4>1, <4>3
      <4>4. QED BY <1>3, <2>1, <4>1, <4>2, <4>3
    <3>3. QED BY <3>1, <3>2
  <2>2. ASSUME NEW x \in Paths \ (dirty \cup Range(todoPaths')), curr'[x] = {}
        PROVE  fsFiles[x] = {}
    <3>1. x # p
      BY <1>5, <2>2
    <3>2. x \notin Range(todoPaths) /\ curr[x] = {}
      BY <1>1, <1>2, <1>5, <2>2, <3>1
    <3>3. QED BY <1>1, <2>2, <3>2 DEF FimInv, ScanInv
  <2>3. QED BY <1>1, <1>4, <2>1, <2>2 DEF ScanInv
<1>11. KnownInv' /\ ReportsTellContents'
  BY <1>1 DEF FimInv, KnownInv, ReportsTellContents
<1>12. QED BY <1>8, <1>9, <1>10, <1>11 DEF FimInv

\* A reader of events knows what the scan found of a path whose change they tell: a path
\* that no event would speak of has the digest of the last scan, or it was not there.
LEMMA TellsTheScan ==
  ASSUME FimInv, initialized, NEW es \in SUBSET Changes, NEW p \in Paths,
         \A c \in curr[p] : c.digest # "",
         Speak(es, p) \/ (p \notin gaps /\ ~Speak(Changes, p))
  PROVE  Told(es, p) = DigestOf(curr[p])
<1>1. CASE Speak(es, p)
  BY <1>1 DEF Told
<1>2. CASE ~Speak(es, p) /\ p \notin gaps /\ ~Speak(Changes, p)
  <2>1. /\ AtMostOne(curr[p]) /\ AtMostOne(snapshot[p])
        /\ snapshot[p] = {} => known[p] = Gone
        /\ \A o \in snapshot[p] : o.digest = known[p] /\ o.digest # ""
    BY <1>2 DEF FimInv, FimType, KnownInv
  <2>2. Told(es, p) = known[p] /\ p \notin Changes
    BY <1>2 DEF Told, Speak
  <2>3. CASE curr[p] = {}
    <3>1. p \notin RenamedFrom
      <4>1. SUFFICES ASSUME p \in RenamedFrom PROVE FALSE
        OBVIOUS
      <4>2. PICK U \in {UNION {CameFrom(q, c) : c \in curr[q]} : q \in Appeared} : p \in U
        BY <4>1 DEF RenamedFrom
      <4>3. PICK q \in Appeared : p \in UNION {CameFrom(q, c) : c \in curr[q]}
        BY <4>2
      <4>4. q \in Changes \cap Appeared /\ \E c \in curr[q] : p \in CameFrom(q, c)
        BY <4>3 DEF Changes
      <4>5. QED BY <1>2, <2>3, <4>4 DEF Speak
    <3>2. snapshot[p] = {}
      BY <2>2, <2>3, <3>1 DEF Changes
    <3>3. QED BY <2>1, <2>2, <2>3, <3>2 DEF DigestOf
  <2>4. CASE curr[p] # {}
    <3>1. PICK c : curr[p] = {c}
      BY <2>1, <2>4 DEF AtMostOne
    <3>2. DigestOf(curr[p]) = c.digest
      <4>1. (CHOOSE x \in curr[p] : TRUE) = c
        BY <3>1
      <4>2. QED BY <2>4, <4>1 DEF DigestOf
    <3>3. snapshot[p] # {}
      BY <2>2, <2>4 DEF Changes, Appeared
    <3>4. PICK o \in snapshot[p] : TRUE
      BY <3>3
    <3>5. classifyChangeAction(o, c) = ""
      BY <2>2, <3>1 DEF Changes
    <3>6. o.digest = c.digest
      BY <2>1, <3>1, <3>5 DEF classifyChangeAction
    <3>7. QED BY <2>1, <2>2, <3>2, <3>6
  <2>5. QED BY <2>3, <2>4
<1>3. QED BY <1>1, <1>2

\* The end of a capture.
LEMMA EndFim ==
  ASSUME FimInv, EndCapture
  PROVE  FimInv'
<1>1. /\ fimPc = "stat" /\ todoPaths = <<>> /\ fimPc' = "idle"
      /\ snapshot' = curr /\ initialized' = TRUE
      /\ UNCHANGED <<fsFiles, clock, fimNow, todoPaths, looked, curr, dirty, masked>>
  BY DEF EndCapture, fsVars
<1>2. PICK es \in SUBSET Changes :
       /\ known' = [p \in Paths |-> IF initialized THEN Told(es, p) ELSE DigestOf(curr[p])]
       /\ gaps' = {p \in Paths :
                     \/ \E c \in curr[p] : c.digest = ""
                     \/ initialized /\ ~Speak(es, p) /\ (p \in gaps \/ Speak(Changes, p))}
  BY DEF EndCapture
<1>3. PICK kept \in SUBSET Paths :
        hashCache' = [p \in Paths |-> IF p \in kept THEN hashCache[p] ELSE {}]
  BY DEF EndCapture
<1>4. initialized' \in BOOLEAN
  BY <1>1, Zenon
<1>5. DOMAIN hashCache' = Paths /\ \A p \in Paths : hashCache'[p] \subseteq hashCache[p]
  BY <1>3
<1>6. FimType'
  <2>1. DOMAIN known' = Paths
    BY <1>2
  <2>2. \A p \in Paths : AtMostOne(curr'[p]) /\ AtMostOne(fsFiles'[p]) /\ AtMostOne(snapshot'[p])
    BY <1>1 DEF FimInv, FimType
  <2>3. fimPc' \in {"idle", "stat", "hash"}
    BY <1>1
  <2>4. QED BY <1>1, <1>4, <1>5, <2>1, <2>2, <2>3 DEF FimInv, FimType
<1>7. SettledEntries'
  BY <1>1, <1>5 DEF FimInv, SettledEntries
<1>8. ScanInv'
  BY <1>1 DEF FimInv, ScanInv, InHand
<1>9. ASSUME NEW p \in Paths \ gaps'
      PROVE  known'[p] = DigestOf(curr[p]) /\ \A c \in curr[p] : c.digest # ""
  <2>1. /\ \A c \in curr[p] : c.digest # ""
        /\ initialized => Speak(es, p) \/ (p \notin gaps /\ ~Speak(Changes, p))
    BY <1>2, <1>9
  <2>2. CASE initialized
    <3>1. known'[p] = Told(es, p)
      BY <1>2, <2>2
    <3>2. QED BY <2>1, <2>2, <3>1, TellsTheScan
  <2>3. CASE ~initialized
    <3>1. known'[p] = DigestOf(curr[p])
      BY <1>2, <2>3
    <3>2. QED BY <2>1, <3>1
  <2>4. QED BY <2>2, <2>3
<1>10. ASSUME NEW p \in Paths, NEW c \in curr[p] PROVE curr[p] = {c} /\ DigestOf(curr[p]) = c.digest
  <2>1. curr[p] = {c}
    BY <1>10 DEF FimInv, FimType, AtMostOne
  <2>2. (CHOOSE x \in curr[p] : TRUE) = c
    BY <2>1
  <2>3. QED BY <2>1, <2>2 DEF DigestOf
<1>11. KnownInv'
  <2>1. \A p \in Paths : curr[p] = {} => DigestOf(curr[p]) = Gone
    BY DEF DigestOf
  <2>2. QED BY <1>1, <1>9, <1>10, <2>1 DEF KnownInv
<1>12. ReportsTellContents'
  <2>1. ASSUME NEW p \in Paths \ (dirty \cup gaps')
        PROVE  \/ known'[p] = ContentOf(fsFiles[p])
               \/ p \in masked /\ \E o \in curr[p] : fimNow - o.at <= HashCacheTTL
    <3>1. Range(todoPaths) = {} /\ InHand = {}
      BY <1>1 DEF Range, InHand
    <3>2. CASE curr[p] = {}
      <4>1. fsFiles[p] = {}
        BY <1>1, <3>1, <3>2 DEF FimInv, ScanInv
      <4>2. known'[p] = Gone
        BY <1>9, <3>2 DEF DigestOf
      <4>3. QED BY <4>1, <4>2 DEF ContentOf
    <3>3. CASE curr[p] # {}
      <4>1. PICK c \in curr[p] : TRUE
        BY <3>3
      <4>2. c.digest # "" /\ c.digest = known'[p]
        BY <1>9, <1>10
      <4>3. CASE p \in masked
        BY <4>3, <4>1 DEF FimInv, FimType
      <4>4. CASE p \notin masked
        <5>1. PICK f \in fsFiles[p] : f.content = c.digest
          BY <3>1, <4>2, <4>4 DEF FimInv, ScanInv
        <5>2. fsFiles[p] = {f}
          BY DEF FimInv, FimType, AtMostOne
        <5>3. (CHOOSE x \in fsFiles[p] : TRUE) = f
          BY <5>2
        <5>4. QED BY <4>2, <5>1, <5>2, <5>3 DEF ContentOf
      <4>5. QED BY <4>3, <4>4
    <3>4. QED BY <3>2, <3>3
  <2>2. QED BY <1>1, <2>1 DEF ReportsTellContents, ContentOf
<1>13. QED BY <1>6, <1>7, <1>8, <1>11, <1>12 DEF FimInv

LEMMA StepFim == FimInv /\ [FimNext]_fimVars => FimInv'
<1> SUFFICES ASSUME FimInv, [FimNext]_fimVars PROVE FimInv'
  OBVIOUS
<1>1. CASE Tick \/ BeginCapture
  BY <1>1, BeginFim
<1>2. CASE LookAt
  BY <1>2, LookFim
<1>3. CASE HashIt
  BY <1>3, HashFim
<1>4. CASE EndCapture
  BY <1>4, EndFim
<1>5. ASSUME NEW p \in Paths, WriteContent(p) \/ ChangeAttr(p) \/ CreateFile(p) \/ DeleteFile(p)
      PROVE  FimInv'
  BY <1>5, FilesFim
<1>6. ASSUME NEW p \in Paths, SetTime(p) \/ WriteBehind(p) \/ \E q \in Paths : RenameFile(p, q)
      PROVE  FimInv'
  BY <1>6, TimesFim
<1>7. CASE UNCHANGED fimVars
  <2>1. UNCHANGED <<fsFiles, clock, fimPc, fimNow, todoPaths, looked, curr, snapshot, initialized,
                    hashCache, known, dirty, masked, gaps, InHand>>
    BY <1>7 DEF fimVars, InHand
  <2>2. FimType'
    BY <2>1 DEF FimInv, FimType, AtMostOne
  <2>3. SettledEntries' /\ ScanInv' /\ KnownInv' /\ ReportsTellContents'
    BY <2>1 DEF FimInv, SettledEntries, ScanInv, KnownInv, ReportsTellContents
  <2>4. QED BY <2>2, <2>3 DEF FimInv
<1>8. QED BY <1>1, <1>2, <1>3, <1>4, <1>5, <1>6, <1>7 DEF FimNext

\* File integrity monitoring tells every content that lasts over a capture, under any
\* writes, renames, times that are set and links, but for a file with an event that was
\* cut off or a content that could not be read, and for one that shows another content
\* under the time of a settled digest; that one is told when the cache lets the digest
\* go.  No write that sets its time is among the exceptions, whatever the granularity of
\* the times up to the settle window.
THEOREM ContentsAreTold == FimSpec => []ReportsTellContents
<1>1. FimInv => ReportsTellContents
  BY DEF FimInv
<1>2. QED BY <1>1, InitFim, StepFim, PTL DEF FimSpec
=============================================================================
