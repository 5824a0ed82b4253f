--------------------------- MODULE NoveltyProofs ---------------------------
(***************************************************************************)
(* Proofs about module Novelty, for all values of its constants.           *)
(***************************************************************************)
EXTENDS Novelty, SequenceTheorems, FiniteSetTheorems, TLAPS

-----------------------------------------------------------------------------
(* Type correctness *)

LEMMA BrandCardinality ==
    ASSUME NEW B \in SUBSET Brand
    PROVE  Cardinality(B) \in Nat
BY FiniteBrands, FS_Subset, FS_CardinalityType

\* The number of events of a batch that name a brand.
LEMMA IndexCardinality ==
    ASSUME NEW s \in Seq(Event), NEW b
    PROVE  Cardinality({i \in 1..Len(s) : b \in Keywords[s[i]]}) \in Nat
<1>1. IsFiniteSet(1..Len(s))
  BY LenProperties, FS_Interval
<1> QED BY <1>1, FS_Subset, FS_CardinalityType

LEMMA EventInHand ==
    ASSUME TypeOK, pc \in {"record", "classify", "hosts", "emit"}
    PROVE  /\ event \in Event
           /\ full \in SUBSET Brand
           /\ tierABrands \in SUBSET Brand
           /\ Hosts[event] \in SUBSET Host
<1>1. Len(batch) \in Nat /\ idx \in 1..Len(batch)
  BY LenProperties DEF TypeOK
<1>2. event \in Event
  BY <1>1, ElementOfSeq DEF TypeOK, event
<1> QED BY <1>2, NoveltyAssumption DEF full, tierABrands

LEMMA TypeInit == Init => TypeOK
<1> SUFFICES ASSUME Init PROVE TypeOK
  OBVIOUS
<1>1. /\ lines \in Seq(Alert) /\ residue \in Seq(Alert)
      /\ batch \in Seq(Event) /\ idx \in 0..Len(batch)
  BY EmptySeq DEF Init
<1> QED BY <1>1 DEF Init, TypeOK, NotStarted

LEMMA RecordType == ASSUME TypeOK, Record PROVE TypeOK'
<1> USE DEF TypeOK
<1>1. full \in SUBSET Brand
  BY EventInHand DEF Record
<1>2. df' \in [Brand -> Nat]
  <2>1. df' = [b \in Brand |-> IF b \in full THEN df[b] + 1 ELSE df[b]]
    BY DEF Record
  <2> QED BY <2>1
<1>3. partners' \in [Brand -> SUBSET Brand] /\ multi' \in Nat
  <2>1. CASE Cardinality(full) >= 2
    <3>1. /\ partners' = [b \in Brand |-> IF b \in full
                              THEN partners[b] \cup (full \ {b}) ELSE partners[b]]
          /\ multi' = multi + 1
      BY <2>1 DEF Record
    <3> QED BY <1>1, <3>1
  <2>2. CASE ~(Cardinality(full) >= 2)
    BY <2>2 DEF Record
  <2> QED BY <2>1, <2>2
<1>4. degree' \in [Brand -> Nat]
  <2>1. \A b \in Brand : DegreeOf(b, partners'[b]) \in Nat
    BY <1>3, BrandCardinality DEF DegreeOf, Larger
  <2>2. \/ degree' = degree
        \/ degree' = [b \in Brand |-> IF b \in full
                          THEN DegreeOf(b, partners'[b]) ELSE degree[b]]
    BY DEF Record
  <2> HIDE DEF DegreeOf
  <2> QED BY <2>1, <2>2
<1>5. calibrating' \in BOOLEAN
  BY DEF Record, IsCalibrating
<1> QED
  BY <1>2, <1>3, <1>4, <1>5
     DEF Record, keyVars, fileVars, envVars

LEMMA ClassifyType ==
    ASSUME TypeOK, ClassifyCoalition \/ ClassifyHighDf \/ ClassifySolo
    PROVE  TypeOK'
<1> USE DEF TypeOK
<1>1. pc = "classify"
  BY DEF ClassifyCoalition, ClassifyHighDf, ClassifySolo
<1>2. /\ full \in SUBSET Brand /\ tierABrands \in SUBSET Brand
      /\ HostPairs(tierABrands) \in SUBSET (Brand \X Host)
  BY <1>1, EventInHand DEF HostPairs
<1>3. mute' \subseteq Coalition /\ facts' \subseteq Coalition /\ silenced' \subseteq Coalition
  BY <1>2 DEF ClassifyCoalition, ClassifyHighDf, ClassifySolo, InsertCoalition,
              InsertMultiBrandCert, Coalition, keyVars
<1>4. alerts' \subseteq Alert /\ feed' \in BOOLEAN
  <2>1. [tier |-> "A", coalition |-> tierABrands] \in Alert
    BY <1>2 DEF Alert, Coalition
  <2>2. CASE ClassifyCoalition
    <3>1. feed' \in BOOLEAN
      BY <2>2, NoveltyAssumption DEF ClassifyCoalition
    <3> QED BY <2>1, <2>2, <3>1 DEF ClassifyCoalition
  <2>3. CASE ClassifyHighDf
    BY <2>3, NoveltyAssumption DEF ClassifyHighDf
  <2>4. CASE ClassifySolo
    BY <2>4 DEF ClassifySolo
  <2> QED BY <2>2, <2>3, <2>4
<1>5. AfterClassify(HostPairs(tierABrands))
  BY DEF ClassifyCoalition, ClassifyHighDf, ClassifySolo
<1> QED
  BY <1>1, <1>2, <1>3, <1>4, <1>5 DEF AfterClassify, countVars, fileVars, envVars

\* An alert appended to the file after what the BufWriter holds.
LEMMA AppendType ==
    ASSUME TypeOK, NEW a \in alerts
    PROVE  Append(lines \o residue, a) \in Seq(Alert) /\ Append(residue, a) \in Seq(Alert)
<1>1. lines \o residue \in Seq(Alert) /\ a \in Alert
  BY ConcatProperties DEF TypeOK
<1> QED BY <1>1, AppendProperties DEF TypeOK

LEMMA FailType ==
    ASSUME TypeOK, pc \in {"record", "classify", "hosts", "emit"}, Fail,
           lines' \in Seq(Alert), residue' \in Seq(Alert)
    PROVE  TypeOK'
<1>1. faults' \in Nat
  BY DEF TypeOK, Fail
<1>2. idx # 0
  BY DEF TypeOK
<1> QED BY <1>1, <1>2 DEF TypeOK, Fail, ForgetItem, countVars, keyVars

LEMMA TypeStep == TypeOK /\ [Next]_vars => TypeOK'
<1> SUFFICES ASSUME TypeOK, [Next]_vars PROVE TypeOK'
  OBVIOUS
<1> USE DEF TypeOK, countVars, keyVars, fileVars, envVars, taskVars
<1>1. ASSUME NEW k \in 1..BatchLen, NEW s \in [1..k -> Event], SendBatch(s)
      PROVE  TypeOK'
  <2>1. s \in Seq(Event) /\ Len(s) = k
    BY NoveltyAssumption
  <2>2. handed' \in [Brand -> Nat]
    <3> DEFINE named(b) == Cardinality({i \in 1..Len(s) : b \in Keywords[s[i]]})
    <3>1. handed' = [b \in Brand |-> handed[b] + named(b)]
      BY <1>1 DEF SendBatch
    <3>2. \A b \in Brand : named(b) \in Nat
      BY <2>1, IndexCardinality
    <3> HIDE DEF named
    <3> QED BY <3>1, <3>2
  <2> QED BY <1>1, <2>1, <2>2 DEF SendBatch
<1>2. CASE Open
  <2>1. Floor \in Nat
    BY NoveltyAssumption DEF Floor, Larger
  <2> QED BY <1>2, <2>1 DEF Open, StartedAt, Larger, NotStarted
<1>3. CASE Record
  BY <1>3, RecordType
<1>4. CASE ClassifyCoalition \/ ClassifyHighDf \/ ClassifySolo
  BY <1>4, ClassifyType
<1>5. ASSUME NEW p \in Brand \X Host, InsertHost(p) PROVE TypeOK'
  BY <1>5 DEF InsertHost
<1>6. CASE HostsDone
  <2>1. \A b \in brands : [tier |-> "B", brand |-> b, hosts |-> fresh] \in Alert
    BY DEF Alert
  <2>2. alerts' \subseteq Alert
    BY <1>6, <2>1 DEF HostsDone
  <2> QED BY <1>6, <2>2 DEF HostsDone
<1>7. ASSUME NEW a \in alerts, WriteAlert(a) PROVE TypeOK'
  BY <1>7, AppendType, EmptySeq DEF WriteAlert
<1>8. CASE WriteCandidate
  BY <1>8 DEF WriteCandidate
<1>9. CASE NextItem
  <2>1. Len(batch) \in Nat /\ Len(batch') \in Nat
    BY <1>9, LenProperties, EmptySeq DEF NextItem
  <2>2. \A b \in Brand : Naming(b) \in Nat
    BY IndexCardinality DEF Naming
  <2>3. CASE LastItem
    <3>1. acked' = [b \in Brand |-> acked[b] + Naming(b)] /\ batch' = <<>>
      BY <1>9, <2>3 DEF NextItem
    <3>2. acked' \in [Brand -> Nat]
      <4>1. acked \in [Brand -> Nat]
        OBVIOUS
      <4> HIDE DEF TypeOK
      <4> QED BY <2>2, <3>1, <4>1
    <3>3. batch' \in Seq(Event)
      BY <3>1, EmptySeq
    <3>4. /\ idx' = 0 /\ pc' = "idle" /\ ForgetItem
          /\ UNCHANGED <<countVars, started, keyVars, hosts, fileVars, calibrating,
                         now, faults, crashes, items, handed>>
      BY <1>9, <2>3 DEF NextItem
    <3>5. idx' \in 0..Len(batch') /\ pc' = "idle"
      BY <2>1, <3>4
    <3>6. /\ brands' \subseteq Brand /\ todo' \subseteq Brand \X Host
          /\ fresh' \subseteq Host /\ alerts' \subseteq Alert /\ feed' \in BOOLEAN
      BY <3>4 DEF ForgetItem
    <3> QED BY <3>2, <3>3, <3>4, <3>5, <3>6
  <2>4. CASE ~LastItem
    <3>1. idx' \in 0..Len(batch') /\ idx' # 0 /\ pc' = "record" /\ UNCHANGED <<batch, acked>>
      BY <1>9, <2>1, <2>4 DEF NextItem, LastItem
    <3> QED BY <1>9, <3>1 DEF NextItem, ForgetItem
  <2> QED BY <2>3, <2>4
<1>10. CASE Retry
  <2>1. Len(batch) \in Nat /\ idx \in 1..Len(batch)
    BY <1>10, LenProperties DEF Retry
  <2> QED BY <1>10, <2>1 DEF Retry
<1>11. CASE StepFails
  BY <1>11, FailType DEF StepFails
<1>12. ASSUME NEW a \in alerts, WriteAlertFails(a) PROVE TypeOK'
  <2>1. lines' \in Seq(Alert) /\ residue' \in Seq(Alert)
    BY <1>12, AppendType, EmptySeq DEF WriteAlertFails
  <2> QED BY <1>12, <2>1, FailType DEF WriteAlertFails
<1>13. CASE Crash
  <2>1. /\ batch' \in Seq(Event) /\ residue' \in Seq(Alert)
        /\ idx' \in 0..Len(batch') /\ crashes' \in Nat
    BY <1>13, EmptySeq DEF Crash
  <2> QED BY <1>13, <2>1 DEF Crash, ForgetItem
<1>14. CASE Tick
  BY <1>14 DEF Tick
<1>15. CASE UNCHANGED vars
  BY <1>15 DEF vars
<1> QED
  BY <1>1, <1>2, <1>3, <1>4, <1>5, <1>6, <1>7, <1>8, <1>9, <1>10, <1>11,
     <1>12, <1>13, <1>14, <1>15
     DEF Next, SinkStep, Idle

\* Every variable keeps its type, whatever fails; in particular the index of
\* the event in hand stays inside the batch across failures and retries.
THEOREM TypeCorrect == Safety => []TypeOK
<1> QED BY TypeInit, TypeStep, PTL DEF Safety

-----------------------------------------------------------------------------
(* Coalition keys *)

\* What classifying an event does to the keys: the first insert of a
\* coalition announces or silences it, a later one changes nothing.
LEMMA ClassifyKeys ==
    ASSUME TypeOK, ClassifyCoalition \/ ClassifyHighDf \/ ClassifySolo
    PROVE  \/ UNCHANGED keyVars
           \/ \E key \in Coalition : InsertCoalition(key) \/ InsertMultiBrandCert(key)
<1>1. pc = "classify"
  BY DEF ClassifyCoalition, ClassifyHighDf, ClassifySolo
<1>2. full \in Coalition /\ tierABrands \in Coalition
  BY <1>1, EventInHand DEF Coalition
<1> QED BY <1>2 DEF ClassifyCoalition, ClassifyHighDf, ClassifySolo

LEMMA KeysStep ==
    ASSUME TypeOK, [Next]_vars
    PROVE  \/ UNCHANGED keyVars
           \/ ClassifyCoalition \/ ClassifyHighDf \/ ClassifySolo
<1> USE DEF keyVars
<1>1. ASSUME NEW k \in 1..BatchLen, NEW s \in [1..k -> Event], SendBatch(s)
      PROVE  UNCHANGED keyVars
  BY <1>1 DEF SendBatch
<1>2. CASE Open
  BY <1>2 DEF Open
<1>3. CASE Record
  BY <1>3 DEF Record
<1>4. ASSUME NEW p \in Brand \X Host, InsertHost(p) PROVE UNCHANGED keyVars
  BY <1>4 DEF InsertHost
<1>5. CASE HostsDone
  BY <1>5 DEF HostsDone
<1>6. ASSUME NEW a \in alerts, WriteAlert(a) PROVE UNCHANGED keyVars
  BY <1>6 DEF WriteAlert
<1>7. CASE WriteCandidate
  BY <1>7 DEF WriteCandidate
<1>8. CASE NextItem
  BY <1>8 DEF NextItem
<1>9. CASE Retry
  BY <1>9 DEF Retry
<1>10. CASE StepFails
  BY <1>10 DEF StepFails, Fail
<1>11. ASSUME NEW a \in alerts, WriteAlertFails(a) PROVE UNCHANGED keyVars
  BY <1>11 DEF WriteAlertFails, Fail
<1>12. CASE Crash
  BY <1>12 DEF Crash
<1>13. CASE Tick
  BY <1>13 DEF Tick
<1>14. CASE UNCHANGED vars
  BY <1>14 DEF vars
<1> QED
  BY <1>1, <1>2, <1>3, <1>4, <1>5, <1>6, <1>7, <1>8, <1>9, <1>10, <1>11,
     <1>12, <1>13, <1>14
     DEF Next, SinkStep, Idle

LEMMA SeenStep == TypeOK /\ SeenOnce /\ [Next]_vars => SeenOnce'
<1> SUFFICES ASSUME TypeOK, SeenOnce, [Next]_vars PROVE SeenOnce'
  OBVIOUS
<1>1. CASE UNCHANGED keyVars
  BY <1>1 DEF keyVars, SeenOnce
<1>2. ASSUME NEW key \in Coalition, InsertCoalition(key) PROVE SeenOnce'
  BY <1>2 DEF InsertCoalition, SeenOnce
<1>3. ASSUME NEW key \in Coalition, InsertMultiBrandCert(key) PROVE SeenOnce'
  BY <1>3 DEF InsertMultiBrandCert, SeenOnce
<1> QED BY <1>1, <1>2, <1>3, KeysStep, ClassifyKeys

\* The store never mutes a coalition without deciding whether it is a fact,
\* and the decision is never revised, whatever fails and however often the
\* process restarts.
THEOREM SeenOnceHolds == Safety => []SeenOnce
<1>1. Init => SeenOnce
  BY DEF Init, SeenOnce
<1> QED BY <1>1, TypeCorrect, SeenStep, PTL DEF Safety

-----------------------------------------------------------------------------
(* The alert file *)

\* An alert that waits to be written is for a committed fact and has not been
\* written before.
PendingInv ==
    \A a \in alerts : a.tier = "A" =>
        /\ a.coalition \in facts
        /\ \A i \in 1..Len(Written) : Written[i] # a

AlertInv == AnnouncedOnce /\ PendingInv

\* A step that leaves keys and file alone and adds no tier-A alert.
LEMMA AlertFrame ==
    ASSUME AlertInv, UNCHANGED <<keyVars, fileVars>>,
           \A a \in alerts' : a \in alerts \/ a.tier # "A"
    PROVE  AlertInv'
<1>1. Written' = Written /\ facts' = facts
  BY DEF Written, keyVars, fileVars
<1> QED BY <1>1 DEF AlertInv, AnnouncedOnce, PendingInv

LEMMA AlertClassify ==
    ASSUME TypeOK, SeenOnce, AlertInv, UNCHANGED fileVars,
           ClassifyCoalition \/ ClassifyHighDf \/ ClassifySolo
    PROVE  AlertInv'
<1>1. Written' = Written
  BY DEF Written, fileVars
<1>2. facts \subseteq facts'
  BY ClassifyKeys DEF keyVars, InsertCoalition, InsertMultiBrandCert
<1>3. AnnouncedOnce'
  BY <1>1, <1>2 DEF AlertInv, AnnouncedOnce
<1>4. PendingInv'
  <2>1. CASE alerts' = {}
    BY <2>1 DEF PendingInv
  <2>2. CASE /\ ClassifyCoalition
             /\ tierABrands \notin mute
             /\ InsertMultiBrandCert(tierABrands)
             /\ alerts' = {[tier |-> "A", coalition |-> tierABrands]}
    <3> DEFINE key == tierABrands
    <3>1. key \in facts' /\ key \notin facts
      BY <2>2 DEF InsertMultiBrandCert, SeenOnce
    <3>2. \A i \in 1..Len(Written) : Written[i] # [tier |-> "A", coalition |-> key]
      BY <3>1 DEF AlertInv, AnnouncedOnce
    <3> QED BY <1>1, <2>2, <3>1, <3>2 DEF PendingInv
  <2> QED BY <2>1, <2>2 DEF ClassifyCoalition, ClassifyHighDf, ClassifySolo
<1> QED BY <1>3, <1>4 DEF AlertInv

\* write_line adds the alert to what has been written, flushed or not.
LEMMA AlertWritten ==
    ASSUME TypeOK, AlertInv, NEW a \in alerts,
           Written' = Append(Written, a), UNCHANGED keyVars, alerts' = {}
    PROVE  AlertInv'
<1>1. Written \in Seq(Alert) /\ a \in Alert
  BY ConcatProperties DEF TypeOK, Written
<1>2. /\ Len(Written) \in Nat /\ Len(Written') = Len(Written) + 1
      /\ \A i \in 1..Len(Written) : Written'[i] = Written[i]
      /\ Written'[Len(Written) + 1] = a
  BY <1>1, AppendProperties, LenProperties
<1>3. \A i \in 1..Len(Written') : i \in 1..Len(Written) \/ i = Len(Written) + 1
  BY <1>2
<1>4. ASSUME NEW i \in 1..Len(Written'), Written'[i].tier = "A"
      PROVE  Written'[i].coalition \in facts'
  <2>1. CASE i \in 1..Len(Written)
    BY <1>2, <1>4, <2>1 DEF AlertInv, AnnouncedOnce, keyVars
  <2>2. CASE i = Len(Written) + 1
    BY <1>2, <1>4, <2>2 DEF AlertInv, PendingInv, keyVars
  <2> QED BY <1>3, <2>1, <2>2
<1>5. ASSUME NEW i \in 1..Len(Written'), NEW j \in 1..Len(Written'),
             Written'[i].tier = "A", Written'[i] = Written'[j]
      PROVE  i = j
  <2>1. CASE i \in 1..Len(Written) /\ j \in 1..Len(Written)
    BY <1>2, <1>5, <2>1 DEF AlertInv, AnnouncedOnce
  <2>2. CASE i \in 1..Len(Written) /\ j = Len(Written) + 1
    BY <1>2, <1>5, <2>2 DEF AlertInv, PendingInv
  <2>3. CASE i = Len(Written) + 1 /\ j \in 1..Len(Written)
    BY <1>2, <1>5, <2>3 DEF AlertInv, PendingInv
  <2> QED BY <1>3, <2>1, <2>2, <2>3
<1> QED BY <1>4, <1>5 DEF AlertInv, AnnouncedOnce, PendingInv

LEMMA AlertCrash == ASSUME TypeOK, AlertInv, Crash PROVE AlertInv'
<1>1. lines \in Seq(Alert) /\ residue \in Seq(Alert)
  BY DEF TypeOK
<1>2. Written' = lines /\ UNCHANGED keyVars /\ alerts' = {}
  BY <1>1, ConcatEmptySeq DEF Crash, ForgetItem, Written
<1>3. \A i \in 1..Len(lines) : i \in 1..Len(Written) /\ Written[i] = lines[i]
  BY <1>1, ConcatProperties, LenProperties DEF Written
<1> QED BY <1>2, <1>3 DEF AlertInv, AnnouncedOnce, PendingInv, keyVars

\* Steps that append an alert, to the file or to the BufWriter only.
LEMMA WritesAppend ==
    ASSUME TypeOK, NEW a \in alerts, WriteAlert(a) \/ WriteAlertFails(a)
    PROVE  Written' = Append(Written, a)
<1>1. /\ lines \in Seq(Alert) /\ residue \in Seq(Alert) /\ a \in Alert
      /\ lines \o residue \in Seq(Alert)
  BY ConcatProperties DEF TypeOK
<1>2. CASE lines' = Append(lines \o residue, a) /\ residue' = <<>>
  <2>1. Append(lines \o residue, a) \in Seq(Alert)
    BY <1>1, AppendProperties
  <2> QED BY <1>2, <2>1, ConcatEmptySeq DEF Written
<1>3. CASE lines' = lines /\ residue' = Append(residue, a)
  <2>1. Append(residue, a) = residue \o <<a>>
    BY <1>1, AppendIsConcat
  <2>2. lines \o (residue \o <<a>>) = (lines \o residue) \o <<a>>
    BY <1>1, ConcatAssociative
  <2>3. (lines \o residue) \o <<a>> = Append(lines \o residue, a)
    BY <1>1, AppendIsConcat
  <2> QED BY <1>3, <2>1, <2>2, <2>3 DEF Written
<1> QED BY <1>2, <1>3 DEF WriteAlert, WriteAlertFails

LEMMA AlertStep == TypeOK /\ SeenOnce /\ AlertInv /\ [Next]_vars => AlertInv'
<1> SUFFICES ASSUME TypeOK, SeenOnce, AlertInv, [Next]_vars PROVE AlertInv'
  OBVIOUS
<1> USE DEF keyVars, fileVars, taskVars
<1>1. ASSUME NEW k \in 1..BatchLen, NEW s \in [1..k -> Event], SendBatch(s)
      PROVE  AlertInv'
  BY <1>1, AlertFrame DEF SendBatch
<1>2. CASE Open
  BY <1>2, AlertFrame DEF Open
<1>3. CASE Record
  BY <1>3, AlertFrame DEF Record
<1>4. CASE ClassifyCoalition \/ ClassifyHighDf \/ ClassifySolo
  <2>1. UNCHANGED fileVars
    BY <1>4 DEF ClassifyCoalition, ClassifyHighDf, ClassifySolo, AfterClassify
  <2> QED BY <1>4, <2>1, AlertClassify
<1>5. ASSUME NEW p \in Brand \X Host, InsertHost(p) PROVE AlertInv'
  BY <1>5, AlertFrame DEF InsertHost
<1>6. CASE HostsDone
  BY <1>6, AlertFrame DEF HostsDone
<1>7. ASSUME NEW a \in alerts, WriteAlert(a) PROVE AlertInv'
  BY <1>7, WritesAppend, AlertWritten DEF WriteAlert
<1>8. CASE WriteCandidate
  BY <1>8, AlertFrame DEF WriteCandidate
<1>9. CASE NextItem
  BY <1>9, AlertFrame DEF NextItem, ForgetItem
<1>10. CASE Retry
  BY <1>10, AlertFrame DEF Retry
<1>11. CASE StepFails
  BY <1>11, AlertFrame DEF StepFails, Fail, ForgetItem
<1>12. ASSUME NEW a \in alerts, WriteAlertFails(a) PROVE AlertInv'
  BY <1>12, WritesAppend, AlertWritten DEF WriteAlertFails, Fail, ForgetItem
<1>13. CASE Crash
  BY <1>13, AlertCrash
<1>14. CASE Tick
  BY <1>14, AlertFrame DEF Tick
<1>15. CASE UNCHANGED vars
  BY <1>15, AlertFrame DEF vars
<1> QED
  BY <1>1, <1>2, <1>3, <1>4, <1>5, <1>6, <1>7, <1>8, <1>9, <1>10, <1>11,
     <1>12, <1>13, <1>14, <1>15
     DEF Next, SinkStep, Idle

LEMMA AlertInvariant == Safety => []AlertInv
<1>1. Init => AlertInv
  <2> SUFFICES ASSUME Init PROVE AlertInv
    OBVIOUS
  <2>1. Written = <<>> /\ alerts = {}
    BY ConcatEmptySeq, EmptySeq DEF Init, Written
  <2> QED BY <2>1, EmptySeq DEF AlertInv, AnnouncedOnce, PendingInv
<1> QED BY <1>1, TypeCorrect, SeenOnceHolds, AlertStep, PTL DEF Safety

\* Retries, failed flushes and crashes never make the alert file name a
\* coalition twice, or one whose fact is not committed.
THEOREM AnnouncedOnceHolds == Safety => []AnnouncedOnce
<1>1. AlertInv => AnnouncedOnce
  BY DEF AlertInv
<1> QED BY <1>1, AlertInvariant, PTL

-----------------------------------------------------------------------------
(* Refinement *)

PublishedAreFacts == Published \subseteq facts

LEMMA PublishedFacts == TypeOK /\ AnnouncedOnce => PublishedAreFacts
<1> SUFFICES ASSUME TypeOK, AnnouncedOnce,
                    NEW i \in 1..Len(lines), lines[i].tier = "A"
             PROVE  lines[i].coalition \in facts
  BY DEF PublishedAreFacts, Published
<1>1. i \in 1..Len(Written) /\ Written[i] = lines[i]
  BY ConcatProperties, LenProperties DEF TypeOK, Written
<1> QED BY <1>1 DEF AnnouncedOnce

\* Only a write touches the alert file, and it never removes a line.
LEMMA LinesStep ==
    ASSUME TypeOK, [Next]_vars
    PROVE  \/ UNCHANGED lines
           \/ UNCHANGED keyVars /\ Published \subseteq Published'
<1> USE DEF fileVars
<1>1. ASSUME NEW a \in alerts, lines' = Append(lines \o residue, a)
      PROVE  Published \subseteq Published'
  <2>1. lines \in Seq(Alert) /\ residue \in Seq(Alert) /\ a \in Alert
    BY DEF TypeOK
  <2>2. /\ lines \o residue \in Seq(Alert)
        /\ Len(lines) \in Nat /\ Len(residue) \in Nat
        /\ Len(lines \o residue) = Len(lines) + Len(residue)
        /\ \A i \in 1..Len(lines) : (lines \o residue)[i] = lines[i]
    BY <2>1, ConcatProperties, LenProperties
  <2>3. \A i \in 1..Len(lines) : i \in 1..Len(lines') /\ lines'[i] = lines[i]
    BY <1>1, <2>1, <2>2, AppendProperties
  <2> QED BY <2>3 DEF Published
<1>2. ASSUME NEW a \in alerts, WriteAlert(a) PROVE UNCHANGED keyVars /\ Published \subseteq Published'
  BY <1>1, <1>2 DEF WriteAlert
<1>3. ASSUME NEW a \in alerts, WriteAlertFails(a)
      PROVE  UNCHANGED lines \/ (UNCHANGED keyVars /\ Published \subseteq Published')
  BY <1>1, <1>3 DEF WriteAlertFails, Fail
<1>4. ASSUME NEW k \in 1..BatchLen, NEW s \in [1..k -> Event], SendBatch(s)
      PROVE  UNCHANGED lines
  BY <1>4 DEF SendBatch
<1>5. CASE Open \/ Record \/ HostsDone \/ WriteCandidate \/ NextItem \/ Retry
  BY <1>5 DEF Open, Record, HostsDone, WriteCandidate, NextItem, Retry
<1>6. CASE ClassifyCoalition \/ ClassifyHighDf \/ ClassifySolo
  BY <1>6 DEF ClassifyCoalition, ClassifyHighDf, ClassifySolo, AfterClassify
<1>7. ASSUME NEW p \in Brand \X Host, InsertHost(p) PROVE UNCHANGED lines
  BY <1>7 DEF InsertHost
<1>8. CASE StepFails \/ Crash \/ Tick \/ UNCHANGED vars
  BY <1>8 DEF StepFails, Crash, Tick, vars
<1> QED
  BY <1>2, <1>3, <1>4, <1>5, <1>6, <1>7, <1>8 DEF Next, SinkStep, Idle

LEMMA FeedStep ==
    TypeOK /\ SeenOnce /\ PublishedAreFacts' /\ [Next]_vars => [F!Next]_(F!vars)
<1> SUFFICES ASSUME TypeOK, SeenOnce, PublishedAreFacts', [Next]_vars
             PROVE  [F!Next]_(F!vars)
  OBVIOUS
<1> USE DEF keyVars
<1>1. CASE UNCHANGED <<keyVars, lines>>
  BY <1>1 DEF F!vars, Published
<1>2. CASE UNCHANGED keyVars /\ Published \subseteq Published'
  <2>1. Published' \ Published \in SUBSET (facts \ Published)
    BY <1>2 DEF PublishedAreFacts
  <2>2. Published' = Published \cup (Published' \ Published)
    BY <1>2
  <2>3. F!Publish
    BY <1>2, <2>1, <2>2 DEF F!Publish
  <2> QED BY <2>3 DEF F!Next
<1>3. CASE UNCHANGED lines /\ (ClassifyCoalition \/ ClassifyHighDf \/ ClassifySolo)
  <2>1. Published' = Published
    BY <1>3 DEF Published
  <2>2. ASSUME NEW key \in Coalition, InsertCoalition(key) PROVE [F!Next]_(F!vars)
    BY <2>1, <2>2 DEF InsertCoalition, SeenOnce, F!Next, F!Silence, F!vars
  <2>3. ASSUME NEW key \in Coalition, InsertMultiBrandCert(key) PROVE [F!Next]_(F!vars)
    BY <2>1, <2>3 DEF InsertMultiBrandCert, SeenOnce, F!Next, F!Announce, F!vars
  <2>4. CASE UNCHANGED keyVars
    BY <2>1, <2>4 DEF F!vars
  <2> QED BY <1>3, <2>2, <2>3, <2>4, ClassifyKeys
<1> QED BY <1>1, <1>2, <1>3, KeysStep, LinesStep

\* The sink with its store and its alert file is the abstract feed: every
\* step announces, silences or publishes as AlertFeed allows.
THEOREM FeedImplemented == Safety => ImplementsAlertFeed
<1>1. Init => F!Init
  <2> SUFFICES ASSUME Init PROVE F!Init
    OBVIOUS
  <2>1. lines = <<>> /\ Len(lines) = 0
    BY EmptySeq DEF Init
  <2>2. Published = {}
    BY <2>1 DEF Published
  <2> QED BY <2>2 DEF Init, F!Init
<1> QED
  BY <1>1, TypeCorrect, SeenOnceHolds, AnnouncedOnceHolds, PublishedFacts,
     FeedStep, PTL
     DEF Safety, ImplementsAlertFeed, F!Spec

-----------------------------------------------------------------------------
(* Burn-in and hubs *)

\* The counters and the clock that IsCalibrating and IsHub read never go back.
LEMMA CountersGrow ==
    ASSUME TypeOK, [Next]_vars
    PROVE  /\ \A b \in Brand : df'[b] >= df[b] /\ degree'[b] >= degree[b]
           /\ multi' >= multi
           /\ now' >= now
           /\ started # NotStarted => started' = started
<1> USE DEF countVars, envVars
<1>0. /\ \A b \in Brand : df[b] \in Nat /\ degree[b] \in Nat
      /\ multi \in Nat /\ now \in Nat
  BY DEF TypeOK
<1>1. CASE UNCHANGED <<countVars, started>> /\ (now' = now \/ now' = now + 1)
  BY <1>0, <1>1
<1>2. CASE Open
  <2>1. Floor \in Nat
    BY NoveltyAssumption DEF Floor, Larger
  <2> QED BY <1>0, <1>2, <2>1 DEF Open, StartedAt, Larger
<1>3. CASE Record
  <2>1. full \in SUBSET Brand /\ partners \in [Brand -> SUBSET Brand]
    BY <1>3, EventInHand DEF Record, TypeOK
  <2>2. \A b \in Brand : df'[b] >= df[b]
    <3>1. df' = [b \in Brand |-> IF b \in full THEN df[b] + 1 ELSE df[b]]
      BY <1>3 DEF Record
    <3> QED BY <1>0, <3>1
  <2>3. \A b \in Brand : degree'[b] >= degree[b]
    <3>1. CASE UNCHANGED degree
      BY <1>0, <3>1
    <3>2. CASE degree' = [b \in Brand |-> IF b \in full
                            THEN DegreeOf(b, partners'[b]) ELSE degree[b]]
               /\ partners' = [b \in Brand |-> IF b \in full
                                 THEN partners[b] \cup (full \ {b}) ELSE partners[b]]
      <4>1. \A b \in Brand : Cardinality(partners'[b]) \in Nat
        BY <2>1, <3>2, BrandCardinality
      <4> QED BY <1>0, <3>2, <4>1 DEF DegreeOf, Larger
    <3> QED BY <1>3, <3>1, <3>2 DEF Record
  <2> QED BY <1>0, <1>3, <2>2, <2>3 DEF Record
<1>4. ASSUME NEW k \in 1..BatchLen, NEW s \in [1..k -> Event], SendBatch(s)
      PROVE  UNCHANGED <<countVars, started, now>>
  BY <1>4 DEF SendBatch
<1>5. CASE ClassifyCoalition \/ ClassifyHighDf \/ ClassifySolo
  BY <1>1, <1>5 DEF ClassifyCoalition, ClassifyHighDf, ClassifySolo, AfterClassify
<1>6. ASSUME NEW p \in Brand \X Host, InsertHost(p)
      PROVE  UNCHANGED <<countVars, started, now>>
  BY <1>6 DEF InsertHost
<1>7. CASE HostsDone \/ WriteCandidate \/ NextItem \/ Retry
  BY <1>1, <1>7 DEF HostsDone, WriteCandidate, NextItem, Retry
<1>8. ASSUME NEW a \in alerts, WriteAlert(a) PROVE UNCHANGED <<countVars, started, now>>
  BY <1>8 DEF WriteAlert
<1>9. CASE StepFails \/ \E a \in alerts : WriteAlertFails(a)
  BY <1>1, <1>9 DEF StepFails, WriteAlertFails, Fail
<1>10. CASE Crash \/ Tick \/ UNCHANGED vars
  BY <1>1, <1>10 DEF Crash, Tick, vars
<1> QED
  BY <1>1, <1>2, <1>3, <1>4, <1>5, <1>6, <1>7, <1>8, <1>9, <1>10
     DEF Next, SinkStep, Idle

\* A brand that saturated stays out of alerts: no retry and no restart, with
\* its degree floor, lowers a count below the cap it has reached.
THEOREM HubsStay == Safety => HubStays
<1>1. TypeOK /\ TypeOK' /\ [Next]_vars => [\A b \in Brand : IsHub(b) => IsHub(b)']_vars
  <2> SUFFICES ASSUME TypeOK, TypeOK', [Next]_vars, NEW b \in Brand, IsHub(b)
               PROVE  IsHub(b)'
    OBVIOUS
  <2>1. /\ df[b] \in Nat /\ degree[b] \in Nat /\ df'[b] \in Nat /\ degree'[b] \in Nat
        /\ df'[b] >= df[b] /\ degree'[b] >= degree[b]
    BY CountersGrow DEF TypeOK
  <2> QED BY <2>1, NoveltyAssumption DEF IsHub
<1> QED BY <1>1, TypeCorrect, PTL DEF Safety, HubStays

LEMMA ElapsedGrows ==
    ASSUME NEW s \in Nat, NEW c \in Nat, NEW x \in Nat, NEW y \in Nat,
           y >= x, x - s >= c
    PROVE  y - s >= c
OBVIOUS

LEMMA CalibrationEnds ==
    ASSUME TypeOK, TypeOK', [Next]_vars, started # NotStarted, ~IsCalibrating
    PROVE  ~IsCalibrating'
<1>1. /\ multi' >= multi /\ now' >= now /\ started' = started
      /\ multi \in Nat /\ now \in Nat /\ started \in Nat
      /\ multi' \in Nat /\ now' \in Nat
  BY CountersGrow DEF TypeOK
<1>2. CalibrateSecs \in Nat /\ CalibrateEvents \in Nat
  BY NoveltyAssumption
<1>3. now - started >= CalibrateSecs => now' - started' >= CalibrateSecs
  BY <1>1, <1>2, ElapsedGrows
<1>4. multi >= CalibrateEvents => multi' >= CalibrateEvents
  BY <1>1, <1>2
<1> QED BY <1>3, <1>4, Zenon DEF IsCalibrating

\* The burn-in gate opens once and for all; a restart finds the stored clock.
THEOREM BurnInEnds == Safety => BurnInEndsOnce
<1>1. TypeOK /\ TypeOK' /\ [Next]_vars
        => [started # NotStarted /\ ~IsCalibrating => ~IsCalibrating']_vars
  BY CalibrationEnds
<1> QED BY <1>1, TypeCorrect, PTL DEF Safety, BurnInEndsOnce

\* While an event is classified, the gate read before it was counted is still
\* a safe answer: open then, open now.
GateInv ==
    /\ pc # "down" => started # NotStarted
    /\ pc = "classify" /\ ~calibrating => ~IsCalibrating

\* Only Open leaves "down", and only Record enters "classify".
LEMMA GateSteps ==
    ASSUME TypeOK, [Next]_vars
    PROVE  \/ Open
           \/ Record
           \/ pc' = pc /\ calibrating' = calibrating
           \/ pc # "down" /\ pc' # "classify"
           \/ pc' = "down"
<1> USE DEF taskVars
<1>1. ASSUME NEW k \in 1..BatchLen, NEW s \in [1..k -> Event], SendBatch(s)
      PROVE  pc # "down" /\ pc' # "classify"
  BY <1>1 DEF SendBatch
<1>2. CASE ClassifyCoalition \/ ClassifyHighDf \/ ClassifySolo
  BY <1>2 DEF ClassifyCoalition, ClassifyHighDf, ClassifySolo, AfterClassify
<1>3. ASSUME NEW p \in Brand \X Host, InsertHost(p)
      PROVE  pc' = pc /\ calibrating' = calibrating
  BY <1>3 DEF InsertHost
<1>4. CASE HostsDone \/ WriteCandidate \/ NextItem \/ Retry
  BY <1>4 DEF HostsDone, WriteCandidate, NextItem, Retry
<1>5. ASSUME NEW a \in alerts, WriteAlert(a) PROVE pc' = pc /\ calibrating' = calibrating
  BY <1>5 DEF WriteAlert
<1>6. CASE StepFails \/ \E a \in alerts : WriteAlertFails(a)
  BY <1>6 DEF StepFails, WriteAlertFails, Fail
<1>7. CASE Crash \/ Tick \/ UNCHANGED vars
  BY <1>7 DEF Crash, Tick, vars
<1> QED
  BY <1>1, <1>2, <1>3, <1>4, <1>5, <1>6, <1>7 DEF Next, SinkStep, Idle

LEMMA GateStep == TypeOK /\ TypeOK' /\ GateInv /\ [Next]_vars => GateInv'
<1> SUFFICES ASSUME TypeOK, TypeOK', GateInv, [Next]_vars PROVE GateInv'
  OBVIOUS
<1>1. started # NotStarted => started' = started /\ (~IsCalibrating => ~IsCalibrating')
  BY CountersGrow, CalibrationEnds
<1>2. CASE Open
  <2>1. started' # NotStarted
    BY <1>2 DEF Open, StartedAt, TypeOK, NotStarted
  <2> QED BY <1>2, <2>1 DEF Open, GateInv
<1>3. CASE Record
  <2>1. pc # "down" /\ calibrating' = IsCalibrating
    BY <1>3 DEF Record
  <2> QED BY <1>1, <2>1 DEF GateInv
<1>4. CASE pc' = pc /\ calibrating' = calibrating
  BY <1>1, <1>4 DEF GateInv
<1>5. CASE pc # "down" /\ pc' # "classify"
  BY <1>1, <1>5 DEF GateInv
<1>6. CASE pc' = "down"
  BY <1>6 DEF GateInv
<1> QED BY <1>2, <1>3, <1>4, <1>5, <1>6, GateSteps

\* No coalition is announced during burn-in, although process_match uses a
\* gate that was read before the event was counted.
THEOREM NoFactBeforeBurnIn == Safety => NoFactInBurnIn
<1>1. Init => GateInv
  BY DEF Init, GateInv
<1>2. TypeOK /\ GateInv /\ [Next]_vars => [facts' # facts => ~IsCalibrating]_vars
  <2> SUFFICES ASSUME TypeOK, GateInv, [Next]_vars, facts' # facts
               PROVE  ~IsCalibrating
    OBVIOUS
  <2>1. pc = "classify" /\ ~calibrating
    BY KeysStep DEF keyVars, ClassifyCoalition, ClassifyHighDf, ClassifySolo,
                    InsertCoalition, WantEmit
  <2> QED BY <2>1 DEF GateInv
<1> QED BY <1>1, <1>2, TypeCorrect, GateStep, PTL DEF Safety, NoFactInBurnIn

-----------------------------------------------------------------------------
(* Acknowledged events *)

\* The indices up to k of the events of the batch that name b.
NamedUpTo(b, k) == {i \in 1..k : b \in Keywords[batch[i]]}

\* How far into the batch the events have been counted since it was last sent.
Done ==
    IF pc = "record" THEN idx - 1
    ELSE IF pc \in {"classify", "hosts", "emit"} THEN idx ELSE 0

\* What is acknowledged and what this attempt at the batch has counted are
\* together no more than event-df.
CountedInv == \A b \in Brand : acked[b] + Cardinality(NamedUpTo(b, Done)) <= df[b]

LEMMA NamedCardinality ==
    ASSUME NEW b, NEW k \in Int
    PROVE  /\ IsFiniteSet(NamedUpTo(b, k)) /\ Cardinality(NamedUpTo(b, k)) \in Nat
           /\ k < 1 => Cardinality(NamedUpTo(b, k)) = 0
<1>1. IsFiniteSet(1..k)
  BY FS_Interval
<1>2. IsFiniteSet(NamedUpTo(b, k))
  BY <1>1, FS_Subset DEF NamedUpTo
<1>3. k < 1 => NamedUpTo(b, k) = {}
  BY DEF NamedUpTo
<1> QED BY <1>2, <1>3, FS_CardinalityType, FS_EmptySet

\* One event more.
LEMMA NamedNext ==
    ASSUME NEW b, NEW k \in Nat
    PROVE  Cardinality(NamedUpTo(b, k + 1)) =
               Cardinality(NamedUpTo(b, k)) + (IF b \in Keywords[batch[k + 1]] THEN 1 ELSE 0)
<1>1. CASE b \in Keywords[batch[k + 1]]
  <2>1. NamedUpTo(b, k + 1) = NamedUpTo(b, k) \cup {k + 1} /\ k + 1 \notin NamedUpTo(b, k)
    BY <1>1 DEF NamedUpTo
  <2> QED BY <1>1, <2>1, NamedCardinality, FS_AddElement
<1>2. CASE b \notin Keywords[batch[k + 1]]
  <2>1. NamedUpTo(b, k + 1) = NamedUpTo(b, k)
    BY <1>2 DEF NamedUpTo
  <2> QED BY <1>2, <2>1, NamedCardinality
<1> QED BY <1>1, <1>2

\* A step after which nothing of the batch counts.
LEMMA CountAnew ==
    ASSUME TypeOK, TypeOK', CountedInv, acked' = acked, Done' \in Int, Done' < 1,
           \A b \in Brand : df'[b] >= df[b], Done \in Int
    PROVE  CountedInv'
<1> SUFFICES ASSUME NEW b \in Brand
             PROVE  acked'[b] + Cardinality(NamedUpTo(b, Done))' <= df'[b]
  BY DEF CountedInv
<1>1. Cardinality(NamedUpTo(b, Done))' = 0
  <2>1. \A k \in Int : k < 1 => NamedUpTo(b, k)' = {}
    BY DEF NamedUpTo
  <2>2. (NamedUpTo(b, Done))' = {}
    BY DEF NamedUpTo
  <2> QED BY <2>2, FS_EmptySet
<1>2. Cardinality(NamedUpTo(b, Done)) \in Nat
  BY NamedCardinality
<1>3. acked[b] \in Nat /\ df[b] \in Nat /\ df'[b] \in Nat
  BY DEF TypeOK
<1>4. acked[b] + Cardinality(NamedUpTo(b, Done)) <= df[b]
  BY DEF CountedInv
<1> QED BY <1>1, <1>2, <1>3, <1>4

\* A step that counts and acknowledges nothing.
LEMMA CountFrame ==
    ASSUME TypeOK, TypeOK', CountedInv, UNCHANGED <<acked, batch>>, Done' = Done, Done \in Int,
           \A b \in Brand : df'[b] >= df[b]
    PROVE  CountedInv'
<1> SUFFICES ASSUME NEW b \in Brand
             PROVE  acked'[b] + Cardinality(NamedUpTo(b, Done))' <= df'[b]
  BY DEF CountedInv
<1>1. (NamedUpTo(b, Done))' = NamedUpTo(b, Done)
  BY DEF NamedUpTo
<1>2. Cardinality(NamedUpTo(b, Done)) \in Nat
  BY NamedCardinality
<1>3. acked[b] \in Nat /\ df[b] \in Nat /\ df'[b] \in Nat /\ df'[b] >= df[b]
  BY DEF TypeOK
<1>4. acked[b] + Cardinality(NamedUpTo(b, Done)) <= df[b]
  BY DEF CountedInv
<1> QED BY <1>1, <1>2, <1>3, <1>4

LEMMA CountedStep == TypeOK /\ TypeOK' /\ CountedInv /\ [Next]_vars => CountedInv'
<1> SUFFICES ASSUME TypeOK, TypeOK', CountedInv, [Next]_vars PROVE CountedInv'
  OBVIOUS
<1> USE DEF taskVars, envVars
<1>0. /\ Done \in Int /\ Done' \in Int /\ idx \in Int
      /\ \A b \in Brand : df'[b] >= df[b]
  <2>1. Len(batch) \in Nat /\ Len(batch') \in Nat
    BY LenProperties DEF TypeOK
  <2>2. idx \in Int /\ idx' \in Int
    BY <2>1 DEF TypeOK
  <2>3. Done \in Int /\ Done' \in Int
    BY <2>2 DEF Done
  <2>4. \A b \in Brand : df'[b] >= df[b]
    BY CountersGrow
  <2> QED BY <2>2, <2>3, <2>4
<1>1. ASSUME NEW k \in 1..BatchLen, NEW s \in [1..k -> Event], SendBatch(s)
      PROVE  CountedInv'
  <2>1. acked' = acked /\ Done' = 0
    BY <1>1 DEF SendBatch, Done
  <2> QED BY <1>0, <2>1, CountAnew
<1>2. CASE Open
  <2>1. UNCHANGED <<acked, batch>> /\ Done' = Done
    BY <1>2 DEF Open, Done
  <2> QED BY <1>0, <2>1, CountFrame
<1>3. CASE Record
  <2> SUFFICES ASSUME NEW b \in Brand
               PROVE  acked'[b] + Cardinality(NamedUpTo(b, Done))' <= df'[b]
    BY DEF CountedInv
  <2>1. /\ acked' = acked /\ batch' = batch /\ Done = idx - 1 /\ Done' = idx
        /\ idx - 1 \in Nat
    BY <1>3, <1>0 DEF Record, Done, TypeOK
  <2>2. (NamedUpTo(b, Done))' = NamedUpTo(b, (idx - 1) + 1)
    BY <1>0, <2>1 DEF NamedUpTo
  <2>3. Keywords[batch[(idx - 1) + 1]] = full
    BY <1>0 DEF full, event
  <2>4. Cardinality(NamedUpTo(b, Done))' =
            Cardinality(NamedUpTo(b, idx - 1)) + (IF b \in full THEN 1 ELSE 0)
    BY <2>1, <2>2, <2>3, NamedNext
  <2>5. df'[b] = df[b] + (IF b \in full THEN 1 ELSE 0)
    BY <1>3 DEF Record, TypeOK
  <2>6. acked[b] + Cardinality(NamedUpTo(b, idx - 1)) <= df[b]
    BY <2>1 DEF CountedInv
  <2>7. acked[b] \in Nat /\ df[b] \in Nat /\ Cardinality(NamedUpTo(b, idx - 1)) \in Nat
    BY <2>1, NamedCardinality DEF TypeOK
  <2>8. acked[b] + (Cardinality(NamedUpTo(b, idx - 1)) + (IF b \in full THEN 1 ELSE 0))
           <= df[b] + (IF b \in full THEN 1 ELSE 0)
    BY <2>6, <2>7
  <2> QED BY <2>1, <2>4, <2>5, <2>8
<1>4. CASE ClassifyCoalition \/ ClassifyHighDf \/ ClassifySolo
  <2>1. UNCHANGED <<acked, batch>> /\ Done' = Done
    BY <1>4 DEF ClassifyCoalition, ClassifyHighDf, ClassifySolo, AfterClassify, Done
  <2> QED BY <1>0, <2>1, CountFrame
<1>5. ASSUME NEW p \in Brand \X Host, InsertHost(p) PROVE CountedInv'
  <2>1. UNCHANGED <<acked, batch>> /\ Done' = Done
    BY <1>5 DEF InsertHost, Done
  <2> QED BY <1>0, <2>1, CountFrame
<1>6. CASE HostsDone \/ WriteCandidate
  <2>1. UNCHANGED <<acked, batch>> /\ Done' = Done
    BY <1>6 DEF HostsDone, WriteCandidate, Done
  <2> QED BY <1>0, <2>1, CountFrame
<1>7. ASSUME NEW a \in alerts, WriteAlert(a) PROVE CountedInv'
  <2>1. UNCHANGED <<acked, batch>> /\ Done' = Done
    BY <1>7 DEF WriteAlert, Done
  <2> QED BY <1>0, <2>1, CountFrame
<1>8. CASE NextItem /\ ~LastItem
  <2>1. UNCHANGED <<acked, batch>> /\ Done' = Done
    BY <1>0, <1>8 DEF NextItem, Done
  <2> QED BY <1>0, <2>1, CountFrame
<1>9. CASE NextItem /\ LastItem
  <2> SUFFICES ASSUME NEW b \in Brand
               PROVE  acked'[b] + Cardinality(NamedUpTo(b, Done))' <= df'[b]
    BY DEF CountedInv
  <2>1. /\ acked'[b] = acked[b] + Naming(b) /\ df' = df /\ Done' = 0
        /\ Done = idx /\ idx = Len(batch)
    BY <1>9, LenProperties DEF NextItem, LastItem, Done, countVars, TypeOK
  <2>2. Naming(b) = Cardinality(NamedUpTo(b, Done))
    BY <2>1 DEF Naming, NamedUpTo
  <2>3. (NamedUpTo(b, Done))' = {}
    BY <2>1 DEF NamedUpTo
  <2>4. Cardinality(NamedUpTo(b, Done))' = 0
    BY <2>3, FS_EmptySet
  <2>5. acked[b] + Cardinality(NamedUpTo(b, Done)) <= df[b]
    BY DEF CountedInv
  <2>6. acked'[b] \in Nat
    BY DEF TypeOK
  <2> QED BY <2>1, <2>2, <2>4, <2>5, <2>6
<1>10. CASE Retry
  <2>1. acked' = acked /\ Done' = 0
    BY <1>10 DEF Retry, Done
  <2> QED BY <1>0, <2>1, CountAnew
<1>11. CASE StepFails \/ \E a \in alerts : WriteAlertFails(a)
  <2>1. acked' = acked /\ Done' = 0
    BY <1>11 DEF StepFails, WriteAlertFails, Fail, Done
  <2> QED BY <1>0, <2>1, CountAnew
<1>12. CASE Crash
  <2>1. acked' = acked /\ Done' = 0
    BY <1>12 DEF Crash, Done
  <2> QED BY <1>0, <2>1, CountAnew
<1>13. CASE Tick \/ UNCHANGED vars
  <2>1. UNCHANGED <<acked, batch>> /\ Done' = Done
    BY <1>13 DEF Tick, vars, Done
  <2> QED BY <1>0, <2>1, CountFrame
<1> QED
  BY <1>1, <1>2, <1>3, <1>4, <1>5, <1>6, <1>7, <1>8, <1>9, <1>10, <1>11, <1>12, <1>13
     DEF Next, SinkStep, Idle

\* Whatever failed, was retried or crashed on the way, an acknowledged event has
\* been counted for each brand it names.
THEOREM AckedCounted == Safety => []AckedIsCounted
<1>1. Init => CountedInv
  <2> SUFFICES ASSUME Init, NEW b \in Brand
               PROVE  acked[b] + Cardinality(NamedUpTo(b, Done)) <= df[b]
    BY DEF CountedInv
  <2>1. Done = 0 /\ acked[b] = 0 /\ df[b] = 0
    BY DEF Init, Done
  <2>2. Cardinality(NamedUpTo(b, 0)) = 0
    BY NamedCardinality
  <2> QED BY <2>1, <2>2
<1>2. TypeOK /\ CountedInv => AckedIsCounted
  <2> SUFFICES ASSUME TypeOK, CountedInv, NEW b \in Brand PROVE acked[b] <= df[b]
    BY DEF AckedIsCounted
  <2>1. Done \in Int
    BY LenProperties DEF Done, TypeOK
  <2>2. Cardinality(NamedUpTo(b, Done)) \in Nat
    BY <2>1, NamedCardinality
  <2>3. acked[b] \in Nat /\ df[b] \in Nat
    BY DEF TypeOK
  <2> QED BY <2>2, <2>3 DEF CountedInv
<1> QED BY <1>1, <1>2, TypeCorrect, CountedStep, PTL DEF Safety

-----------------------------------------------------------------------------
(* Hosts *)

\* The hosts H of brand b have their rows and are in no alert written for b.
Unannounced(b, H) ==
    /\ {b} \X H \subseteq hosts
    /\ \A i \in 1..Len(Written) :
          Written[i].tier = "B" /\ Written[i].brand = b => Written[i].hosts \cap H = {}

\* What is about to be announced is new; the hosts gathered are of the brands
\* in hand and are forgotten with the event.
GatherInv ==
    /\ \A a \in alerts : a.tier = "B" => Unannounced(a.brand, a.hosts)
    /\ pc = "hosts" => \A b \in brands : Unannounced(b, fresh)
    /\ pc \notin {"hosts", "emit"} => fresh = {}
    /\ todo \subseteq brands \X Host

HostInv == HostAnnouncedOnce /\ GatherInv

\* Announcements stay good when no row and no alert goes.
LEMMA UnannouncedStays ==
    ASSUME NEW b, NEW H, Unannounced(b, H), Written' = Written, hosts \subseteq hosts'
    PROVE  Unannounced(b, H)'
BY DEF Unannounced

LEMMA OnceStays ==
    ASSUME HostAnnouncedOnce, Written' = Written, hosts \subseteq hosts'
    PROVE  HostAnnouncedOnce'
BY DEF HostAnnouncedOnce

\* A step that keeps the file, drops what it gathered or leaves it alone.
LEMMA HostFrame ==
    ASSUME HostInv, UNCHANGED <<hosts, fileVars>>,
           \/ UNCHANGED <<alerts, pc, brands, fresh, todo>>
           \/ /\ UNCHANGED <<alerts, brands, fresh, todo>>
              /\ pc \notin {"hosts", "emit"} /\ pc' \notin {"hosts", "emit"}
           \/ alerts' = {} /\ brands' = {} /\ fresh' = {} /\ todo' = {}
    PROVE  HostInv'
<1>1. Written' = Written
  BY DEF Written, fileVars
<1>2. HostAnnouncedOnce'
  BY <1>1, OnceStays DEF HostInv
<1>3. \A b, H : Unannounced(b, H) => Unannounced(b, H)'
  BY <1>1, UnannouncedStays
<1>4. GatherInv'
  BY <1>3 DEF HostInv, GatherInv
<1> QED BY <1>2, <1>4 DEF HostInv

LEMMA HostClassify ==
    ASSUME TypeOK, HostInv, UNCHANGED <<hosts, fileVars, fresh>>, pc = "classify",
           \A a \in alerts' : a.tier # "B",
           brands' = tierABrands, todo' = HostPairs(tierABrands)
    PROVE  HostInv'
<1>1. Written' = Written
  BY DEF Written, fileVars
<1>2. HostAnnouncedOnce'
  BY <1>1, OnceStays DEF HostInv
<1>3. fresh' = {}
  BY DEF HostInv, GatherInv
<1>4. \A b : Unannounced(b, {})'
  BY DEF Unannounced
<1>5. event \in Event
  BY ElementOfSeq DEF event, TypeOK
<1>6. Hosts[event] \subseteq Host
  BY <1>5, NoveltyAssumption
<1>7. todo' \subseteq brands' \X Host
  BY <1>6 DEF HostPairs
<1> QED BY <1>2, <1>3, <1>4, <1>7 DEF HostInv, GatherInv

\* The host of a lone brand that is not in the store is in no alert of it.
LEMMA HostInsert ==
    ASSUME TypeOK, HostInv, NEW p \in Brand \X Host, InsertHost(p)
    PROVE  HostInv'
<1>1. Written' = Written /\ hosts' = hosts \cup {p} /\ pc = "hosts" /\ pc' = "hosts"
  BY DEF InsertHost, Written, fileVars
<1>2. HostAnnouncedOnce'
  BY <1>1, OnceStays DEF HostInv
<1>3. \A b, H : Unannounced(b, H) => Unannounced(b, H)'
  BY <1>1, UnannouncedStays
<1>4. ASSUME NEW b \in brands PROVE Unannounced(b, fresh)'
  <2>1. Unannounced(b, fresh)
    BY <1>1 DEF HostInv, GatherInv
  <2>2. CASE ~IsNovelHost(p)
    <3>1. fresh' = fresh
      BY <2>2 DEF InsertHost
    <3> QED BY <1>1, <2>1, <3>1 DEF Unannounced
  <2>3. CASE IsNovelHost(p)
    <3>1. fresh' = fresh \cup {p[2]} /\ p \notin hosts
      BY <2>3 DEF InsertHost, IsNovelHost
    <3>2. IsFiniteSet(brands)
      BY FiniteBrands, FS_Subset DEF TypeOK
    <3>3. p[1] = b
      BY <2>3, <3>2, FS_Singleton DEF IsNovelHost, HostInv, GatherInv, InsertHost
    <3>4. p = <<b, p[2]>> /\ p[2] \in Host
      BY <3>3
    <3>5. ASSUME NEW i \in 1..Len(Written), Written[i].tier = "B", Written[i].brand = b
          PROVE  p[2] \notin Written[i].hosts
      BY <3>1, <3>4, <3>5 DEF HostInv, HostAnnouncedOnce
    <3>6. {b} \X fresh' \subseteq hosts'
      BY <1>1, <2>1, <3>1, <3>4 DEF Unannounced
    <3>7. \A i \in 1..Len(Written) :
             Written[i].tier = "B" /\ Written[i].brand = b => Written[i].hosts \cap fresh' = {}
      BY <2>1, <3>1, <3>5 DEF Unannounced
    <3> QED BY <1>1, <3>6, <3>7 DEF Unannounced
  <2> QED BY <2>2, <2>3
<1>5. alerts' = alerts /\ brands' = brands /\ todo' \subseteq todo
  BY DEF InsertHost
<1> QED BY <1>1, <1>2, <1>3, <1>4, <1>5 DEF HostInv, GatherInv

LEMMA HostsAreDone == ASSUME TypeOK, HostInv, HostsDone PROVE HostInv'
<1>1. /\ Written' = Written /\ hosts' = hosts /\ pc = "hosts" /\ pc' = "emit"
      /\ UNCHANGED <<brands, todo, fresh>>
  BY DEF HostsDone, Written, fileVars
<1>2. HostAnnouncedOnce'
  BY <1>1, OnceStays DEF HostInv
<1>3. \A b, H : Unannounced(b, H) => Unannounced(b, H)'
  BY <1>1, UnannouncedStays
<1>4. ASSUME NEW a \in alerts', a.tier = "B" PROVE Unannounced(a.brand, a.hosts)'
  <2>1. CASE a \in alerts
    BY <1>3, <1>4, <2>1 DEF HostInv, GatherInv
  <2>2. CASE \E b \in brands : a = [tier |-> "B", brand |-> b, hosts |-> fresh]
    BY <1>1, <1>3, <2>2 DEF HostInv, GatherInv
  <2> QED BY <2>1, <2>2 DEF HostsDone
<1> QED BY <1>1, <1>2, <1>4 DEF HostInv, GatherInv

\* write_line adds the alert, flushed or not; the hosts gathered are not looked
\* at again.
LEMMA HostWritten ==
    ASSUME TypeOK, HostInv, NEW a \in alerts, Written' = Append(Written, a),
           hosts' = hosts, pc' # "hosts", alerts' = {},
           pc' \notin {"hosts", "emit"} => fresh' = {}, todo' \subseteq brands' \X Host
    PROVE  HostInv'
<1>1. Written \in Seq(Alert) /\ a \in Alert
  BY ConcatProperties DEF TypeOK, Written
<1>2. /\ Len(Written) \in Nat /\ Len(Written') = Len(Written) + 1
      /\ \A i \in 1..Len(Written) : Written'[i] = Written[i]
      /\ Written'[Len(Written) + 1] = a
  BY <1>1, AppendProperties, LenProperties
<1>3. \A i \in 1..Len(Written') : i \in 1..Len(Written) \/ i = Len(Written) + 1
  BY <1>2
<1>4. a.tier = "B" => Unannounced(a.brand, a.hosts)
  BY DEF HostInv, GatherInv
<1>5. ASSUME NEW i \in 1..Len(Written'), Written'[i].tier = "B"
      PROVE  {Written'[i].brand} \X Written'[i].hosts \subseteq hosts'
  <2>1. CASE i \in 1..Len(Written)
    BY <1>2, <1>5, <2>1 DEF HostInv, HostAnnouncedOnce
  <2>2. CASE i = Len(Written) + 1
    BY <1>2, <1>4, <1>5, <2>2 DEF Unannounced
  <2> QED BY <1>3, <2>1, <2>2
<1>6. ASSUME NEW i \in 1..Len(Written'), NEW j \in 1..Len(Written'), i # j,
             Written'[i].tier = "B", Written'[j].tier = "B",
             Written'[i].brand = Written'[j].brand
      PROVE  Written'[i].hosts \cap Written'[j].hosts = {}
  <2>1. CASE i \in 1..Len(Written) /\ j \in 1..Len(Written)
    BY <1>2, <1>6, <2>1 DEF HostInv, HostAnnouncedOnce
  <2>2. CASE i \in 1..Len(Written) /\ j = Len(Written) + 1
    BY <1>2, <1>4, <1>6, <2>2 DEF Unannounced
  <2>3. CASE i = Len(Written) + 1 /\ j \in 1..Len(Written)
    BY <1>2, <1>4, <1>6, <2>3 DEF Unannounced
  <2> QED BY <1>3, <1>6, <2>1, <2>2, <2>3
<1>7. HostAnnouncedOnce'
  BY <1>5, <1>6 DEF HostAnnouncedOnce
<1> QED BY <1>7 DEF HostInv, GatherInv

LEMMA HostCrash == ASSUME TypeOK, HostInv, Crash PROVE HostInv'
<1>1. lines \in Seq(Alert) /\ residue \in Seq(Alert)
  BY DEF TypeOK
<1>2. /\ Written' = lines /\ hosts' = hosts /\ pc' = "down"
      /\ alerts' = {} /\ fresh' = {} /\ todo' = {}
  BY <1>1, ConcatEmptySeq DEF Crash, ForgetItem, Written
<1>3. \A i \in 1..Len(lines) : i \in 1..Len(Written) /\ Written[i] = lines[i]
  BY <1>1, ConcatProperties, LenProperties DEF Written
<1>4. HostAnnouncedOnce'
  BY <1>2, <1>3 DEF HostInv, HostAnnouncedOnce
<1> QED BY <1>2, <1>4 DEF HostInv, GatherInv

LEMMA HostStep == TypeOK /\ HostInv /\ [Next]_vars => HostInv'
<1> SUFFICES ASSUME TypeOK, HostInv, [Next]_vars PROVE HostInv'
  OBVIOUS
<1> USE DEF fileVars, taskVars
<1>1. ASSUME NEW k \in 1..BatchLen, NEW s \in [1..k -> Event], SendBatch(s)
      PROVE  HostInv'
  BY <1>1, HostFrame DEF SendBatch
<1>2. CASE Open
  BY <1>2, HostFrame DEF Open
<1>3. CASE Record
  BY <1>3, HostFrame DEF Record
<1>4. CASE ClassifyCoalition \/ ClassifyHighDf \/ ClassifySolo
  <2>1. /\ UNCHANGED <<hosts, fileVars, fresh>> /\ pc = "classify"
        /\ brands' = tierABrands
        /\ \A a \in alerts' : a.tier # "B"
    BY <1>4 DEF ClassifyCoalition, ClassifyHighDf, ClassifySolo, AfterClassify
  <2>2. todo' = HostPairs(tierABrands)
    BY <1>4 DEF ClassifyCoalition, ClassifyHighDf, ClassifySolo, AfterClassify
  <2> QED BY <2>1, <2>2, HostClassify
<1>5. ASSUME NEW p \in Brand \X Host, InsertHost(p) PROVE HostInv'
  BY <1>5, HostInsert
<1>6. CASE HostsDone
  BY <1>6, HostsAreDone
<1>7. ASSUME NEW a \in alerts, WriteAlert(a) PROVE HostInv'
  BY <1>7, WritesAppend, HostWritten DEF WriteAlert, HostInv, GatherInv
<1>8. CASE WriteCandidate
  BY <1>8, HostFrame DEF WriteCandidate
<1>9. CASE NextItem
  BY <1>9, HostFrame DEF NextItem, ForgetItem
<1>10. CASE Retry
  BY <1>10, HostFrame DEF Retry
<1>11. CASE StepFails
  BY <1>11, HostFrame DEF StepFails, Fail, ForgetItem
<1>12. ASSUME NEW a \in alerts, WriteAlertFails(a) PROVE HostInv'
  BY <1>12, WritesAppend, HostWritten DEF WriteAlertFails, Fail, ForgetItem
<1>13. CASE Crash
  BY <1>13, HostCrash
<1>14. CASE Tick \/ UNCHANGED vars
  BY <1>14, HostFrame DEF Tick, vars
<1> QED
  BY <1>1, <1>2, <1>3, <1>4, <1>5, <1>6, <1>7, <1>8, <1>9, <1>10, <1>11,
     <1>12, <1>13, <1>14
     DEF Next, SinkStep, Idle

\* Neither retries, failed flushes nor crashes make tier B announce a host
\* again for the same brand, or one that has no row in the store.
THEOREM HostsAnnouncedOnce == Safety => []HostAnnouncedOnce
<1>1. Init => HostInv
  <2> SUFFICES ASSUME Init PROVE HostInv
    OBVIOUS
  <2>1. Written = <<>> /\ alerts = {} /\ fresh = {} /\ todo = {} /\ pc = "down"
    BY ConcatEmptySeq, EmptySeq DEF Init, Written
  <2> QED BY <2>1, EmptySeq DEF HostInv, GatherInv, HostAnnouncedOnce
<1>2. HostInv => HostAnnouncedOnce
  BY DEF HostInv
<1> QED BY <1>1, <1>2, TypeCorrect, HostStep, PTL DEF Safety
=============================================================================
