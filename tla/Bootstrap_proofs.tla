-------------------------- MODULE Bootstrap_proofs --------------------------
(***************************************************************************)
(* The boot, for any number of replicas of any releases on any database:   *)
(* what a served replica relies on, and what the lock and the constraint   *)
(* give.  IInv is proved action by action.                                 *)
(***************************************************************************)
EXTENDS Bootstrap, TLAPS

\* The part of IInv about one replica's control: what the steps preserve
\* together.
Control == Upgrading /\ Migrated /\ Seeded /\ Registered /\ Serial /\ OneInserter

\* What the specification promises.
Promise == ServingReady /\ SeedNeverClashes /\ NodesFirst /\ ByOriginOnce

\* The specs of a release.
LEMMA SpecsType ==
  ASSUME NEW r \in Replica
  PROVE  /\ Len(SpecsOf[r]) \in Nat
         /\ \A i \in 1..Len(SpecsOf[r]) : SpecsOf[r][i] \in SeriesSpec
<1>1. SpecsOf[r] \in Seq(SeriesSpec)
  BY BootstrapAssumption
<1> QED BY <1>1

\* The spec a registration is at is one of its release's.
LEMMA ThisSpecType ==
  ASSUME NEW r \in Replica, pos[r] \in Nat \ {0}, pos[r] <= Len(SpecsOf[r])
  PROVE  /\ ThisSpec(r) \in SeriesSpec
         /\ pos[r] + 1 \in Nat \ {0} /\ pos[r] + 1 <= Len(SpecsOf[r]) + 1
<1>1. /\ pos[r] \in 1..Len(SpecsOf[r])
      /\ pos[r] + 1 \in Nat \ {0} /\ pos[r] + 1 <= Len(SpecsOf[r]) + 1
  BY SpecsType
<1> QED BY <1>1, SpecsType DEF ThisSpec

LEMMA InitInv == Init => IInv
<1> SUFFICES ASSUME Init PROVE IInv
  OBVIOUS
<1>1. \A r \in Replica : Len(SpecsOf[r]) \in Nat
  BY BootstrapAssumption
<1>2. TypeOK
  <2>1. UNION {EnvsOf[r] : r \in Replica} \subseteq Env
    BY BootstrapAssumption
  <2>2. env \in [Replica -> Env]
    BY <2>1 DEF Init
  <2>3. down \in [Replica -> 0..MaxDown] /\ attempt \in [Replica -> 0..MaxAttempts]
    BY BootstrapAssumption DEF Init
  <2>4. /\ schema \in Nat /\ rows \subseteq Reference /\ series \in [SeriesSpec -> Nat]
        /\ attrs \in [SeriesSpec -> Nat] /\ members \subseteq Member
        /\ begun \subseteq Member \X Day /\ today \in Day /\ date \in [Replica -> Day]
    BY BootstrapAssumption DEF Init, Day
  <2>5. /\ phase \in [Replica -> Phase] /\ retries \in [Replica -> 0..MaxRetries]
        /\ cause \in [Replica -> Cause] /\ version \in [Replica -> Nat]
        /\ existing \in [Replica -> SUBSET Reference] /\ pos \in [Replica -> Nat \ {0}]
        /\ mine \in [Replica -> SUBSET SeriesSpec] /\ edited \in [Replica -> SUBSET SeriesSpec]
        /\ faults \in 0..MaxFaults
    BY BootstrapAssumption DEF Init, Phase, Cause
  <2>6. \A r \in Replica : pos[r] <= Len(SpecsOf[r]) + 1
    BY <1>1 DEF Init
  <2> QED BY <2>2, <2>3, <2>4, <2>5, <2>6 DEF TypeOK
<1>3. Upgrading /\ Migrated /\ Seeded /\ Registered /\ Serial /\ OneInserter
  BY DEF Init, Upgrading, Migrated, Seeded, Registered, Serial, OneInserter
<1>4. ServingReady /\ SeedNeverClashes /\ NodesFirst /\ ByOriginOnce
  BY BootstrapAssumption DEF Init, ServingReady, SeedNeverClashes, NodesFirst, ByOriginOnce
<1>5. Reached /\ Diagnosed
  BY BootstrapAssumption DEF Init, Reached, Diagnosed
<1> QED BY <1>2, <1>3, <1>4, <1>5 DEF IInv

-----------------------------------------------------------------------------
LEMMA TypeStep ==
  ASSUME IInv, [Next]_vars
  PROVE  TypeOK'
<1> USE DEF database, reach, local, Go, Exit
<1>0. TypeOK /\ Registered /\ Reached
  BY DEF IInv
<1>1. CASE UNCHANGED vars
  BY <1>0, <1>1 DEF vars, TypeOK
<1>2. ASSUME NEW r \in Replica, Misconfigured(r) \/ Unanswered(r) \/ Answered(r) PROVE TypeOK'
  <2>1. CASE Misconfigured(r)
    BY <1>0, <2>1 DEF TypeOK, Misconfigured, Phase, Cause
  <2>2. CASE Unanswered(r)
    <3>1. attempt[r] + 1 \in 0..MaxAttempts
      <4>1. attempt[r] \in 0..MaxAttempts /\ MaxAttempts \in Nat
        BY <1>0, BootstrapAssumption DEF TypeOK
      <4>2. attempt[r] < MaxAttempts
        BY <1>0, <2>2 DEF Unanswered, Reached
      <4> QED BY <4>1, <4>2
    <3>2. (IF down[r] > 0 THEN down[r] - 1 ELSE 0) \in 0..MaxDown
      BY <1>0, BootstrapAssumption DEF TypeOK
    <3> QED BY <1>0, <2>2, <3>1, <3>2 DEF TypeOK, Unanswered, Phase, Cause
  <2>3. CASE Answered(r)
    BY <1>0, <2>3 DEF TypeOK, Answered, Phase
  <2> QED BY <1>2, <2>1, <2>2, <2>3
<1>3. ASSUME NEW r \in Replica, ReadVersion(r) PROVE TypeOK'
  BY <1>0, <1>3 DEF TypeOK, ReadVersion, Phase, Cause
<1>4. ASSUME NEW r \in Replica, Upgrade(r) PROVE TypeOK'
  BY <1>0, <1>4 DEF TypeOK, Upgrade, Phase, Cause
<1>5. ASSUME NEW r \in Replica, CommitUpgrade(r) PROVE TypeOK'
  <2>1. HeadOf[r] \in Nat
    BY BootstrapAssumption
  <2> QED BY <1>0, <1>5, <2>1 DEF TypeOK, CommitUpgrade, Phase
<1>6. ASSUME NEW r \in Replica, AcquireLock(r) PROVE TypeOK'
  BY <1>0, <1>6 DEF TypeOK, AcquireLock, Phase
<1>7. ASSUME NEW r \in Replica, SeedRead(r) PROVE TypeOK'
  BY <1>0, <1>7 DEF TypeOK, SeedRead, Phase
<1>8. ASSUME NEW r \in Replica, SeedWrite(r) PROVE TypeOK'
  <2>1. RowsOf[r] \subseteq Reference
    BY BootstrapAssumption
  <2>2. 1 <= Len(SpecsOf[r]) + 1
    BY SpecsType
  <2>3. pos' = pos \/ pos' = [pos EXCEPT ![r] = 1]
    BY <1>8 DEF SeedWrite
  <2>4. /\ pos' \in [Replica -> Nat \ {0}]
        /\ \A q \in Replica : pos'[q] <= Len(SpecsOf[q]) + 1
    <3>1. CASE pos' = pos
      BY <1>0, <3>1 DEF TypeOK
    <3>2. CASE pos' = [pos EXCEPT ![r] = 1]
      BY <1>0, <2>2, <3>2 DEF TypeOK
    <3> QED BY <2>3, <3>1, <3>2
  <2>5. members' \subseteq Member /\ begun' \subseteq Member \X Day
    <3>1. Joining(r) \subseteq Member /\ date[r] \in Day
      BY <1>0, BootstrapAssumption DEF TypeOK, Joining
    <3>2. \/ UNCHANGED <<members, begun>>
          \/ /\ members' = (members \ Leaving(r)) \cup Joining(r)
             /\ begun' = begun \cup {<<m, date[r]>> : m \in Joining(r)}
      BY <1>8 DEF SeedWrite
    <3> QED BY <1>0, <3>1, <3>2 DEF TypeOK
  <2> QED BY <1>0, <1>8, <2>1, <2>4, <2>5 DEF TypeOK, SeedWrite, Phase, Cause
<1>9. ASSUME NEW r \in Replica, RegisterSelect(r) PROVE TypeOK'
  <2>1. pos[r] + 1 \in Nat \ {0} /\ pos[r] + 1 <= Len(SpecsOf[r]) + 1
    BY <1>0, <1>9, ThisSpecType DEF TypeOK, RegisterSelect
  <2>2. /\ pos' \in [Replica -> Nat \ {0}]
        /\ \A q \in Replica : pos'[q] <= Len(SpecsOf[q]) + 1
    <3>1. pos' = pos \/ pos' = [pos EXCEPT ![r] = pos[r] + 1]
      BY <1>9 DEF RegisterSelect
    <3> QED BY <1>0, <2>1, <3>1 DEF TypeOK
  <2>3. edited' \in [Replica -> SUBSET SeriesSpec]
    <3>1. ThisSpec(r) \in SeriesSpec
      BY <1>0, <1>9, ThisSpecType DEF TypeOK, RegisterSelect
    <3>2. edited' \in {edited, [edited EXCEPT ![r] = {}],
                       [edited EXCEPT ![r] = edited[r] \cup {ThisSpec(r)}]}
      BY <1>9 DEF RegisterSelect, Edit
    <3>3. edited \in [Replica -> SUBSET SeriesSpec]
      BY <1>0 DEF TypeOK
    <3>4. CASE edited' = [edited EXCEPT ![r] = edited[r] \cup {ThisSpec(r)}]
      BY <3>1, <3>3, <3>4
    <3> QED BY <3>2, <3>3, <3>4
  <2>4. /\ UNCHANGED <<schema, rows, series, attrs, members, begun, today, env, down, attempt,
                       version, existing, date, retries, faults>>
        /\ phase' \in {phase, [phase EXCEPT ![r] = "insert"], [phase EXCEPT ![r] = "exited"]}
        /\ cause' \in {cause, [cause EXCEPT ![r] = "unknown node"]}
        /\ mine' \in {mine, [mine EXCEPT ![r] = {}]}
    BY <1>9 DEF RegisterSelect
  <2>5. phase' \in [Replica -> Phase] /\ cause' \in [Replica -> Cause]
    BY <1>0, <2>4 DEF TypeOK, Phase, Cause
  <2> QED BY <1>0, <2>2, <2>3, <2>4, <2>5 DEF TypeOK
<1>10. ASSUME NEW r \in Replica, RegisterInsert(r) PROVE TypeOK'
  <2>1. /\ pos[r] + 1 \in Nat \ {0} /\ pos[r] + 1 <= Len(SpecsOf[r]) + 1
        /\ ThisSpec(r) \in SeriesSpec
    BY <1>0, <1>10, ThisSpecType DEF TypeOK, RegisterInsert, Registered
  <2>2. pos' = pos \/ pos' = [pos EXCEPT ![r] = pos[r] + 1]
    BY <1>10 DEF RegisterInsert
  <2>3. /\ pos' \in [Replica -> Nat \ {0}]
        /\ \A q \in Replica : pos'[q] <= Len(SpecsOf[q]) + 1
    BY <1>0, <2>1, <2>2 DEF TypeOK
  <2>4. /\ UNCHANGED <<schema, rows, series, attrs, members, begun, today, env, down, attempt,
                       version, existing, date, retries, faults>>
        /\ phase' \in {[phase EXCEPT ![r] = "select"], [phase EXCEPT ![r] = "exited"]}
        /\ cause' \in {cause, [cause EXCEPT ![r] = "series clash"]}
        /\ mine' \in {[mine EXCEPT ![r] = mine[r] \cup {ThisSpec(r)}], [mine EXCEPT ![r] = {}]}
        /\ edited' \in {edited, [edited EXCEPT ![r] = {}]}
    BY <1>10 DEF RegisterInsert
  <2>5. phase' \in [Replica -> Phase] /\ cause' \in [Replica -> Cause]
    BY <1>0, <2>4 DEF TypeOK, Phase, Cause
  <2>6. mine' \in [Replica -> SUBSET SeriesSpec]
    <3>1. CASE mine' = [mine EXCEPT ![r] = mine[r] \cup {ThisSpec(r)}]
      BY <1>0, <2>1, <3>1 DEF TypeOK
    <3>2. CASE mine' = [mine EXCEPT ![r] = {}]
      BY <1>0, <3>2 DEF TypeOK
    <3> QED BY <2>4, <3>1, <3>2
  <2> QED BY <1>0, <2>3, <2>4, <2>5, <2>6 DEF TypeOK
<1>11. ASSUME NEW r \in Replica, Serve(r) PROVE TypeOK'
  <2>1. series' \in [SeriesSpec -> Nat] /\ attrs' \in [SeriesSpec -> Nat]
    <3>1. /\ series' = [s \in SeriesSpec |-> series[s] + (IF s \in mine[r] THEN 1 ELSE 0)]
          /\ attrs' = [s \in SeriesSpec |->
                         IF s \in mine[r] \cup edited[r] THEN AttrsOf[r] ELSE attrs[s]]
      BY <1>11 DEF Serve
    <3>2. /\ AttrsOf[r] \in Nat
          /\ series \in [SeriesSpec -> Nat] /\ attrs \in [SeriesSpec -> Nat]
      BY <1>0, BootstrapAssumption DEF TypeOK
    <3>3. series' \in [SeriesSpec -> Nat]
      BY <3>1, <3>2
    <3>4. attrs' \in [SeriesSpec -> Nat]
      BY <3>1, <3>2
    <3> QED BY <3>3, <3>4
  <2> QED BY <1>0, <1>11, <2>1 DEF TypeOK, Serve, Phase
<1>12. ASSUME NEW r \in Replica, Restart(r) PROVE TypeOK'
  <2>1. retries \in [Replica -> 0..MaxRetries] /\ MaxRetries \in Nat
    BY <1>0, BootstrapAssumption DEF TypeOK
  <2>2. retries' = retries
          \/ (retries[r] < MaxRetries /\ retries' = [retries EXCEPT ![r] = retries[r] + 1])
    BY <1>12 DEF Restart
  <2>3. retries' \in [Replica -> 0..MaxRetries]
    BY <2>1, <2>2
  <2>4. attempt' \in [Replica -> 0..MaxAttempts]
    <3>1. attempt \in [Replica -> 0..MaxAttempts] /\ 0 \in 0..MaxAttempts
      BY <1>0, BootstrapAssumption DEF TypeOK
    <3>2. attempt' = attempt \/ attempt' = [attempt EXCEPT ![r] = 0]
      BY <1>12 DEF Restart
    <3> QED BY <3>1, <3>2
  <2> QED BY <1>0, <1>12, <2>3, <2>4 DEF TypeOK, Restart, Phase
<1>13. ASSUME NEW r \in Replica, Fault(r) PROVE TypeOK'
  <2>1. faults \in 0..MaxFaults /\ MaxFaults \in Nat
    BY <1>0, BootstrapAssumption DEF TypeOK
  <2>a. faults < MaxFaults /\ faults' = faults + 1
    BY <1>13 DEF Fault
  <2>2. faults' \in 0..MaxFaults
    BY <2>1, <2>a
  <2> QED BY <1>0, <1>13, <2>2 DEF TypeOK, Fault, Phase, Cause
<1>14. ASSUME NEW n \in 0..MaxDown, Outage(n) PROVE TypeOK'
  <2>1. faults \in 0..MaxFaults /\ MaxFaults \in Nat
    BY <1>0, BootstrapAssumption DEF TypeOK
  <2>a. faults < MaxFaults /\ faults' = faults + 1
    BY <1>14 DEF Outage
  <2>2. faults' \in 0..MaxFaults
    BY <2>1, <2>a
  <2> QED BY <1>0, <1>14, <2>2 DEF TypeOK, Outage, Phase, Cause
<1>15. CASE Midnight
  <2>1. today' \in Day
    BY <1>0, <1>15, BootstrapAssumption DEF TypeOK, Midnight, Day
  <2> QED BY <1>0, <1>15, <2>1 DEF TypeOK, Midnight
<1> QED BY <1>1, <1>2, <1>3, <1>4, <1>5, <1>6, <1>7, <1>8, <1>9, <1>10, <1>11,
           <1>12, <1>13, <1>14, <1>15 DEF Next, Boot

\* The steps that commit nothing.
Quiet(r) ==
  \/ Misconfigured(r) \/ Unanswered(r) \/ Answered(r) \/ ReadVersion(r)
  \/ Upgrade(r) \/ AcquireLock(r) \/ SeedRead(r) \/ Restart(r) \/ Fault(r)

LEMMA QuietStep ==
  ASSUME IInv, NEW r \in Replica, Quiet(r)
  PROVE  Control' /\ Promise'
<1> USE DEF Quiet, local, reach, database, Go, Exit
<1>t. /\ TypeOK /\ Upgrading /\ Migrated /\ Seeded /\ Registered /\ Serial /\ OneInserter
      /\ ServingReady /\ SeedNeverClashes /\ NodesFirst /\ ByOriginOnce
  BY DEF IInv
<1>0. /\ UNCHANGED <<schema, rows, series, pos>>
      /\ \A q \in Replica : q # r => /\ phase'[q] = phase[q] /\ cause'[q] = cause[q]
                                     /\ version'[q] = version[q]
                                     /\ existing'[q] = existing[q]
                                     /\ mine'[q] = mine[q]
      /\ mine'[r] \in {mine[r], {}}
      /\ cause'[r] \notin {"seed clash", "unknown node"} \/ cause'[r] = cause[r]
      /\ phase'[r] \notin {"select", "insert", "serving"}
  <2>1. CASE Misconfigured(r)
    BY <1>t, <2>1 DEF TypeOK, Misconfigured
  <2>7. CASE Answered(r)
    BY <1>t, <2>7 DEF TypeOK, Answered
  <2>8. CASE Fault(r)
    BY <1>t, <2>8 DEF TypeOK, Fault
  <2>2. CASE Unanswered(r)
    BY ZenonT(40), <1>t, <2>2 DEF TypeOK, Unanswered
  <2>3. CASE Restart(r)
    BY <1>t, <2>3 DEF TypeOK, Restart
  <2>4. CASE ReadVersion(r)
    BY <1>t, <2>4 DEF TypeOK, ReadVersion
  <2>5. CASE Upgrade(r)
    BY <1>t, <2>5 DEF TypeOK, Upgrade
  <2>6. CASE AcquireLock(r) \/ SeedRead(r)
    BY <1>t, <2>6 DEF TypeOK, AcquireLock, SeedRead
  <2> QED BY <2>1, <2>2, <2>3, <2>4, <2>5, <2>6, <2>7, <2>8
<1>1. Upgrading'
  <2>1. phase'[r] = "upgrade" => version'[r] < HeadOf[r]
    BY <1>t DEF TypeOK, Misconfigured, Unanswered, Answered, ReadVersion, Upgrade, AcquireLock,
         SeedRead, Restart, Fault
  <2>2. phase'[r] = "ddl" => /\ version'[r] < HeadOf[r] /\ schema = version'[r]
                             /\ \A q \in Replica : phase[q] # "ddl"
    BY <1>t DEF TypeOK, Misconfigured, Unanswered, Answered, ReadVersion, Upgrade, AcquireLock,
         SeedRead, Restart, Fault,
           Upgrading
  <2> QED BY <1>t, <1>0, <2>1, <2>2 DEF Upgrading
<1>2. Migrated'
  <2>1. phase'[r] \in {"lock", "read", "write"} => schema >= HeadOf[r]
    <3>1. schema \in Nat /\ HeadOf[r] \in Nat
      BY <1>t, BootstrapAssumption DEF TypeOK
    <3>2. phase'[r] \in {"lock", "read", "write"} =>
            schema = HeadOf[r] \/ phase[r] \in {"lock", "read"}
      BY <1>t DEF TypeOK, Misconfigured, Unanswered, Answered, ReadVersion, Upgrade, AcquireLock,
         SeedRead, Restart, Fault
    <3> QED BY <1>t, <3>1, <3>2 DEF Migrated
  <2> QED BY <1>t, <1>0, <2>1 DEF Migrated
<1>3. Seeded' /\ Registered'
  BY <1>t, <1>0 DEF Seeded, Registered
<1>4. Serial'
  <2>1. /\ phase'[r] = "read" => ~LockHeld
        /\ phase'[r] = "write" => phase[r] = "read" /\ existing'[r] = rows
    BY <1>t DEF TypeOK, Misconfigured, Unanswered, Answered, ReadVersion, Upgrade, AcquireLock,
         SeedRead, Restart, Fault
  <2> QED BY <1>t, <1>0, <2>1 DEF Serial, LockHeld
<1>5. OneInserter'
  BY ZenonT(40), <1>t, <1>0 DEF OneInserter
<1>6. ServingReady' /\ SeedNeverClashes' /\ NodesFirst' /\ ByOriginOnce'
  BY <1>t, <1>0 DEF ServingReady, SeedNeverClashes, NodesFirst, ByOriginOnce
<1> QED BY <1>1, <1>2, <1>3, <1>4, <1>5, <1>6 DEF Control, Promise

\* An outage ends boots and changes nothing else.
LEMMA OutageStep ==
  ASSUME IInv, NEW n \in 0..MaxDown, Outage(n)
  PROVE  Control' /\ Promise'
<1>t. /\ TypeOK /\ Upgrading /\ Migrated /\ Seeded /\ Registered /\ Serial /\ OneInserter
      /\ ServingReady /\ SeedNeverClashes /\ NodesFirst /\ ByOriginOnce
  BY DEF IInv
<1>0. /\ UNCHANGED <<schema, rows, series, pos, version, existing>>
      /\ \A q \in Replica :
           \/ phase'[q] = phase[q] /\ cause'[q] = cause[q] /\ mine'[q] = mine[q]
           \/ phase'[q] = "exited" /\ cause'[q] = "fault" /\ mine'[q] = {}
  BY <1>t DEF TypeOK, Outage, database
<1>1. Upgrading' /\ Migrated'
  BY <1>t, <1>0 DEF Upgrading, Migrated
<1>2. Seeded' /\ Registered'
  BY <1>t, <1>0 DEF Seeded, Registered
<1>3. Serial' /\ OneInserter'
  BY <1>t, <1>0 DEF Serial, OneInserter
<1>4. ServingReady' /\ SeedNeverClashes' /\ NodesFirst' /\ ByOriginOnce'
  BY <1>t, <1>0 DEF ServingReady, SeedNeverClashes, NodesFirst, ByOriginOnce
<1> QED BY <1>1, <1>2, <1>3, <1>4 DEF Control, Promise

\* The schema only goes up: whoever holds the DDL is ahead of what is there.
LEMMA CommitUpgradeStep ==
  ASSUME IInv, NEW r \in Replica, CommitUpgrade(r)
  PROVE  Control' /\ Promise'
<1>t. /\ TypeOK /\ Upgrading /\ Migrated /\ Seeded /\ Registered /\ Serial /\ OneInserter
      /\ ServingReady /\ SeedNeverClashes /\ NodesFirst /\ ByOriginOnce
  BY DEF IInv
<1>0. /\ phase[r] = "ddl" /\ phase'[r] = "lock"
      /\ \A q \in Replica : q # r => phase'[q] = phase[q]
      /\ UNCHANGED <<rows, series, version, existing, pos, mine, cause>>
      /\ schema' = HeadOf[r]
  BY <1>t DEF TypeOK, CommitUpgrade, Go, local
<1>1. /\ schema < schema' /\ schema' \in Nat /\ schema \in Nat
      /\ \A q \in Replica : HeadOf[q] \in Nat
  BY <1>t, <1>0, BootstrapAssumption DEF TypeOK, Upgrading
<1>2. Upgrading'
  BY <1>t, <1>0 DEF Upgrading
<1>3. Migrated'
  <2>1. \A q \in Replica : schema >= HeadOf[q] => schema' >= HeadOf[q]
    BY <1>1
  <2>2. schema' >= HeadOf[r]
    BY <1>0, <1>1
  <2> QED BY <1>t, <1>0, <2>1, <2>2 DEF Migrated
<1>4. Seeded' /\ Registered'
  BY <1>t, <1>0 DEF Seeded, Registered
<1>5. Serial' /\ OneInserter'
  BY <1>t, <1>0 DEF Serial, OneInserter
<1>6. ServingReady'
  <2>1. \A q \in Replica : schema >= HeadOf[q] => schema' >= HeadOf[q]
    BY <1>1
  <2> QED BY <1>t, <1>0, <2>1 DEF ServingReady
<1>7. SeedNeverClashes' /\ NodesFirst' /\ ByOriginOnce'
  BY <1>t, <1>0 DEF SeedNeverClashes, NodesFirst, ByOriginOnce
<1> QED BY <1>2, <1>3, <1>4, <1>5, <1>6, <1>7 DEF Control, Promise

\* What the seed has read is still there, so it never clashes; rows only grow.
LEMMA SeedWriteStep ==
  ASSUME IInv, NEW r \in Replica, SeedWrite(r)
  PROVE  Control' /\ Promise'
<1>t. /\ TypeOK /\ Upgrading /\ Migrated /\ Seeded /\ Registered /\ Serial /\ OneInserter
      /\ ServingReady /\ SeedNeverClashes /\ NodesFirst /\ ByOriginOnce
  BY DEF IInv
<1>1. existing[r] = rows
  BY <1>t DEF SeedWrite, Serial
\* It writes all of it, or fails on a member and writes nothing.
<1>2. /\ \/ rows' = rows \cup RowsOf[r] /\ pos'[r] = 1 /\ phase'[r] = "select"
         \/ rows' = rows /\ phase'[r] = "exited"
      /\ \A q \in Replica : q # r => /\ phase'[q] = phase[q] /\ pos'[q] = pos[q]
                                     /\ mine'[q] = mine[q]
      /\ \A q \in Replica : cause'[q] = cause[q] \/ cause'[q] = "member clash"
      /\ phase[r] = "write" /\ mine'[r] \in {mine[r], {}}
      /\ UNCHANGED <<schema, series, version, existing>>
  BY ZenonT(40), <1>t, <1>1 DEF TypeOK, SeedWrite, Go, Exit
\* So no other replica sees more than new rows, and this one goes on or ends.
<1>0. \A q \in Replica :
        /\ phase'[q] = phase[q] \/ (q = r /\ phase'[q] \in {"select", "exited"})
        /\ mine'[q] \subseteq mine[q]
  BY <1>2
<1>3. Upgrading'
  <2>1. \A q \in Replica : phase'[q] \in {"upgrade", "ddl"} => phase'[q] = phase[q]
    BY <1>0
  <2>2. UNCHANGED <<schema, version>>
    BY <1>2
  <2> QED BY <1>t, <2>1, <2>2 DEF Upgrading
<1>9. Migrated'
  <2>1. \A q \in Replica :
          phase'[q] \in {"lock", "read", "write", "select", "insert", "serving"}
            => phase[q] \in {"lock", "read", "write", "select", "insert", "serving"}
    BY <1>0, <1>2
  <2>2. UNCHANGED schema
    BY <1>2
  <2> QED BY <1>t, <2>1, <2>2 DEF Migrated
<1>4. Seeded'
  BY <1>t, <1>2 DEF Seeded
<1>5. Registered'
  <2>1. phase'[r] = "select" => pos'[r] = 1
    BY <1>2
  <2>2. phase'[r] = "select" => 1..(pos'[r] - 1) = {}
    BY <2>1
  <2> QED BY <1>t, <1>2, <2>2 DEF Registered
<1>6. Serial'
  <2>1. ASSUME NEW q \in Replica, phase'[q] \in {"read", "write"} PROVE FALSE
    <3>1. q # r /\ phase[q] \in {"read", "write"}
      BY <1>0, <1>2, <2>1
    <3> QED BY <1>t, <1>2, <3>1 DEF Serial
  <2> QED BY <2>1 DEF Serial
<1>8. OneInserter'
  BY ZenonT(40), <1>t, <1>0, <1>2 DEF OneInserter
<1>7. ServingReady' /\ SeedNeverClashes' /\ NodesFirst' /\ ByOriginOnce'
  BY <1>t, <1>2 DEF ServingReady, SeedNeverClashes, NodesFirst, ByOriginOnce
<1> QED BY <1>3, <1>4, <1>5, <1>6, <1>7, <1>8, <1>9 DEF Control, Promise

LEMMA RegisterSelectStep ==
  ASSUME IInv, NEW r \in Replica, RegisterSelect(r)
  PROVE  Control' /\ Promise'
<1>t. /\ TypeOK /\ Upgrading /\ Migrated /\ Seeded /\ Registered /\ Serial /\ OneInserter
      /\ ServingReady /\ SeedNeverClashes /\ NodesFirst /\ ByOriginOnce
  BY DEF IInv
<1>0. /\ pos[r] <= Len(SpecsOf[r]) /\ Len(SpecsOf[r]) \in Nat /\ pos[r] \in Nat \ {0}
  BY <1>t, SpecsType DEF TypeOK, RegisterSelect
<1>1. /\ phase[r] = "select" /\ phase'[r] \in {"select", "insert", "exited"}
      /\ \A q \in Replica : q # r => /\ phase'[q] = phase[q] /\ pos'[q] = pos[q]
                                     /\ cause'[q] = cause[q] /\ mine'[q] = mine[q]
      /\ mine'[r] \in {mine[r], {}} /\ (phase'[r] # "exited" => mine'[r] = mine[r])
      /\ cause'[r] \in {cause[r], "unknown node"}
      /\ UNCHANGED <<schema, rows, series, version, existing>>
  BY <1>t DEF TypeOK, RegisterSelect, Go, Exit, database
<1>2. Upgrading' /\ Migrated'
  BY <1>t, <1>1 DEF Upgrading, Migrated
<1>3. Seeded' /\ Serial'
  BY <1>t, <1>1 DEF Seeded, Serial
<1>4. OneInserter'
  BY <1>t, <1>1 DEF OneInserter
<1>5. Registered'
  <2>1. \/ phase'[r] = "select" /\ pos'[r] = pos[r] + 1 /\ series[SpecsOf[r][pos[r]]] > 0
        \/ phase'[r] \in {"insert", "exited"} /\ pos'[r] = pos[r]
    BY <1>t DEF TypeOK, RegisterSelect, Go, Exit, Found, ThisSpec
  <2>2. \A i \in 1..(pos[r] + 1 - 1) : i = pos[r] \/ i \in 1..(pos[r] - 1)
    BY <1>0
  <2>3. CASE pos'[r] = pos[r] + 1 /\ series[SpecsOf[r][pos[r]]] > 0 /\ phase'[r] = "select"
    <3>1. ASSUME NEW i \in 1..(pos[r] + 1 - 1)
          PROVE  series[SpecsOf[r][i]] > 0 \/ SpecsOf[r][i] \in mine[r]
      BY <1>t, <1>1, <2>2, <2>3, <3>1 DEF Registered
    <3>a. mine'[r] = mine[r] /\ series' = series
      BY <1>1, <2>3
    <3>b. pos'[r] - 1 = pos[r] + 1 - 1
      <4>1. pos'[r] = pos[r] + 1 /\ pos[r] \in Nat
        BY <1>0, <2>3
      <4> QED BY <4>1
    <3>0. pos'[r] - 1 = pos[r] + 1 - 1 /\ mine[r] \subseteq mine'[r] /\ series' = series
      BY <3>a, <3>b
    <3>2. \A i \in 1..(pos'[r] - 1) : series'[SpecsOf[r][i]] > 0 \/ SpecsOf[r][i] \in mine'[r]
      BY <3>0, <3>1
    <3>3. \A q \in Replica : q # r =>
            UNCHANGED <<phase[q], pos[q], mine[q], series>>
      BY <1>1
    <3> QED BY <1>t, <2>3, <3>2, <3>3 DEF Registered
  <2>4. CASE pos'[r] = pos[r] /\ phase'[r] \in {"insert", "exited"}
    BY <1>t, <1>0, <1>1, <2>4 DEF Registered
  <2> QED BY <2>1, <2>3, <2>4
<1>6. ServingReady' /\ SeedNeverClashes' /\ ByOriginOnce'
  BY <1>t, <1>1 DEF ServingReady, SeedNeverClashes, ByOriginOnce
<1>7. NodesFirst'
  <2>1. cause'[r] = cause[r] \/ NodeOf[SpecsOf[r][pos[r]]] \notin rows
    BY <1>t DEF TypeOK, RegisterSelect, Go, Exit, ThisSpec
  <2>2. RowsOf[r] \subseteq rows
    BY <1>t, <1>1 DEF Seeded
  <2>3. pos[r] \in 1..Len(SpecsOf[r])
    BY <1>0
  <2> QED BY <1>t, <1>1, <2>1, <2>2, <2>3 DEF NodesFirst
<1> QED BY <1>2, <1>3, <1>4, <1>5, <1>6, <1>7 DEF Control, Promise

LEMMA RegisterInsertStep ==
  ASSUME IInv, NEW r \in Replica, RegisterInsert(r)
  PROVE  Control' /\ Promise'
<1>t. /\ TypeOK /\ Upgrading /\ Migrated /\ Seeded /\ Registered /\ Serial /\ OneInserter
      /\ ServingReady /\ SeedNeverClashes /\ NodesFirst /\ ByOriginOnce
  BY DEF IInv
<1> DEFINE s == SpecsOf[r][pos[r]]
<1>0. pos[r] <= Len(SpecsOf[r]) /\ Len(SpecsOf[r]) \in Nat /\ pos[r] \in Nat \ {0}
  BY <1>t, SpecsType DEF TypeOK, RegisterInsert, Registered
<1>1. /\ phase[r] = "insert"
      /\ \A q \in Replica : q # r => /\ phase'[q] = phase[q] /\ pos'[q] = pos[q]
                                     /\ cause'[q] = cause[q] /\ mine'[q] = mine[q]
      /\ \/ /\ phase'[r] = "select" /\ pos'[r] = pos[r] + 1
            /\ mine'[r] = mine[r] \cup {s} /\ cause'[r] = cause[r]
            /\ s \in NullPartner \/ (series[s] = 0 /\ \A q \in Replica : s \notin mine[q])
         \/ /\ phase'[r] = "exited" /\ pos'[r] = pos[r]
            /\ mine'[r] = {} /\ cause'[r] = "series clash"
      /\ UNCHANGED <<schema, rows, series, version, existing>>
  BY <1>t DEF TypeOK, RegisterInsert, Go, Exit, database, ThisSpec
<1> HIDE DEF s
<1>2. Upgrading' /\ Migrated'
  BY <1>t, <1>1 DEF Upgrading, Migrated
<1>3. Seeded' /\ Serial'
  BY <1>t, <1>1 DEF Seeded, Serial
<1>4. OneInserter'
  <2>1. ASSUME NEW q \in Replica, NEW o \in mine'[q] \ NullPartner
        PROVE  series[o] = 0 /\ \A p \in Replica : o \in mine'[p] => p = q
    <3>1. CASE o \in mine[q]
      <4>1. series[o] = 0 /\ \A p \in Replica : o \in mine[p] => p = q
        BY <1>t, <2>1, <3>1 DEF OneInserter
      <4>2. ASSUME NEW p \in Replica, o \in mine'[p]
            PROVE  o \in mine[p]
        BY <1>1, <2>1, <3>1, <4>2
      <4> QED BY <4>1, <4>2
    <3>2. CASE o \notin mine[q]
      BY <1>1, <2>1, <3>2
    <3> QED BY <3>1, <3>2
  <2> QED BY <1>1, <2>1 DEF OneInserter
<1>5. Registered'
  <2>1. \A i \in 1..(pos[r] + 1 - 1) : i = pos[r] \/ i \in 1..(pos[r] - 1)
    BY <1>0
  <2>2. CASE phase'[r] = "select" /\ pos'[r] = pos[r] + 1 /\ mine'[r] = mine[r] \cup {s}
    <3>1. ASSUME NEW i \in 1..(pos[r] + 1 - 1)
          PROVE  series[SpecsOf[r][i]] > 0 \/ SpecsOf[r][i] \in mine'[r]
      BY <1>t, <1>1, <2>1, <2>2, <3>1 DEF Registered, s
    <3>0. pos'[r] - 1 = pos[r] + 1 - 1 /\ mine[r] \subseteq mine'[r] /\ series' = series
      BY <1>0, <1>1, <2>2
    <3>2. \A i \in 1..(pos'[r] - 1) : series'[SpecsOf[r][i]] > 0 \/ SpecsOf[r][i] \in mine'[r]
      BY <3>0, <3>1
    <3>3. \A q \in Replica : q # r =>
            UNCHANGED <<phase[q], pos[q], mine[q], series>>
      BY <1>1
    <3> QED BY <1>t, <2>2, <3>2, <3>3 DEF Registered
  <2>3. CASE phase'[r] = "exited"
    BY <1>t, <1>1, <2>3 DEF Registered
  <2> QED BY <1>1, <2>2, <2>3
<1>6. ServingReady' /\ SeedNeverClashes' /\ ByOriginOnce' /\ NodesFirst'
  BY <1>t, <1>1 DEF ServingReady, SeedNeverClashes, ByOriginOnce, NodesFirst
<1> QED BY <1>2, <1>3, <1>4, <1>5, <1>6 DEF Control, Promise

\* The rows of series only grow, and a by-origin row had no other to meet.
LEMMA ServeStep ==
  ASSUME IInv, NEW r \in Replica, Serve(r)
  PROVE  Control' /\ Promise'
<1>t. /\ TypeOK /\ Upgrading /\ Migrated /\ Seeded /\ Registered /\ Serial /\ OneInserter
      /\ ServingReady /\ SeedNeverClashes /\ NodesFirst /\ ByOriginOnce
  BY DEF IInv
<1>0. /\ phase[r] = "select" /\ phase'[r] = "serving" /\ mine'[r] = {}
      /\ \A q \in Replica : q # r => phase'[q] = phase[q] /\ mine'[q] = mine[q]
      /\ UNCHANGED <<schema, rows, version, existing, pos, cause>>
  BY <1>t DEF TypeOK, Serve, Go
<1>1. \A s \in SeriesSpec :
        /\ series[s] \in Nat /\ series'[s] \in Nat
        /\ s \in mine[r] => series'[s] = series[s] + 1
        /\ s \notin mine[r] => series'[s] = series[s]
  BY <1>t DEF TypeOK, Serve
<1>2. \A s \in SeriesSpec : series[s] > 0 \/ s \in mine[r] => series'[s] > 0
  BY <1>1
<1>3. pos[r] - 1 = Len(SpecsOf[r])
  BY <1>t, SpecsType DEF TypeOK, Serve
<1>4. Upgrading' /\ Migrated'
  BY <1>t, <1>0 DEF Upgrading, Migrated
<1>5. Seeded' /\ Serial'
  BY <1>t, <1>0 DEF Seeded, Serial
<1>6. OneInserter'
  BY ZenonT(40), <1>t, <1>0, <1>1 DEF TypeOK, OneInserter
<1>7. Registered'
  <2>1. ASSUME NEW q \in Replica, q # r, phase[q] \in {"select", "insert"},
               NEW i \in 1..(pos[q] - 1)
        PROVE  series'[SpecsOf[q][i]] > 0 \/ SpecsOf[q][i] \in mine[q]
    <3>1. i \in 1..Len(SpecsOf[q])
      BY SMTT(20), <1>t, SpecsType DEF TypeOK
    <3>2. SpecsOf[q][i] \in SeriesSpec
      BY <3>1, SpecsType
    <3>3. series[SpecsOf[q][i]] > 0 \/ SpecsOf[q][i] \in mine[q]
      BY <1>t, <2>1 DEF Registered
    <3> QED BY <1>2, <3>2, <3>3
  <2> QED BY <1>t, <1>0, <2>1 DEF Registered
<1>8. ServingReady'
  <2>1. ASSUME NEW i \in 1..Len(SpecsOf[r])
        PROVE  series'[SpecsOf[r][i]] > 0
    <3>1. SpecsOf[r][i] \in SeriesSpec
      BY SpecsType
    <3>2. series[SpecsOf[r][i]] > 0 \/ SpecsOf[r][i] \in mine[r]
      BY <1>t, <1>0, <1>3 DEF Registered
    <3> QED BY <1>2, <3>1, <3>2
  <2>2. ASSUME NEW q \in Replica, phase[q] = "serving", NEW i \in 1..Len(SpecsOf[q])
        PROVE  series'[SpecsOf[q][i]] > 0
    <3>1. SpecsOf[q][i] \in SeriesSpec
      BY SpecsType
    <3>2. series[SpecsOf[q][i]] > 0
      BY <1>t, <2>2 DEF ServingReady
    <3> QED BY <1>2, <3>1, <3>2
  <2>3. schema >= HeadOf[r] /\ RowsOf[r] \subseteq rows
    BY <1>t, <1>0 DEF Migrated, Seeded
  <2> QED BY <1>t, <1>0, <2>1, <2>2, <2>3 DEF ServingReady
<1>9. ByOriginOnce'
  <2>1. \A s \in SeriesSpec \ NullPartner : s \in mine[r] => series[s] = 0
    BY <1>t DEF OneInserter
  <2> QED BY <1>t, <1>1, <2>1 DEF ByOriginOnce
<1>10. SeedNeverClashes' /\ NodesFirst'
  BY <1>t, <1>0 DEF SeedNeverClashes, NodesFirst
<1> QED BY <1>4, <1>5, <1>6, <1>7, <1>8, <1>9, <1>10 DEF Control, Promise

-----------------------------------------------------------------------------
\* The URL is one of the complete forms, and there is none only if no form is.
LEMMA UrlIsAForm ==
  ASSUME NEW e \in Env
  PROVE  /\ resolve_database_url(e) = "none" <=> Forms(e) = {}
         /\ resolve_database_url(e) # "none" => resolve_database_url(e) \in Forms(e)
         /\ resolve_database_url(e) \in {"none", "right", "elsewhere", "malformed"}
<1>1. /\ e["DATABASE_URL"] \in {"unset", "right", "elsewhere", "malformed"}
      /\ e["DATABASE_PUBLIC_URL"] \in {"unset", "right", "elsewhere", "malformed"}
  BY DEF Env
<1>2. FromParts(e) \in {"right", "elsewhere"}
  BY DEF FromParts
<1> HIDE DEF FromParts
<1>3. CASE \A p \in Part : e[p] # "unset"
  BY <1>1, <1>2, <1>3 DEF resolve_database_url, Forms
<1>4. CASE \E p \in Part : e[p] = "unset"
  BY <1>1, <1>4 DEF resolve_database_url, Forms
<1> QED BY <1>3, <1>4

\* What a step of one replica, or an outage, may do to its diagnosis.
LEMMA DiagnosedStep ==
  ASSUME IInv, [Next]_vars
  PROVE  Reached' /\ Diagnosed'
<1> DEFINE Before == {"preflight", "exited", "given up"}
           Races == {"fault", "migration race", "unknown revision", "seed clash",
                     "member clash", "unknown node", "series clash"}
           \* The replica's boot is as it was, ends, goes on or begins again.
           Stays(q) == phase'[q] = phase[q] /\ cause'[q] = cause[q]
                         /\ (phase[q] \in {"exited", "given up"} => attempt'[q] = attempt[q])
                         /\ (phase[q] = "preflight" => attempt'[q] < MaxAttempts)
           GivesUp(q) == phase[q] = "exited" /\ phase'[q] = "given up"
                           /\ cause'[q] = cause[q] /\ attempt'[q] = attempt[q]
           Begins(q) == phase'[q] = "preflight" /\ attempt'[q] = 0
           GoesOn(q) == phase'[q] \notin Before /\ Url(q) = "right"
           Ends(q) == phase'[q] = "exited"
                        /\ \/ cause'[q] = "not configured" /\ Url(q) = "none"
                           \/ cause'[q] = "malformed" /\ Url(q) = "malformed"
                           \/ /\ cause'[q] = "unreachable" /\ Url(q) \in {"right", "elsewhere"}
                              /\ attempt'[q] = MaxAttempts
                           \/ cause'[q] = "fault"
                           \/ cause'[q] \in Races /\ Url(q) = "right"
           Kept(q) == Stays(q) \/ GivesUp(q) \/ Begins(q) \/ GoesOn(q) \/ Ends(q)
<1> USE DEF database, reach, local, Go, Exit
<1>t. TypeOK /\ Reached /\ Diagnosed
  BY DEF IInv
<1>a. MaxAttempts \in Nat \ {0} /\ \A q \in Replica : attempt[q] \in 0..MaxAttempts
  BY <1>t, BootstrapAssumption DEF TypeOK
<1>e. env' = env
  <2>1. ASSUME NEW r \in Replica, Boot(r) \/ Fault(r) PROVE env' = env
    <3>1. CASE \/ Misconfigured(r) \/ Unanswered(r) \/ Answered(r) \/ Restart(r) \/ Fault(r)
      BY <3>1 DEF Misconfigured, Unanswered, Answered, Restart, Fault
    <3>2. CASE \/ ReadVersion(r) \/ Upgrade(r) \/ CommitUpgrade(r) \/ AcquireLock(r)
               \/ SeedRead(r)
      BY <3>2 DEF ReadVersion, Upgrade, CommitUpgrade, AcquireLock, SeedRead
    <3>3. CASE SeedWrite(r) \/ RegisterSelect(r) \/ RegisterInsert(r) \/ Serve(r)
      BY <3>3 DEF SeedWrite, RegisterSelect, RegisterInsert, Serve
    <3> QED BY <2>1, <3>1, <3>2, <3>3 DEF Boot
  <2> QED BY <2>1 DEF Next, vars, Outage, Midnight
<1>1. \A q \in Replica : Kept(q)
  <2>1. CASE UNCHANGED vars
    BY <1>t, <2>1 DEF vars, Reached
  <2>2. ASSUME NEW n \in 0..MaxDown, Outage(n) PROVE \A q \in Replica : Kept(q)
    BY <1>t, <2>2 DEF Outage, TypeOK, Reached
  <2>3. ASSUME NEW r \in Replica, Boot(r) \/ Fault(r) PROVE \A q \in Replica : Kept(q)
    <3>1. ASSUME NEW q \in Replica, q # r PROVE Stays(q)
      <4>1. phase'[q] = phase[q] /\ cause'[q] = cause[q] /\ attempt'[q] = attempt[q]
        <5>1. CASE Misconfigured(r) \/ Answered(r) \/ Fault(r)
          BY <1>t, <3>1, <5>1 DEF TypeOK, Misconfigured, Answered, Fault
        <5>5. CASE Unanswered(r)
          BY <1>t, <3>1, <5>5 DEF TypeOK, Unanswered
        <5>6. CASE Restart(r)
          BY <1>t, <3>1, <5>6 DEF TypeOK, Restart
        <5>2. CASE ReadVersion(r) \/ Upgrade(r) \/ CommitUpgrade(r) \/ AcquireLock(r)
          BY <1>t, <3>1, <5>2 DEF TypeOK, ReadVersion, Upgrade, CommitUpgrade, AcquireLock
        <5>3. CASE SeedRead(r) \/ SeedWrite(r) \/ RegisterInsert(r)
          BY <1>t, <3>1, <5>3 DEF TypeOK, SeedRead, SeedWrite, RegisterInsert
        <5>4. CASE RegisterSelect(r) \/ Serve(r)
          BY <1>t, <3>1, <5>4 DEF TypeOK, RegisterSelect, Serve
        <5> QED BY <2>3, <5>1, <5>2, <5>3, <5>4, <5>5, <5>6 DEF Boot
      <4> QED BY <1>t, <4>1 DEF Reached
    <3>2. Kept(r)
      <4>1. CASE Misconfigured(r)
        BY <1>t, <4>1 DEF TypeOK, Misconfigured
      <4>2. CASE Unanswered(r)
        <5>1. /\ phase[r] = "preflight" /\ attempt'[r] = attempt[r] + 1
              /\ attempt[r] < MaxAttempts
          BY <1>t, <4>2 DEF TypeOK, Unanswered, Reached
        <5>2. CASE attempt[r] + 1 < MaxAttempts
          BY <4>2, <5>1, <5>2 DEF Unanswered
        <5>3. CASE ~(attempt[r] + 1 < MaxAttempts)
          <6>1. attempt'[r] = MaxAttempts
            BY <1>a, <5>1, <5>3
          <6>2. phase'[r] = "exited" /\ cause'[r] = "unreachable"
                  /\ Url(r) \in {"right", "elsewhere"}
            BY <1>t, <4>2, <5>3 DEF TypeOK, Unanswered
          <6> QED BY <6>1, <6>2
        <5> QED BY <5>2, <5>3
      <4>3. CASE Answered(r)
        BY <1>t, <4>3 DEF TypeOK, Answered
      <4>4. CASE Restart(r)
        BY <1>t, <4>4 DEF TypeOK, Restart
      <4>5. CASE Fault(r)
        BY <1>t, <4>5 DEF TypeOK, Fault
      <4>6. CASE \/ ReadVersion(r) \/ Upgrade(r) \/ CommitUpgrade(r) \/ AcquireLock(r)
                 \/ SeedRead(r) \/ SeedWrite(r) \/ RegisterSelect(r) \/ RegisterInsert(r)
                 \/ Serve(r)
        <5>1. phase[r] \notin Before
          BY <4>6 DEF ReadVersion, Upgrade, CommitUpgrade, AcquireLock, SeedRead, SeedWrite,
             RegisterSelect, RegisterInsert, Serve
        <5>2. Url(r) = "right"
          BY <1>t, <5>1 DEF Reached
        <5>3. phase'[r] \notin Before \/ (phase'[r] = "exited" /\ cause'[r] \in Races)
          BY <1>t, <4>6 DEF TypeOK, ReadVersion, Upgrade, CommitUpgrade, AcquireLock, SeedRead,
             SeedWrite, RegisterSelect, RegisterInsert, Serve
        <5> QED BY <5>2, <5>3
      <4> QED BY <2>3, <4>1, <4>2, <4>3, <4>4, <4>5, <4>6 DEF Boot
    <3> QED BY ZenonT(40), <3>1, <3>2
  <2>4. CASE Midnight
    BY <1>t, <2>4 DEF Midnight, Reached
  <2> QED BY <2>1, <2>2, <2>3, <2>4 DEF Next
<1>2. \A q \in Replica :
        /\ Url(q) = "none" <=> Forms(env[q]) = {}
        /\ Url(q) # "none" => Url(q) \in Forms(env[q])
  BY <1>t, UrlIsAForm DEF TypeOK, Url
<1>3. \A q \in Replica : Url(q)' = Url(q)
  BY <1>e DEF Url
<1>4. Reached'
  <2>1. ASSUME NEW q \in Replica, phase'[q] = "preflight" PROVE attempt'[q] < MaxAttempts
    <3>1. Stays(q) \/ Begins(q)
      BY <1>1, <2>1
    <3>2. 0 < MaxAttempts
      BY <1>a
    <3> QED BY <2>1, <3>1, <3>2
  <2>2. ASSUME NEW q \in Replica, phase'[q] \notin Before PROVE Url(q) = "right"
    BY <1>t, <1>1, <2>2 DEF Reached
  <2> HIDE DEF Kept, Url
  <2> QED BY <1>3, <2>1, <2>2 DEF Reached
<1>5. Diagnosed'
  BY <1>t, <1>1, <1>2, <1>e DEF Diagnosed, Reached
<1> QED BY <1>4, <1>5

\* The calendar is nothing to the rest of the boot.
LEMMA MidnightStep ==
  ASSUME IInv, Midnight
  PROVE  Control' /\ Promise'
<1>1. UNCHANGED <<schema, rows, series, phase, cause, version, existing, pos, mine>>
  BY DEF Midnight, reach, local
<1> QED BY <1>1 DEF IInv, Control, Promise, Upgrading, Migrated, Seeded, Registered, Serial,
   OneInserter, ServingReady, SeedNeverClashes, NodesFirst, ByOriginOnce

LEMMA NextInv == IInv /\ [Next]_vars => IInv'
<1> SUFFICES ASSUME IInv, [Next]_vars PROVE Control' /\ Promise'
  BY TypeStep, DiagnosedStep DEF Control, Promise, IInv
<1>1. CASE UNCHANGED vars
  BY <1>1 DEF vars, IInv, Control, Promise, Upgrading, Migrated, Seeded, Registered, Serial,
     OneInserter, ServingReady, SeedNeverClashes, NodesFirst, ByOriginOnce
<1> QED BY <1>1, QuietStep, CommitUpgradeStep, SeedWriteStep, RegisterSelectStep,
           RegisterInsertStep, ServeStep, OutageStep, MidnightStep DEF Next, Boot, Quiet

-----------------------------------------------------------------------------
\* Everything below holds in every boot of any replicas, with any losses.
THEOREM Invariant == Spec => []IInv
BY InitInv, NextInv, PTL DEF Spec

\* A replica that serves has its schema, reference rows and series
\* (railway.json: each command starts only after the one before succeeded).
THEOREM Ready == Spec => []ServingReady
<1>1. IInv => ServingReady
  BY DEF IInv
<1> QED BY <1>1, Invariant, PTL

\* Seeds that overlap never race on the unique constraints (db.py:
\* acquire_bootstrap_lock).
THEOREM SeedsSerial == Spec => []SeedNeverClashes
<1>1. IInv => SeedNeverClashes
  BY DEF IInv
<1> QED BY <1>1, Invariant, PTL

\* Registration finds the nodes its release lists (register_spec).
THEOREM NodesBeforeSeries == Spec => []NodesFirst
<1>1. IInv => NodesFirst
  BY DEF IInv
<1> QED BY <1>1, Invariant, PTL

\* Every variable keeps its type; in particular no preflight makes more attempts,
\* and no container more restarts, than it may.
THEOREM TypeCorrect == Spec => []TypeOK
<1>1. IInv => TypeOK
  BY DEF IInv
<1> QED BY <1>1, Invariant, PTL

\* A boot that ends says why: "not configured" if no form is complete, and
\* "unreachable" after all attempts (preflight.py: wait_for_database).
THEOREM FailuresApart == Spec => []Diagnosed
<1>1. IInv => Diagnosed
  BY DEF IInv
<1> QED BY <1>1, Invariant, PTL

\* A series with a partner has one row (uq_series_ident).
THEOREM OriginUnique == Spec => []ByOriginOnce
<1>1. IInv => ByOriginOnce
  BY DEF IInv
<1> QED BY <1>1, Invariant, PTL
=============================================================================
