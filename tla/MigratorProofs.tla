-------------------------- MODULE MigratorProofs ---------------------------
(***************************************************************************)
(* Proofs about Migrator, for every set of processes and operators and     *)
(* every bound.  The argument has layers: types, the exclusion that the     *)
(* lease gives, what rests on that exclusion (sessions, MAINTENANCE), the   *)
(* refinement of the status lifecycle, and what is true without the lease   *)
(* (operators' statuses, invalidations, adoption, activation).             *)
(***************************************************************************)
EXTENDS Migrator, TLAPS

\* Zenon finds the leaves that name no prover; SMT those with arithmetic, sequences
\* and updates of functions.
USE ZenonT(30)

-----------------------------------------------------------------------------
(* Types *)

\* TypeOK is not inductive: the migration a run executes is one its code has, and
\* only a served tenant is written FAILED because its schema is missing.
LocalsOK ==
    \A p \in Procs :
        /\ pc[p] = "stmt" => run[p].mig <= code[p]
        /\ pc[p] = "upg" => run[p].status \in Upgradable \cup {"maintenance"}
        /\ pc[p] = "casMissing" => run[p].status \in Upgradable

TypeInv == TypeOK /\ LocalsOK

USE DEF OnlyReads, rowVars, leaseVars, schemaVars, backends, operVars,
        elsewhere, processes

\* The locals of a process that runs nothing are well-typed.
LEMMA BlankRunType == BlankRun \in RunType
  BY SMT, ConstantsAssumption
    DEF BlankRun, RunType, Flags, RowStates, Statuses, Provisionable,
        Upgradable, OperatorOwned

\* migrate_tenant returns to a state outside the protocol.
LEMMA AfterResting ==
  After \in Resting /\ After \notin {"stmt", "upg", "casMissing"}
  BY DEF After, Resting

\* TypeInv holds initially.
LEMMA InitType == Init => TypeInv
  <1> SUFFICES ASSUME Init PROVE TypeInv OBVIOUS
  <1>1. status \in RowStates /\ prev \in Statuses
    BY DEF Init, RowStates, Statuses, Provisionable, Upgradable, OperatorOwned
  <1>2. /\ public \in Releases /\ applied \in 0 .. MaxRelease
        /\ schema \in {"missing", "own", "foreign"}
    BY SMT, ConstantsAssumption DEF Init, Releases
  <1>3. run \in [Procs -> RunType]
    BY BlankRunType DEF Init
  <1>4. /\ pc \in [Procs -> Unleased \cup Leased \cup Resting]
        /\ session \in [Procs -> {"none", "idle", "busy"}]
    BY DEF Init, Resting
  <1>5. LocalsOK
    BY DEF Init, LocalsOK
  <1>6. faults \in 0 .. MaxFaults /\ edits \in 0 .. MaxEdits
    BY SMT, ConstantsAssumption DEF Init
  <1> QED BY <1>1, <1>2, <1>3, <1>4, <1>5, <1>6 DEF Init, TypeInv, TypeOK

\* migrate_tenant returns.
LEMMA ReturnType ==
  ASSUME TypeInv, NEW p \in Procs, Return(p), UNCHANGED code
  PROVE  /\ pc' \in [Procs -> Unleased \cup Leased \cup Resting]
         /\ run' \in [Procs -> RunType]
         /\ LocalsOK'
  <1>1. pc' = [pc EXCEPT ![p] = After] /\ run' = [run EXCEPT ![p] = BlankRun]
    BY DEF Return, Goto
  <1>2. pc' \in [Procs -> Unleased \cup Leased \cup Resting]
    BY <1>1, AfterResting DEF TypeInv, TypeOK
  <1>3. run' \in [Procs -> RunType]
    BY <1>1, BlankRunType DEF TypeInv, TypeOK
  <1>4. LocalsOK'
    BY <1>1, AfterResting DEF TypeInv, TypeOK, LocalsOK
  <1> QED BY <1>2, <1>3, <1>4

\* A fenced status write keeps the types, whatever it compares with.
LEMMA TypeStatusCas ==
  ASSUME TypeInv, NEW p \in Procs, NEW here, NEW expected,
         NEW new \in Statuses, NEW old \in Statuses,
         NEW next \in Leased \ {"stmt", "upg", "casMissing"},
         StatusCas(p, here, expected, new, old, next)
  PROVE  TypeInv'
  <1>1. status' \in RowStates /\ prev' \in Statuses
    BY DEF TypeInv, TypeOK, StatusCas, CasWrites, RowStates
  <1>2. stale' \in BOOLEAN
    BY DEF TypeInv, TypeOK, StatusCas
  <1>3. \E l \in Leased \ {"stmt", "upg", "casMissing"} :
          pc' = [pc EXCEPT ![p] = l]
    BY DEF StatusCas, Goto, Leased
  <1>4. LocalsOK' /\ pc' \in [Procs -> Unleased \cup Leased \cup Resting]
    BY <1>3 DEF TypeInv, TypeOK, LocalsOK, StatusCas
  <1> QED BY <1>1, <1>2, <1>4 DEF TypeInv, TypeOK, StatusCas

\* The statements of migrate_tenant keep the types.
LEMMA TypeProcess ==
  ASSUME TypeInv, NEW p \in Procs, Process(p)
  PROVE  TypeInv'
  <1>1. CASE Load(p)
    <2>1. CASE Return(p)
      BY <1>1, <2>1, ReturnType DEF TypeInv, TypeOK, Load
    <2>2. CASE ~Return(p)
      BY <1>1, <2>2
        DEF TypeInv, TypeOK, LocalsOK, Load, Goto, Unleased, Leased, Resting
    <2> QED BY <2>1, <2>2
  <1>2. CASE Shortcut(p)
    <2>1. CASE Return(p)
      BY <1>2, <2>1, ReturnType DEF TypeInv, TypeOK, Shortcut
    <2>2. CASE ~Return(p)
      BY <1>2, <2>2
        DEF TypeInv, TypeOK, LocalsOK, Shortcut, Goto, Unleased, Leased,
            Resting
    <2> QED BY <2>1, <2>2
  <1>3. CASE LeaseProbe(p)
    <2>1. CASE Return(p)
      BY <1>3, <2>1, ReturnType DEF TypeInv, TypeOK, LeaseProbe
    <2>2. CASE ~Return(p)
      BY <1>3, <2>2
        DEF TypeInv, TypeOK, LocalsOK, LeaseProbe, Goto, Unleased, Leased,
            Resting
    <2> QED BY <2>1, <2>2
  <1>4. CASE LeaseTake(p)
    <2>1. CASE Return(p)
      BY <1>4, <2>1, ReturnType DEF TypeInv, TypeOK, LeaseTake
    <2>2. CASE ~Return(p)
      BY <1>4, <2>2
        DEF TypeInv, TypeOK, LocalsOK, LeaseTake, Goto, Unleased, Leased,
            Resting
    <2> QED BY <2>1, <2>2
  <1>5. CASE Reload(p)
    <2>1. run' \in [Procs -> RunType] /\ run'[p].status = status
      <3>1. /\ run \in [Procs -> RunType]
            /\ status \in RowStates /\ prev \in Statuses
            /\ run' = [run EXCEPT ![p].status = status, ![p].prev = prev]
        BY <1>5 DEF TypeInv, TypeOK, Reload
      <3>2. ASSUME NEW r \in RunType
            PROVE  LET q == [[r EXCEPT !.status = status] EXCEPT !.prev = prev]
                   IN  q \in RunType /\ q.status = status
        BY <3>1 DEF RunType
      <3> QED BY <3>1, <3>2
    <2>2. pc' \in [Procs -> Unleased \cup Leased \cup Resting]
      BY <1>5 DEF TypeInv, TypeOK, Reload, Goto, Unleased, Leased, Resting
    <2>3. /\ pc'[p] \notin {"stmt", "casMissing"}
          /\ pc'[p] = "upg" => status \in Upgradable \cup {"maintenance"}
      BY <1>5
        DEF TypeInv, TypeOK, Reload, Goto, Gated, Provisionable, Upgradable,
            OperatorOwned, Statuses, RowStates
    <2>4. LocalsOK'
      BY <1>5, <2>1, <2>3 DEF TypeInv, TypeOK, LocalsOK, Reload, Goto
    <2> QED BY <1>5, <2>1, <2>2, <2>4 DEF TypeInv, TypeOK, Reload
  <1>6. CASE Prov(p)
    BY <1>6, ConstantsAssumption
      DEF TypeInv, TypeOK, LocalsOK, Prov, Goto, Unleased, Leased, Resting
  <1>7. CASE M4(p)
    BY <1>7, ConstantsAssumption
      DEF TypeInv, TypeOK, LocalsOK, M4, Goto, Unleased, Leased, Resting
  <1>8. CASE CasExists(p)
    BY <1>8, TypeStatusCas
      DEF CasExists, TypeInv, LocalsOK, StatusCas, Leased, Provisionable,
          Upgradable, OperatorOwned, Statuses, RowStates
  <1>9. CASE Claim(p)
    <2>1. /\ "pending" \in Statuses /\ "new" \in Statuses
          /\ "create" \in Leased \ {"stmt", "upg", "casMissing"}
      BY DEF Statuses, Provisionable, Upgradable, OperatorOwned, Leased
    <2> QED BY <1>9, <2>1, TypeStatusCas DEF Claim
  <1>10. CASE Create(p)
    BY SMT, <1>10, ConstantsAssumption
      DEF TypeInv, TypeOK, LocalsOK, Create, Goto, Unleased, Leased, Resting
  <1>11. CASE OpenShard(p)
    BY <1>11, ConstantsAssumption
      DEF TypeInv, TypeOK, LocalsOK, OpenShard, Goto, Unleased, Leased, Resting
  <1>12. CASE Plan(p)
    <2>0. (IF Targeted(p) THEN code[p] ELSE applied + 1) \in 0 .. MaxRelease + 1
      BY SMT, <1>12, ConstantsAssumption DEF TypeInv, TypeOK, Releases
    <2>1. run' \in [Procs -> RunType]
      BY SMT, <1>12, <2>0 DEF TypeInv, TypeOK, Plan, RunType
    <2>2. LocalsOK' /\ pc' \in [Procs -> Unleased \cup Leased \cup Resting]
      BY <1>12
        DEF TypeInv, TypeOK, LocalsOK, Plan, Goto, Unleased, Leased, Resting
    <2> QED BY <1>12, <2>1, <2>2 DEF TypeInv, TypeOK, Plan
  <1>13. CASE StmtStart(p)
    BY <1>13
      DEF TypeInv, TypeOK, LocalsOK, StmtStart, Goto, Unleased, Leased, Resting
  <1>14. CASE StmtDone(p)
    <2>0. run[p].mig <= code[p] /\ run[p].mig \in Nat /\ code[p] \in Releases
      BY SMT, <1>14, ConstantsAssumption
        DEF TypeInv, TypeOK, LocalsOK, StmtDone, RunType
    <2>1. run' \in [Procs -> RunType]
      BY SMT, <1>14, <2>0, ConstantsAssumption
        DEF TypeInv, TypeOK, StmtDone, RunType, Releases
    <2>2. LocalsOK' /\ pc' \in [Procs -> Unleased \cup Leased \cup Resting]
      BY <1>14
        DEF TypeInv, TypeOK, LocalsOK, StmtDone, Goto, Unleased, Leased,
            Resting
    <2>3. applied' \in 0 .. MaxRelease
      BY SMT, <1>14, <2>0, ConstantsAssumption DEF StmtDone, Releases
    <2> QED BY <1>14, <2>1, <2>2, <2>3 DEF TypeInv, TypeOK, StmtDone
  <1>15. CASE StmtError(p)
    BY SMT, <1>15, ConstantsAssumption
      DEF TypeInv, TypeOK, LocalsOK, StmtError, Fault, Failure, Goto, Unleased,
          Leased, Resting
  <1>16. CASE RunDone(p)
    BY <1>16, ConstantsAssumption
      DEF TypeInv, TypeOK, LocalsOK, RunDone, Goto, Unleased, Leased, Resting
  <1>17. CASE Verify(p)
    BY <1>17, ConstantsAssumption
      DEF TypeInv, TypeOK, LocalsOK, Verify, Close, Goto, Unleased, Leased,
          Resting
  <1>18. CASE Recheck(p)
    BY <1>18, ConstantsAssumption
      DEF TypeInv, TypeOK, LocalsOK, Recheck, Goto, Unleased, Leased, Resting
  <1>19. CASE Activate(p)
    BY <1>19, TypeStatusCas
      DEF Activate, TypeInv, LocalsOK, StatusCas, Leased, Provisionable,
          Upgradable, OperatorOwned, Statuses, RowStates
  <1>20. CASE Fail(p)
    BY <1>20, ConstantsAssumption
      DEF TypeInv, TypeOK, LocalsOK, Fail, Close, Goto, Unleased, Leased,
          Resting
  <1>21. CASE CasFailed(p)
    BY <1>21, TypeStatusCas
      DEF CasFailed, TypeInv, LocalsOK, StatusCas, Leased, Provisionable,
          Upgradable, OperatorOwned, Statuses, RowStates
  <1>22. CASE Upgrade(p)
    <2>1. pc'[p] = "casMissing" => run[p].status \in Upgradable
      BY <1>22 DEF TypeInv, TypeOK, LocalsOK, Upgrade, Goto
    <2> QED BY <1>22, <2>1
              DEF TypeInv, TypeOK, LocalsOK, Upgrade, Goto, Unleased, Leased,
                  Resting
  <1>23. CASE CasMissing(p)
    BY <1>23, TypeStatusCas
      DEF CasMissing, TypeInv, LocalsOK, StatusCas, Leased, Provisionable,
          Upgradable, OperatorOwned, Statuses, RowStates
  <1>24. CASE Forget(p)
    BY <1>24, ConstantsAssumption
      DEF TypeInv, TypeOK, LocalsOK, Forget, Goto, Unleased, Leased, Resting
  <1>25. CASE CloseShard(p)
    BY <1>25, ConstantsAssumption
      DEF TypeInv, TypeOK, LocalsOK, CloseShard, Close, Goto, Unleased, Leased,
          Resting
  <1>26. CASE LeaseRelease(p)
    BY <1>26, ReturnType DEF TypeInv, TypeOK, LeaseRelease, FreeLease
  <1> QED BY <1>1, <1>2, <1>3, <1>4, <1>5, <1>6, <1>7, <1>8, <1>9, <1>10,
             <1>11, <1>12, <1>13, <1>14, <1>15, <1>16, <1>17, <1>18, <1>19,
             <1>20, <1>21, <1>22, <1>23, <1>24, <1>25, <1>26
            DEF Process

\* Faults keep the types.
LEMMA TypeFaulty ==
  ASSUME TypeInv, NEW p \in Procs, Faulty(p)
  PROVE  TypeInv'
  <1>1. CASE UnleasedError(p)
    <2>1. leaseOwner' \in Procs \cup {None} /\ leaseExpired' \in BOOLEAN
      BY <1>1 DEF TypeInv, TypeOK, UnleasedError
    <2> QED BY SMT, <1>1, <2>1, ReturnType, ConstantsAssumption
              DEF TypeInv, TypeOK, UnleasedError, Fault
  <1>2. CASE ConnectionLost(p)
    <2>1. status' \in RowStates /\ prev' \in Statuses
      BY <1>2
        DEF TypeInv, TypeOK, LocalsOK, ConnectionLost, LostAnswer, CasWrites,
            rowVars, Provisionable, Upgradable, OperatorOwned, Statuses,
            RowStates
    <2>2. LocalsOK' /\ pc' \in [Procs -> Unleased \cup Leased \cup Resting]
      BY <1>2
        DEF TypeInv, TypeOK, LocalsOK, ConnectionLost, Goto, Unleased, Leased,
            Resting
    <2>3. stale' \in BOOLEAN
      BY <1>2 DEF TypeInv, TypeOK, ConnectionLost
    <2>4. /\ session' \in [Procs -> {"none", "idle", "busy"}]
          /\ orphans' \subseteq Procs
      BY <1>2 DEF TypeInv, TypeOK, ConnectionLost, Abandon
    <2>5. faults' \in 0 .. MaxFaults
      BY SMT, <1>2, ConstantsAssumption DEF TypeInv, TypeOK, ConnectionLost, Fault
    <2> QED BY <1>2, <2>1, <2>2, <2>3, <2>4, <2>5
              DEF TypeInv, TypeOK, ConnectionLost
  <1>3. CASE ProvisionError(p)
    BY SMT, <1>3, ConstantsAssumption
      DEF TypeInv, TypeOK, LocalsOK, ProvisionError, Fault, Goto, Unleased,
          Leased, Resting
  <1>4. CASE Interrupt(p)
    <2>1. CASE Return(p)
      BY SMT, <1>4, <2>1, ReturnType, ConstantsAssumption
        DEF TypeInv, TypeOK, Interrupt, Fault
    <2>2. CASE ~Return(p)
      BY SMT, <1>4, <2>2, ConstantsAssumption
        DEF TypeInv, TypeOK, LocalsOK, Interrupt, Goto, Fault, Unleased,
            Leased, Resting
    <2> QED BY <2>1, <2>2
  <1>5. CASE ReleaseError(p)
    BY SMT, <1>5, ReturnType, ConstantsAssumption
      DEF TypeInv, TypeOK, ReleaseError, Fault
  <1>6. CASE Crash(p)
    <2>1. run' \in [Procs -> RunType]
      BY <1>6, BlankRunType DEF TypeInv, TypeOK, Crash
    <2>2. LocalsOK' /\ pc' \in [Procs -> Unleased \cup Leased \cup Resting]
      BY <1>6
        DEF TypeInv, TypeOK, LocalsOK, Crash, Goto, Unleased, Leased, Resting
    <2> QED BY SMT, <1>6, <2>1, <2>2, ConstantsAssumption
              DEF TypeInv, TypeOK, Crash, Abandon, Fault
  <1> QED BY <1>1, <1>2, <1>3, <1>4, <1>5, <1>6 DEF Faulty

\* Operators keep the types.
LEMMA TypeOperator ==
  ASSUME TypeInv, NEW o \in Operators, Operator(o)
  PROVE  TypeInv'
  <1>1. CASE ReleaseCheck(o)
    BY <1>1 DEF TypeInv, TypeOK, LocalsOK, ReleaseCheck
  <1>2. CASE ForceRelease(o)
    BY <1>2 DEF TypeInv, TypeOK, LocalsOK, ForceRelease, FreeLease
  <1>3. CASE FormClean(o)
    <2>1. form' \in [Operators -> FormType \cup {None}]
      BY SMT, <1>3
        DEF TypeInv, TypeOK, FormClean, FormType, MayChange, StatusTransitions,
            Provisionable, Upgradable, OperatorOwned, Statuses, RowStates
    <2>2. edits' \in 0 .. MaxEdits
      <3>1. edits \in 0 .. MaxEdits /\ edits < MaxEdits /\ edits' = edits + 1
        BY <1>3 DEF TypeInv, TypeOK, FormClean
      <3> QED BY SMT, <3>1, ConstantsAssumption
    <2>3. UNCHANGED <<rowVars, leaseVars, schemaVars, backends, shown, stale,
                      faults, processes>>
      BY <1>3 DEF FormClean
    <2> QED BY <2>1, <2>2, <2>3 DEF TypeInv, TypeOK, LocalsOK
  <1>8. CASE Transition(o)
    <2>1. form' \in [Operators -> FormType \cup {None}]
      BY SMT, <1>8
        DEF TypeInv, TypeOK, Transition, FormType, Upgradable, Provisionable, OperatorOwned,
            Statuses, RowStates
    <2>2. edits' \in 0 .. MaxEdits
      <3>1. edits \in 0 .. MaxEdits /\ edits < MaxEdits /\ edits' = edits + 1
        BY <1>8 DEF TypeInv, TypeOK, Transition
      <3> QED BY SMT, <3>1, ConstantsAssumption
    <2>3. UNCHANGED <<rowVars, leaseVars, schemaVars, backends, shown, stale,
                      faults, processes>>
      BY <1>8 DEF Transition
    <2> QED BY <2>1, <2>2, <2>3 DEF TypeInv, TypeOK, LocalsOK
  <1>4. CASE DeleteCheck(o)
    <2>1. form' \in [Operators -> FormType \cup {None}]
      BY SMT, <1>4
        DEF TypeInv, TypeOK, DeleteCheck, FormType, MayChange,
            StatusTransitions, Provisionable, Upgradable, OperatorOwned,
            Statuses, RowStates
    <2>2. edits' \in 0 .. MaxEdits
      <3>1. edits \in 0 .. MaxEdits /\ edits < MaxEdits /\ edits' = edits + 1
        BY <1>4 DEF TypeInv, TypeOK, DeleteCheck
      <3> QED BY SMT, <3>1, ConstantsAssumption
    <2>3. UNCHANGED <<rowVars, leaseVars, schemaVars, backends, shown, stale,
                      faults, processes>>
      BY <1>4 DEF DeleteCheck
    <2> QED BY <2>1, <2>2, <2>3 DEF TypeInv, TypeOK, LocalsOK
  <1>5. CASE FormSave(o)
    <2>1. form[o] \in FormType
      BY <1>5 DEF TypeInv, TypeOK, FormSave, Checked
    <2>2. form' \in [Operators -> FormType \cup {None}]
      <3>1. [form[o] EXCEPT !.saved = TRUE] \in FormType
        BY <1>5, <2>1 DEF FormType
      <3> QED BY <1>5, <3>1 DEF TypeInv, TypeOK, FormSave
    <2>3. /\ status' \in RowStates
          /\ prev' \in Statuses
          /\ stale' \in BOOLEAN
          /\ vetted' \in BOOLEAN
      BY <1>5, <2>1 DEF TypeInv, TypeOK, FormSave, FormType, CasWrites, rowVars
    <2> QED BY <1>5, <2>2, <2>3 DEF TypeInv, TypeOK, LocalsOK, FormSave
  <1>6. CASE Delete(o)
    <2>1. form[o] \in FormType
      BY <1>6 DEF TypeInv, TypeOK, Delete, Checked
    <2>2. form' \in [Operators -> FormType \cup {None}]
      BY <1>6, <2>1 DEF TypeInv, TypeOK, Delete, FormType
    <2> QED BY <1>6, <2>2 DEF TypeInv, TypeOK, LocalsOK, Delete, RowStates
  <1>7. CASE FormForget(o)
    BY <1>7 DEF TypeInv, TypeOK, LocalsOK, FormForget
  <1> QED BY <1>1, <1>2, <1>3, <1>4, <1>5, <1>6, <1>7, <1>8 DEF Operator

\* Deployments, schema loss, restore and expiry keep the types.
LEMMA TypeWorld ==
  ASSUME TypeInv, World
  PROVE  TypeInv'
  <1>1. CASE MigrateShared
    BY SMT, <1>1, ConstantsAssumption
      DEF TypeInv, TypeOK, LocalsOK, MigrateShared, Releases
  <1>2. CASE DropSchema
    BY SMT, <1>2, ConstantsAssumption DEF TypeInv, TypeOK, LocalsOK, DropSchema
  <1>3. CASE LoseSchema
    BY SMT, <1>3, ConstantsAssumption
      DEF TypeInv, TypeOK, LocalsOK, LoseSchema, Fault
  <1>4. CASE Restore
    BY SMT, <1>4, ConstantsAssumption
      DEF TypeInv, TypeOK, LocalsOK, Restore, Releases
  <1>5. CASE LeaseExpire
    BY <1>5 DEF TypeInv, TypeOK, LocalsOK, LeaseExpire
  <1> QED BY <1>1, <1>2, <1>3, <1>4, <1>5 DEF World

\* TypeInv is inductive.
LEMMA TypeStep ==
  ASSUME TypeInv, [Next]_vars
  PROVE  TypeInv'
  <1>1. ASSUME NEW p \in Procs, Start(p) PROVE TypeInv'
    <2>1. run' \in [Procs -> RunType]
      BY SMT, <1>1, ConstantsAssumption DEF TypeInv, TypeOK, Start, RunType
    <2>2. LocalsOK' /\ pc' \in [Procs -> Unleased \cup Leased \cup Resting]
      BY <1>1
        DEF TypeInv, TypeOK, LocalsOK, Start, Goto, Unleased, Leased, Resting
    <2> QED BY <1>1, <2>1, <2>2 DEF TypeInv, TypeOK, Start
  <1>2. ASSUME NEW p \in Procs, OrphanEnds(p) PROVE TypeInv'
    BY <1>2 DEF TypeInv, TypeOK, LocalsOK, OrphanEnds
  <1>3. CASE UNCHANGED vars
    BY <1>3 DEF TypeInv, TypeOK, LocalsOK, vars
  <1> QED BY <1>1, <1>2, <1>3, TypeProcess, TypeFaulty, TypeOperator, TypeWorld
            DEF Next

\* Every reachable state is well-typed: the locals of migrate_tenant agree with
\* the statement it is at, and no migration is recorded that no code has.
THEOREM TypeCorrect == Spec => []TypeOK
  <1>1. TypeInv /\ [Next]_vars => TypeInv'
    BY TypeStep
  <1>2. TypeInv => TypeOK
    BY DEF TypeInv
  <1> QED BY InitType, <1>1, <1>2, PTL DEF Spec

-----------------------------------------------------------------------------
(* The lease excludes *)

\* OwnerOnly is not inductive: an operator's --release may free the lease of the
\* process it was shown.  That is harmless because the process shown had an
\* expired lease, hence had left migrate_tenant, and does not come back.
LeaseInv ==
    Supported =>
        /\ \A p \in Procs : Critical(p) => leaseOwner = p /\ ~leaseExpired
        /\ \A p \in Procs :
              ~Reuse /\ leaseOwner = p => Critical(p) \/ pc[p] \in {"ended", "dead"}
        /\ \A o \in Operators :
              shown[o] # None => ~Reuse /\ pc[shown[o]] \in {"ended", "dead"}

\* A statement inside the leased part that leaves the lease alone.
LEMMA StayLeased ==
  ASSUME TypeInv, LeaseInv, NEW p \in Procs, Critical(p), NEW l \in Leased,
         pc' = [pc EXCEPT ![p] = l], UNCHANGED <<leaseVars, shown>>
  PROVE  LeaseInv'
  BY DEF LeaseInv, TypeInv, TypeOK, Critical, Supported, Leased

\* The statements of migrate_tenant preserve LeaseInv: the upsert takes only a free
\* or expired lease, which nobody inside can have.
LEMMA LeaseProcess ==
  ASSUME TypeInv, LeaseInv, NEW p \in Procs, Process(p)
  PROVE  LeaseInv'
  <1> USE DEF LeaseInv, TypeInv, TypeOK, Critical, Goto, Supported
  <1>1. CASE Load(p) \/ Shortcut(p) \/ LeaseProbe(p)
    <2>1. CASE Load(p)
      BY SMT, <2>1 DEF Load, Return, After, Unleased, Leased, Resting
    <2>2. CASE Shortcut(p)
      BY SMT, <2>2 DEF Shortcut, Return, After, Unleased, Leased, Resting
    <2>3. CASE LeaseProbe(p)
      BY SMT, <2>3 DEF LeaseProbe, Return, After, Unleased, Leased, Resting
    <2> QED BY <1>1, <2>1, <2>2, <2>3
  <1>2. CASE LeaseTake(p)
    BY <1>2, ConstantsAssumption, SMTT(20)
      DEF LeaseTake, LeaseFree, Return, After, Unleased, Leased, Resting
  <1>3. CASE Reload(p) \/ Prov(p) \/ M4(p) \/ Create(p) \/ OpenShard(p)
             \/ Plan(p)
    BY <1>3, SMTT(20) DEF Reload, Prov, M4, Create, OpenShard, Plan, Leased
  <1>4. CASE CasExists(p) \/ Claim(p) \/ Activate(p) \/ CasFailed(p)
             \/ CasMissing(p)
    <2>1. /\ Critical(p)
          /\ UNCHANGED <<leaseVars, shown>>
          /\ \E l \in Leased : pc' = [pc EXCEPT ![p] = l]
      BY <1>4
        DEF CasExists, Claim, Activate, CasFailed, CasMissing, StatusCas,
            Leased
    <2> QED BY <2>1, StayLeased
  <1>5. CASE StmtStart(p) \/ StmtDone(p) \/ StmtError(p) \/ RunDone(p)
    BY SMT, <1>5 DEF StmtStart, StmtDone, StmtError, RunDone, Failure, Leased
  <1>6. CASE Verify(p) \/ Recheck(p) \/ Fail(p) \/ Upgrade(p) \/ Forget(p)
             \/ CloseShard(p)
    BY SMT, <1>6 DEF Verify, Recheck, Fail, Upgrade, Forget, CloseShard, Leased
  <1>7. CASE LeaseRelease(p)
    BY <1>7, ConstantsAssumption, SMTT(20)
      DEF LeaseRelease, FreeLease, Return, After, Leased
  <1> QED BY <1>1, <1>2, <1>3, <1>4, <1>5, <1>6, <1>7 DEF Process

\* Faults preserve LeaseInv: a run that goes wrong keeps its lease or has ended.
LEMMA LeaseFaulty ==
  ASSUME TypeInv, LeaseInv, NEW p \in Procs, Faulty(p)
  PROVE  LeaseInv'
  <1> USE DEF LeaseInv, TypeInv, TypeOK, Critical, Goto, Supported
  <1>1. CASE UnleasedError(p)
    BY <1>1, ConstantsAssumption, SMTT(20)
      DEF UnleasedError, LeaseFree, Return, After, Unleased, Leased
  <1>2. CASE ConnectionLost(p) \/ ProvisionError(p)
    <2>1. /\ Critical(p)
          /\ UNCHANGED <<leaseVars, shown>>
          /\ \E l \in Leased : pc' = [pc EXCEPT ![p] = l]
      BY <1>2 DEF ConnectionLost, ProvisionError, Leased
    <2> QED BY <2>1, StayLeased
  <1>3. CASE Interrupt(p)
    BY SMT, <1>3 DEF Interrupt, Return, After, Leased
  <1>4. CASE ReleaseError(p)
    BY <1>4 DEF ReleaseError, Return, After, Leased
  <1>5. CASE Crash(p)
    BY <1>5 DEF Crash, Leased, Resting
  <1> QED BY <1>1, <1>2, <1>3, <1>4, <1>5 DEF Faulty

\* Operators preserve LeaseInv: only the lease of an ended process is freed.
LEMMA LeaseOperator ==
  ASSUME TypeInv, LeaseInv, NEW o \in Operators, Operator(o)
  PROVE  LeaseInv'
  <1> USE DEF LeaseInv, TypeInv, TypeOK, Critical, Supported
  <1>1. CASE ReleaseCheck(o)
    BY <1>1, ConstantsAssumption DEF ReleaseCheck, Releasable
  <1>2. CASE ForceRelease(o)
    BY SMT, <1>2, ConstantsAssumption DEF ForceRelease, FreeLease, Leased
  <1>3. CASE FormClean(o) \/ Transition(o) \/ DeleteCheck(o) \/ FormSave(o) \/ Delete(o)
             \/ FormForget(o)
    BY <1>3 DEF FormClean, Transition, DeleteCheck, FormSave, Delete, FormForget
  <1> QED BY <1>1, <1>2, <1>3 DEF Operator

\* LeaseInv is inductive relative to TypeInv.
LEMMA LeaseStep ==
  ASSUME TypeInv, LeaseInv, [Next]_vars
  PROVE  LeaseInv'
  <1> USE DEF LeaseInv, TypeInv, TypeOK, Critical, Supported
  <1>1. ASSUME NEW p \in Procs, Start(p) \/ OrphanEnds(p) PROVE LeaseInv'
    BY SMT, <1>1 DEF Start, OrphanEnds, Goto, Leased
  <1>2. CASE World
    BY <1>2, ConstantsAssumption
      DEF World, MigrateShared, DropSchema, LoseSchema, Restore, LeaseExpire
  <1>3. CASE UNCHANGED vars
    BY <1>3 DEF vars
  <1> QED BY <1>1, <1>2, <1>3, LeaseProcess, LeaseFaulty, LeaseOperator
            DEF Next

\* LeaseInv holds initially.
LEMMA LeaseInit == Init => LeaseInv
  BY SMT, ConstantsAssumption DEF Init, LeaseInv, Critical, Leased

\* The two invariants together.
LEMMA LeaseInvariant == Spec => [](TypeInv /\ LeaseInv)
  <1>1. TypeInv /\ LeaseInv /\ [Next]_vars => TypeInv' /\ LeaseInv'
    BY TypeStep, LeaseStep
  <1> QED BY InitType, LeaseInit, <1>1, PTL DEF Spec

\* I1 for any number of processes, faults, operators and releases: under the
\* runbook's conditions only the owner of a live lease is inside migrate_tenant.
THEOREM Exclusion == Spec => []OwnerOnly
  <1>1. LeaseInv => OwnerOnly
    BY DEF LeaseInv, OwnerOnly
  <1> QED BY LeaseInvariant, <1>1, PTL

\* So, as long as no lease runs out under its owner and no operator forces one,
\* two processes are never both inside migrate_tenant's leased part.
COROLLARY MutualExclusion ==
  Spec => [](Supported => \A p, q \in Procs : Critical(p) /\ Critical(q) => p = q)
  <1>1. OwnerOnly => (Supported => \A p, q \in Procs : Critical(p) /\ Critical(q) => p = q)
    BY DEF OwnerOnly
  <1> QED BY Exclusion, <1>1, PTL

-----------------------------------------------------------------------------
(* Sessions end before the lease does *)

\* A labelled session belongs to a process between _open_shard and _close_shard.
SessionInv ==
  \A p \in Procs : session[p] # "none" => pc[p] \in Leased \ {"release"}

\* The statements of migrate_tenant preserve SessionInv.
LEMMA SessionProcess ==
  ASSUME TypeInv, SessionInv, NEW p \in Procs, Process(p)
  PROVE  SessionInv'
  <1> USE DEF SessionInv, TypeInv, TypeOK, Goto
  <1>1. CASE Load(p) \/ Shortcut(p) \/ LeaseProbe(p) \/ LeaseTake(p)
    <2>1. session' = session /\ pc[p] \notin Leased
      BY <1>1 DEF Load, Shortcut, LeaseProbe, LeaseTake, Leased
    <2>2. \E l : pc' = [pc EXCEPT ![p] = l]
      BY <1>1 DEF Load, Shortcut, LeaseProbe, LeaseTake, Return
    <2> QED BY <2>1, <2>2
  <1>2. CASE Reload(p) \/ Prov(p) \/ M4(p) \/ Create(p) \/ OpenShard(p)
             \/ Plan(p)
    <2>1. CASE Reload(p) \/ Prov(p) \/ M4(p)
      BY SMT, <2>1 DEF Reload, Prov, M4, Leased
    <2>2. CASE Create(p) \/ OpenShard(p) \/ Plan(p)
      BY SMT, <2>2 DEF Create, OpenShard, Plan, Leased
    <2> QED BY <1>2, <2>1, <2>2
  <1>3. CASE CasExists(p) \/ Claim(p) \/ Activate(p) \/ CasFailed(p)
             \/ CasMissing(p)
    <2>1. /\ session' = session
          /\ \E l \in Leased \ {"release"} : pc' = [pc EXCEPT ![p] = l]
      BY <1>3
        DEF CasExists, Claim, Activate, CasFailed, CasMissing, StatusCas,
            Leased
    <2> QED BY <2>1
  <1>4. CASE StmtStart(p) \/ StmtDone(p) \/ StmtError(p) \/ RunDone(p)
    BY SMT, <1>4 DEF StmtStart, StmtDone, StmtError, RunDone, Failure, Leased
  <1>5. CASE Verify(p) \/ Recheck(p) \/ Fail(p) \/ Upgrade(p) \/ Forget(p)
             \/ CloseShard(p)
    BY SMT, <1>5
      DEF Verify, Recheck, Fail, Upgrade, Forget, CloseShard, Close, Leased
  <1>6. CASE LeaseRelease(p)
    BY <1>6 DEF LeaseRelease, Return, After, Leased
  <1> QED BY <1>1, <1>2, <1>3, <1>4, <1>5, <1>6 DEF Process

\* SessionInv is inductive relative to TypeInv.
LEMMA SessionStep ==
  ASSUME TypeInv, SessionInv, [Next]_vars
  PROVE  SessionInv'
  <1> USE DEF SessionInv, TypeInv, TypeOK, Goto
  <1>1. ASSUME NEW p \in Procs, Faulty(p) PROVE SessionInv'
    <2>1. CASE UnleasedError(p) \/ ReleaseError(p)
      BY <2>1 DEF UnleasedError, ReleaseError, Return, After, Unleased, Leased
    <2>2. CASE ConnectionLost(p) \/ Crash(p)
      <3>1. /\ session' = [session EXCEPT ![p] = "none"]
            /\ \E l : pc' = [pc EXCEPT ![p] = l]
        BY <2>2 DEF ConnectionLost, Crash, Abandon
      <3> QED BY <3>1
    <2>3. CASE ProvisionError(p) \/ Interrupt(p)
      BY SMT, <2>3 DEF ProvisionError, Interrupt, Return, After, Leased
    <2> QED BY <1>1, <2>1, <2>2, <2>3 DEF Faulty
  <1>2. ASSUME NEW p \in Procs, Start(p) \/ OrphanEnds(p) PROVE SessionInv'
    BY <1>2 DEF Start, OrphanEnds, Leased
  <1>3. ASSUME NEW o \in Operators, Operator(o) PROVE SessionInv'
    BY <1>3
      DEF Operator, ReleaseCheck, ForceRelease, FormClean, Transition, DeleteCheck,
          FormSave, Delete, FormForget
  <1>4. CASE World
    BY <1>4
      DEF World, MigrateShared, DropSchema, LoseSchema, Restore, LeaseExpire
  <1>5. CASE UNCHANGED vars
    BY <1>5 DEF vars
  <1> QED BY <1>1, <1>2, <1>3, <1>4, <1>5, SessionProcess DEF Next

\* m5/I8: the next owner of a lease never meets the previous owner's session.
THEOREM SessionsOwned == Spec => []SessionOwned
  <1>1. Init => SessionInv
    BY DEF Init, SessionInv
  <1>2. TypeInv /\ SessionInv /\ [Next]_vars => SessionInv'
    BY SessionStep
  <1>3. LeaseInv /\ SessionInv => SessionOwned
    BY DEF LeaseInv, SessionInv, SessionOwned, Critical
  <1> QED BY <1>1, <1>2, <1>3, LeaseInvariant, PTL DEF Spec

-----------------------------------------------------------------------------
(* MAINTENANCE *)

\* A process that leaves the part MaintenanceExclusive is about disturbs nothing.
LEMMA MaintenanceLeft ==
  ASSUME TypeOK, MaintenanceExclusive, NEW p \in Procs, status' = status,
         NEW l, l \notin Leased \ {"reload", "close", "release", "forget"},
         Goto(p, l),
         \A q \in Procs : q # p => run'[q] = run[q]
  PROVE  MaintenanceExclusive'
  BY DEF MaintenanceExclusive, TypeOK, Goto

\* A process that moves on inside that part disturbs nothing either, unless it
\* were to write MAINTENANCE.
LEMMA MaintenanceInside ==
  ASSUME TypeOK, MaintenanceExclusive, NEW p \in Procs,
         status' = status \/ status' # "maintenance",
         pc[p] \in Leased \ {"reload", "close", "release", "forget"},
         NEW l, Goto(p, l), run' = run
  PROVE  MaintenanceExclusive'
  BY DEF MaintenanceExclusive, TypeOK, Goto

\* The statements of migrate_tenant preserve MaintenanceExclusive: the row is read
\* again under the lease.
LEMMA MaintenanceProcess ==
  ASSUME TypeInv, MaintenanceExclusive, NEW p \in Procs, Process(p)
  PROVE  MaintenanceExclusive'
  <1> USE DEF MaintenanceExclusive, TypeInv, TypeOK, Goto, Supported
  <1>1. CASE Load(p) \/ Shortcut(p) \/ LeaseProbe(p) \/ LeaseTake(p)
    <2>1. /\ status' = status
          /\ \A q \in Procs : q # p => run'[q] = run[q]
      BY <1>1 DEF Load, Shortcut, LeaseProbe, LeaseTake, Return, OnlyReads,
                  rowVars
    <2>2. PICK l \in {"shortcut", "probe", "take", "reload", "idle", "ended"} :
            Goto(p, l)
      BY <1>1 DEF Load, Shortcut, LeaseProbe, LeaseTake, Return, After
    <2>3. l \notin Leased \ {"reload", "close", "release", "forget"}
      BY <2>2 DEF Leased
    <2>4. TypeOK
      OBVIOUS
    <2> HIDE DEF MaintenanceExclusive, TypeInv, TypeOK, Goto, Supported
    <2> QED BY <2>1, <2>2, <2>3, <2>4, MaintenanceLeft
  <1>2. CASE Reload(p)
    <2>1. \A q \in Procs : run'[q].opts = run[q].opts
      BY SMT, <1>2 DEF Reload, RunType
    <2>2. status = "maintenance" /\ "maintenance" \notin run[p].opts
            => pc'[p] = "close"
      BY <1>2 DEF Reload, Gated, Provisionable
    <2> QED BY <1>2, <2>1, <2>2 DEF Reload
  <1>3. CASE Prov(p) \/ M4(p) \/ Create(p) \/ OpenShard(p)
    <2>1. status' = status /\ run' = run
      BY <1>3 DEF Prov, M4, Create, OpenShard, OnlyReads, rowVars
    <2>2. pc[p] \in Leased \ {"reload", "close", "release", "forget"}
      BY <1>3 DEF Prov, M4, Create, OpenShard, Leased
    <2>3. PICK l : Goto(p, l)
      BY <1>3 DEF Prov, M4, Create, OpenShard
    <2>4. TypeOK
      OBVIOUS
    <2> HIDE DEF MaintenanceExclusive, TypeInv, TypeOK, Goto, Supported
    <2> QED BY <2>1, <2>2, <2>3, <2>4, MaintenanceInside
  <1>4. CASE Plan(p)
    BY SMT, <1>4 DEF Plan, Leased, RunType
  <1>5. CASE CasExists(p) \/ Claim(p) \/ Activate(p) \/ CasFailed(p)
             \/ CasMissing(p)
    <2>1. TypeOK
      OBVIOUS
    <2> HIDE DEF MaintenanceExclusive, TypeInv, TypeOK, Goto, Supported
    <2>2. /\ status' = status \/ status' # "maintenance"
          /\ pc[p] \in Leased \ {"reload", "close", "release", "forget"}
          /\ run' = run
      BY <1>5 DEF CasExists, Claim, Activate, CasFailed, CasMissing, StatusCas,
                  CasWrites, Leased
    <2>3. PICK l : Goto(p, l)
      BY <1>5 DEF CasExists, Claim, Activate, CasFailed, CasMissing, StatusCas
    <2> QED BY <2>1, <2>2, <2>3, MaintenanceInside
  <1>6. CASE StmtStart(p) \/ StmtError(p) \/ RunDone(p)
    <2>1. CASE StmtStart(p)
      BY <2>1 DEF StmtStart, Leased
    <2>2. CASE StmtError(p)
      BY <2>2 DEF StmtError, Failure, Leased
    <2>3. CASE RunDone(p)
      BY <2>3 DEF RunDone, Leased
    <2> QED BY <1>6, <2>1, <2>2, <2>3
  <1>7. CASE StmtDone(p)
    BY SMT, <1>7 DEF StmtDone, Leased, RunType
  <1>8. CASE Verify(p) \/ Recheck(p) \/ Fail(p) \/ Upgrade(p) \/ Forget(p)
             \/ CloseShard(p)
    <2>1. TypeOK
      OBVIOUS
    <2> HIDE DEF MaintenanceExclusive, TypeInv, TypeOK, Goto, Supported
    <2>2. CASE Verify(p) \/ Recheck(p) \/ Fail(p) \/ Upgrade(p)
      <3>1. /\ status' = status
            /\ pc[p] \in Leased \ {"reload", "close", "release", "forget"}
            /\ run' = run
        BY <2>2 DEF Verify, Recheck, Fail, Upgrade, Leased
      <3>2. PICK l : Goto(p, l)
        BY <2>2 DEF Verify, Recheck, Fail, Upgrade
      <3> QED BY <2>1, <3>1, <3>2, MaintenanceInside
    <2>3. CASE Forget(p) \/ CloseShard(p)
      BY SMT, <2>3 DEF Forget, CloseShard, Leased, MaintenanceExclusive, TypeInv, TypeOK, Goto, Supported
    <2> QED BY <1>8, <2>2, <2>3
  <1>9. CASE LeaseRelease(p)
    BY <1>9 DEF LeaseRelease, Return, After, Leased
  <1> QED BY <1>1, <1>2, <1>3, <1>4, <1>5, <1>6, <1>7, <1>8, <1>9 DEF Process

\* MaintenanceExclusive is inductive relative to LeaseInv.
LEMMA MaintenanceStep ==
  ASSUME TypeInv, LeaseInv, MaintenanceExclusive, [Next]_vars
  PROVE  MaintenanceExclusive'
  <1> USE DEF MaintenanceExclusive, TypeInv, TypeOK, Goto, Supported
  <1>1. ASSUME NEW p \in Procs, Faulty(p) PROVE MaintenanceExclusive'
    <2>1. CASE UnleasedError(p) \/ ReleaseError(p) \/ Interrupt(p)
      <3>1. /\ status' = status
            /\ \A q \in Procs : q # p => run'[q] = run[q]
        BY <2>1 DEF UnleasedError, ReleaseError, Interrupt, Return, rowVars
      <3>2. PICK l \in {"close", "idle", "ended"} : Goto(p, l)
        BY <2>1 DEF UnleasedError, ReleaseError, Interrupt, Return, After
      <3>3. l \notin Leased \ {"reload", "close", "release", "forget"}
        BY <3>2 DEF Leased
      <3>4. TypeOK
        OBVIOUS
      <3> HIDE DEF MaintenanceExclusive, TypeInv, TypeOK, Goto, Supported
      <3> QED BY <3>1, <3>2, <3>3, <3>4, MaintenanceLeft
    <2>2. CASE ConnectionLost(p)
      BY <2>2 DEF ConnectionLost, LostAnswer, CasWrites, Leased
    <2>3. CASE ProvisionError(p)
      BY <2>3 DEF ProvisionError, Leased
    <2>4. CASE Crash(p)
      BY <2>4 DEF Crash, Leased
    <2> QED BY <1>1, <2>1, <2>2, <2>3, <2>4 DEF Faulty
  <1>2. ASSUME NEW p \in Procs, Start(p) \/ OrphanEnds(p)
        PROVE  MaintenanceExclusive'
    BY SMT, <1>2 DEF Start, OrphanEnds, Leased
  <1>3. ASSUME NEW o \in Operators, Operator(o) PROVE MaintenanceExclusive'
    <2>1. CASE FormSave(o)
      \* The lease row is locked: whoever is inside would still own the lease.
      <3>1. /\ UNCHANGED <<pc, run>>
            /\ status' = status \/ (status' = "maintenance" => leaseOwner = None \/ leaseExpired)
        BY <2>1 DEF FormSave, LeaseLock, LeaseFree, CasWrites
      <3>2. ASSUME Supported, NEW p \in Procs, Critical(p)
            PROVE  leaseOwner # None /\ ~leaseExpired
        BY <3>2, ConstantsAssumption DEF LeaseInv
      <3> QED BY <3>1, <3>2 DEF Critical
    <2>2. CASE ReleaseCheck(o) \/ ForceRelease(o) \/ FormClean(o)
               \/ Transition(o) \/ DeleteCheck(o) \/ Delete(o) \/ FormForget(o)
      BY <2>2
        DEF ReleaseCheck, ForceRelease, FormClean, Transition, DeleteCheck, Delete,
            FormForget
    <2> QED BY <1>3, <2>1, <2>2 DEF Operator
  <1>4. CASE World
    BY <1>4
      DEF World, MigrateShared, DropSchema, LoseSchema, Restore, LeaseExpire
  <1>5. CASE UNCHANGED vars
    BY <1>5 DEF vars
  <1> QED BY <1>1, <1>2, <1>3, <1>4, <1>5, MaintenanceProcess DEF Next

\* Section 14.2: no ordinary run works on a tenant that an operator has put into
\* MAINTENANCE; save_model's lock on the lease row closes the window between the
\* form's check and its write.
THEOREM MaintenanceSafe == Spec => []MaintenanceExclusive
  <1>1. Init => MaintenanceExclusive
    BY DEF Init, MaintenanceExclusive, Leased
  <1>2. TypeInv /\ LeaseInv /\ MaintenanceExclusive /\ [Next]_vars
          => MaintenanceExclusive'
    BY MaintenanceStep
  <1> QED BY <1>1, <1>2, LeaseInvariant, PTL DEF Spec

-----------------------------------------------------------------------------
(* The status lifecycle *)

\* A pending change of an operator is one the admin form offers.
FormsOK ==
    \A o \in Operators :
        form[o] # None /\ form[o].new # "deleted" =>
            <<form[o].old, form[o].new>> \in StatusTransitions

\* FormsOK is inductive relative to TypeInv.
LEMMA FormsStep ==
  ASSUME TypeInv, FormsOK, [Next]_vars
  PROVE  FormsOK'
  <1> USE DEF FormsOK, TypeInv, TypeOK
  <1>1. ASSUME NEW p \in Procs,
               Process(p) \/ Faulty(p) \/ Start(p) \/ OrphanEnds(p)
        PROVE form' = form
    <2>1. CASE Process(p)
      BY <2>1
        DEF Process, Load, Shortcut, LeaseProbe, LeaseTake, Reload, Prov, M4,
            CasExists, Claim, Create, OpenShard, Plan, StmtStart, StmtDone,
            StmtError, RunDone, Verify, Recheck, Activate, Fail, CasFailed,
            Upgrade, CasMissing, Forget, CloseShard, LeaseRelease, StatusCas
    <2>2. CASE Faulty(p) \/ Start(p) \/ OrphanEnds(p)
      BY <2>2
        DEF Faulty, UnleasedError, ConnectionLost, ProvisionError, Interrupt,
            ReleaseError, Crash, Start, OrphanEnds
    <2> QED BY <1>1, <2>1, <2>2
  <1>2. ASSUME NEW o \in Operators, Operator(o) PROVE FormsOK'
    <2>1. CASE FormClean(o)
      BY SMT, <2>1 DEF FormClean, MayChange
    <2>5. CASE Transition(o)
      BY SMT, <2>5 DEF Transition, Upgradable, StatusTransitions
    <2>2. CASE DeleteCheck(o)
      BY <2>2, SMTT(20) DEF DeleteCheck
    <2>3. CASE FormSave(o) \/ Delete(o) \/ FormForget(o)
      <3>1. form[o] \in FormType
        BY <2>3 DEF FormSave, Delete, FormForget, Checked
      <3>2. \/ form' = [form EXCEPT ![o] = None]
            \/ form' = [form EXCEPT ![o].saved = TRUE]
        BY <2>3 DEF FormSave, Delete, FormForget
      <3>3. /\ [form[o] EXCEPT !.saved = TRUE].old = form[o].old
            /\ [form[o] EXCEPT !.saved = TRUE].new = form[o].new
        BY <3>1 DEF FormType
      <3> QED BY <2>3, <3>2, <3>3 DEF FormSave, Delete, FormForget, Checked
    <2>4. CASE ReleaseCheck(o) \/ ForceRelease(o)
      BY <2>4 DEF ReleaseCheck, ForceRelease
    <2> QED BY <1>2, <2>1, <2>2, <2>3, <2>4, <2>5 DEF Operator
  <1>3. CASE World \/ UNCHANGED vars
    BY <1>3
      DEF World, MigrateShared, DropSchema, LoseSchema, Restore, LeaseExpire,
          vars
  <1> QED BY <1>1, <1>2, <1>3 DEF Next

\* Every step of the protocol is a lifecycle step or leaves the row alone.
LEMMA LifecycleStep ==
  ASSUME TypeInv, FormsOK, [Next]_vars
  PROVE  Lifecycle!Next \/ UNCHANGED rowVars
  <1> USE DEF Lifecycle!Next, Lifecycle!Claim, Lifecycle!Finish,
              Lifecycle!GiveUp, Lifecycle!Provisionable, Lifecycle!Upgradable,
              Provisionable, Upgradable, CasMatches, CasWrites
  <1>1. ASSUME NEW p \in Procs, Process(p)
        PROVE  Lifecycle!Next \/ UNCHANGED rowVars
    <2>1. CASE CasExists(p) \/ Claim(p) \/ Activate(p) \/ CasFailed(p)
      BY <2>1 DEF CasExists, Claim, Activate, CasFailed, StatusCas
    <2>2. CASE CasMissing(p)
      BY <2>2 DEF CasMissing, StatusCas, TypeInv, LocalsOK
    <2>3. CASE ~(CasExists(p) \/ Claim(p) \/ Activate(p) \/ CasFailed(p)
                 \/ CasMissing(p))
      BY <1>1, <2>3
        DEF Process, Load, Shortcut, LeaseProbe, LeaseTake, Reload, Prov, M4,
            Create, OpenShard, Plan, StmtStart, StmtDone, StmtError, RunDone,
            Verify, Recheck, Fail, Upgrade, Forget, CloseShard, LeaseRelease
    <2> QED BY <2>1, <2>2, <2>3
  <1>2. ASSUME NEW p \in Procs, Faulty(p)
        PROVE  Lifecycle!Next \/ UNCHANGED rowVars
    <2>1. CASE ConnectionLost(p)
      BY <2>1 DEF ConnectionLost, LostAnswer, TypeInv, LocalsOK
    <2>2. CASE ~ConnectionLost(p)
      BY <1>2, <2>2
        DEF Faulty, UnleasedError, ProvisionError, Interrupt, ReleaseError,
            Crash
    <2> QED BY <2>1, <2>2
  <1>3. ASSUME NEW o \in Operators, Operator(o)
        PROVE  Lifecycle!Next \/ UNCHANGED rowVars
    <2>1. CASE FormSave(o)
      BY <2>1
        DEF FormSave, Checked, FormsOK, StatusTransitions, Lifecycle!Operate,
            Lifecycle!OperatorMoves
    <2>2. CASE Delete(o)
      BY <2>2 DEF Delete, Lifecycle!Remove
    <2>3. CASE ~(FormSave(o) \/ Delete(o))
      BY <1>3, <2>3
        DEF Operator, ReleaseCheck, ForceRelease, FormClean, Transition, DeleteCheck,
            FormForget
    <2> QED BY <2>1, <2>2, <2>3
  <1>4. ASSUME NEW p \in Procs,
               Start(p) \/ OrphanEnds(p) PROVE UNCHANGED rowVars
    BY <1>4 DEF Start, OrphanEnds
  <1>5. CASE World \/ UNCHANGED vars
    BY <1>5
      DEF World, MigrateShared, DropSchema, LoseSchema, Restore, LeaseExpire,
          vars
  <1> QED BY <1>1, <1>2, <1>3, <1>4, <1>5 DEF Next

\* Migrator implements TenantLifecycle: leases, lost answers, crashes and
\* operators together still move the row only along the documented lifecycle.
THEOREM LifecycleImplemented == Spec => LifecycleKept
  <1>1. Init => Lifecycle!Init
    BY DEF Init, Lifecycle!Init
  <1>2. Init => FormsOK
    BY DEF Init, FormsOK
  <1>3. TypeInv /\ FormsOK /\ [Next]_vars => FormsOK'
    BY FormsStep
  <1>4. TypeInv /\ FormsOK /\ [Next]_vars => [Lifecycle!Next]_<<status, prev>>
    BY LifecycleStep
  <1> QED BY <1>1, <1>2, <1>3, <1>4, LeaseInvariant, PTL
            DEF Spec, LifecycleKept, Lifecycle!Spec

\* FormsOK is invariant.
LEMMA FormsInvariant == Spec => [](TypeInv /\ LeaseInv /\ FormsOK)
  <1>1. Init => FormsOK
    BY DEF Init, FormsOK
  <1>2. TypeInv /\ FormsOK /\ [Next]_vars => FormsOK'
    BY FormsStep
  <1> QED BY <1>1, <1>2, LeaseInvariant, PTL DEF Spec

-----------------------------------------------------------------------------
(* Statuses that belong to operators *)

\* I7: the compare-and-set writes of the migrator name only statuses that are not
\* the operators', so a FAILED or MAINTENANCE row waits for an operator.
THEOREM OperatorsDecide == Spec => OperatorStatusKept
  <1>1. TypeInv /\ [Next]_vars => [(status \in OperatorOwned /\ status' # status) => (pc' = pc)]_vars
    <2> SUFFICES ASSUME TypeInv, Next, status \in OperatorOwned, status' # status PROVE pc' = pc
      BY DEF vars
    <2> USE DEF OperatorOwned, CasMatches, CasWrites, Provisionable, Upgradable
    <2>1. ASSUME NEW p \in Procs, Process(p) PROVE FALSE
      <3>1. CASE CasExists(p) \/ Claim(p) \/ Activate(p) \/ CasFailed(p)
        BY <3>1 DEF CasExists, Claim, Activate, CasFailed, StatusCas
      <3>2. CASE CasMissing(p)
        BY <3>2 DEF CasMissing, StatusCas, TypeInv, LocalsOK
      <3>3. CASE ~(CasExists(p) \/ Claim(p) \/ Activate(p) \/ CasFailed(p) \/ CasMissing(p))
        BY <2>1, <3>3
          DEF Process, Load, Shortcut, LeaseProbe, LeaseTake, Reload, Prov, M4, Create,
              OpenShard, Plan, StmtStart, StmtDone, StmtError, RunDone, Verify, Recheck,
              Fail, Upgrade, Forget, CloseShard, LeaseRelease
      <3> QED BY <3>1, <3>2, <3>3
    <2>2. ASSUME NEW p \in Procs, Faulty(p) \/ Start(p) \/ OrphanEnds(p) PROVE FALSE
      <3>1. CASE ConnectionLost(p)
        BY <3>1 DEF ConnectionLost, LostAnswer, TypeInv, LocalsOK
      <3>2. CASE ~ConnectionLost(p)
        BY <2>2, <3>2
          DEF Faulty, UnleasedError, ProvisionError, Interrupt, ReleaseError, Crash, Start,
              OrphanEnds
      <3> QED BY <3>1, <3>2
    <2>3. ASSUME NEW o \in Operators, Operator(o) PROVE pc' = pc
      BY <2>3
        DEF Operator, ReleaseCheck, ForceRelease, FormClean, Transition, DeleteCheck, FormSave, Delete,
            FormForget
    <2>4. CASE World
      BY <2>4 DEF World, MigrateShared, DropSchema, LoseSchema, Restore, LeaseExpire
    <2> QED BY <2>1, <2>2, <2>3, <2>4 DEF Next
  <1> QED BY <1>1, LeaseInvariant, PTL DEF Spec, OperatorStatusKept

-----------------------------------------------------------------------------
(* Invalidations *)

\* ForgetOwed is inductive: a status write owes forget_tenant, and only the call
\* itself takes its writer past it.
LEMMA ForgetStep ==
  ASSUME TypeInv, ForgetOwed, [Next]_vars
  PROVE  ForgetOwed'
  <1>0. /\ faults \in Nat /\ pc \in [Procs -> Unleased \cup Leased \cup Resting]
        /\ form \in [Operators -> FormType \cup {None}]
    BY SMT, ConstantsAssumption DEF TypeInv, TypeOK
  <1>1. ASSUME faults' = faults + 1 PROVE ForgetOwed'
    <2>1. faults' # 0
      BY SMT, <1>0, <1>1
    <2> QED BY <2>1 DEF ForgetOwed
  <1>2. ASSUME NEW p \in Procs, NEW l, Goto(p, l), pc[p] # "forget", UNCHANGED <<form, stale, faults>>
        PROVE  ForgetOwed'
    BY <1>0, <1>2 DEF ForgetOwed, Goto
  <1>3. ASSUME NEW p \in Procs, Goto(p, "forget") PROVE ForgetOwed'
    BY <1>0, <1>3 DEF ForgetOwed, Goto
  <1>4. ASSUME NEW p \in Procs, Process(p) PROVE ForgetOwed'
    <2>1. CASE Load(p) \/ Shortcut(p) \/ LeaseProbe(p) \/ LeaseTake(p)
      BY <1>2, <2>1 DEF Load, Shortcut, LeaseProbe, LeaseTake, Return
    <2>2. CASE Reload(p) \/ Prov(p) \/ M4(p) \/ Create(p) \/ OpenShard(p) \/ Plan(p)
      BY <1>2, <2>2 DEF Reload, Prov, M4, Create, OpenShard, Plan
    <2>3. CASE CasExists(p) \/ Claim(p) \/ Activate(p) \/ CasFailed(p) \/ CasMissing(p)
      <3>1. pc[p] # "forget" /\ UNCHANGED <<form, faults>>
        BY <2>3 DEF CasExists, Claim, Activate, CasFailed, CasMissing, StatusCas
      <3>2. Goto(p, "forget") \/ (UNCHANGED stale /\ (Goto(p, "close") \/ Goto(p, "create")))
        BY <2>3 DEF CasExists, Claim, Activate, CasFailed, CasMissing, StatusCas
      <3> QED BY <1>2, <1>3, <3>1, <3>2
    <2>4. CASE StmtStart(p) \/ StmtDone(p) \/ RunDone(p)
      BY <1>2, <2>4 DEF StmtStart, StmtDone, RunDone
    <2>5. CASE StmtError(p)
      BY <1>1, <1>2, <2>5 DEF StmtError, Fault
    <2>6. CASE Verify(p) \/ Recheck(p) \/ Fail(p) \/ Upgrade(p) \/ CloseShard(p) \/ LeaseRelease(p)
      BY <1>2, <2>6 DEF Verify, Recheck, Fail, Upgrade, CloseShard, LeaseRelease, Return
    <2>7. CASE Forget(p)
      BY <2>7 DEF Forget, ForgetOwed
    <2> QED BY <1>4, <2>1, <2>2, <2>3, <2>4, <2>5, <2>6, <2>7 DEF Process
  <1>5. ASSUME NEW p \in Procs, Faulty(p) PROVE ForgetOwed'
    BY <1>1, <1>5
      DEF Faulty, UnleasedError, ConnectionLost, ProvisionError, Interrupt, ReleaseError,
          Crash, Fault
  <1>6. ASSUME NEW p \in Procs, Start(p) PROVE ForgetOwed'
    BY <1>2, <1>6 DEF Start
  <1>7. ASSUME NEW o \in Operators, Operator(o) PROVE ForgetOwed'
    <2>1. CASE ReleaseCheck(o) \/ ForceRelease(o)
      BY <2>1 DEF ReleaseCheck, ForceRelease, ForgetOwed
    <2>2. CASE FormClean(o) \/ Transition(o) \/ DeleteCheck(o)
      <3>1. /\ form[o] = None /\ UNCHANGED <<pc, stale, faults>>
            /\ \E f : form' = [form EXCEPT ![o] = f]
        BY <2>2 DEF FormClean, Transition, DeleteCheck
      <3> QED BY <1>0, <3>1 DEF ForgetOwed
    <2>3. CASE FormSave(o) \/ Delete(o)
      <3>1. form[o] \in FormType /\ ~form[o].saved /\ UNCHANGED <<pc, faults>>
        BY <1>0, <2>3 DEF FormSave, Delete, Checked
      <3>2. \/ form' = [form EXCEPT ![o].saved = TRUE]
            \/ form' = [form EXCEPT ![o] = None] /\ UNCHANGED stale
        BY <2>3 DEF FormSave, Delete
      <3>3. CASE form' = [form EXCEPT ![o].saved = TRUE]
        <4>1. form'[o] = [form[o] EXCEPT !.saved = TRUE]
          BY <1>0, <3>3
        <4>2. form'[o].saved /\ form'[o] \in FormType
          BY <3>1, <4>1 DEF FormType
        <4>3. form'[o] # None
          BY <4>2, NoForm
        <4> QED BY <4>2, <4>3 DEF ForgetOwed
      <3>4. CASE form' = [form EXCEPT ![o] = None] /\ UNCHANGED stale
        BY <1>0, <3>1, <3>4 DEF ForgetOwed
      <3> QED BY <3>2, <3>3, <3>4
    <2>4. CASE FormForget(o)
      BY <2>4 DEF FormForget, ForgetOwed
    <2> QED BY <1>7, <2>1, <2>2, <2>3, <2>4 DEF Operator
  <1>8. ASSUME UNCHANGED <<pc, form, stale>>, faults' = faults \/ faults' = faults + 1
        PROVE  ForgetOwed'
    BY <1>1, <1>8 DEF ForgetOwed
  <1>9. ASSUME NEW p \in Procs, OrphanEnds(p) PROVE ForgetOwed'
    BY <1>8, <1>9 DEF OrphanEnds
  <1>10. CASE World
    BY <1>8, <1>10
      DEF World, MigrateShared, DropSchema, LoseSchema, Restore, LeaseExpire, Fault
  <1>11. CASE UNCHANGED vars
    BY <1>8, <1>11 DEF vars
  <1> QED BY <1>4, <1>5, <1>6, <1>7, <1>9, <1>10, <1>11 DEF Next

\* I3: without faults no visible status write stays without its invalidation.
THEOREM ForgetsFollow == Spec => []ForgetOwed
  <1>1. Init => ForgetOwed
    BY DEF Init, ForgetOwed
  <1>2. TypeInv /\ ForgetOwed /\ [Next]_vars => ForgetOwed'
    BY ForgetStep
  <1> QED BY <1>1, <1>2, LeaseInvariant, PTL DEF Spec

-----------------------------------------------------------------------------
(* Schemas of unknown origin *)

\* NoSilentAdoption is not inductive: a run may be on its way to the schema.  While
\* nobody has looked at a foreign schema, the row is NEW as it was created or FAILED,
\* and every run inside has read it so and is being turned away.
Unvetted ==
    schema = "foreign" /\ ~vetted =>
        /\ status \in {"new", "failed", "deleted"}
        /\ status = "new" => prev = "new"
        /\ \A p \in Procs :
              /\ pc[p] \in Leased => pc[p] \in {"reload", "prov", "m4", "casExists", "forget",
                                                "close", "release"}
              /\ pc[p] \in {"prov", "m4"} => run[p].status = "new" /\ run[p].prev = "new"

\* A run elsewhere inside shows that the schema is not foreign, or was looked at.
LEMMA VettedInside ==
  ASSUME Unvetted, NEW p \in Procs,
         pc[p] \in Leased \ {"reload", "prov", "m4", "casExists", "forget", "close", "release"},
         schema' = "foreign" => schema = "foreign", vetted' = vetted
  PROVE  Unvetted'
  BY DEF Unvetted

\* A run that stays among the harmless statements, or leaves.
LEMMA UnvettedMove ==
  ASSUME TypeInv, Unvetted, NEW p \in Procs, UNCHANGED <<rowVars, schema, vetted>>,
         NEW l, Goto(p, l), \A q \in Procs : q # p => run'[q] = run[q],
         schema = "foreign" /\ ~vetted =>
            \/ l \notin Leased \/ l \in {"reload", "casExists", "forget", "close", "release"}
            \/ l \in {"prov", "m4"} /\ run'[p].status = "new" /\ run'[p].prev = "new"
  PROVE  Unvetted'
  <1>1. pc \in [Procs -> Unleased \cup Leased \cup Resting] /\ pc' = [pc EXCEPT ![p] = l]
    BY DEF TypeInv, TypeOK, Goto
  <1>2. l \in {"prov", "m4"} => l \in Leased
    BY DEF Leased
  <1> QED BY <1>1, <1>2 DEF Unvetted

\* M4 turns every run away that read the row as it was created.
LEMMA UnvettedProcess ==
  ASSUME TypeInv, Unvetted, NEW p \in Procs, Process(p)
  PROVE  Unvetted'
  <1> DEFINE Inside == Leased \ {"reload", "prov", "m4", "casExists", "forget", "close", "release"}
  <1>1. CASE Load(p) \/ Shortcut(p) \/ LeaseProbe(p) \/ LeaseTake(p)
    <2>1. /\ UNCHANGED <<rowVars, schema, vetted>>
          /\ \A q \in Procs : q # p => run'[q] = run[q]
      BY <1>1 DEF Load, Shortcut, LeaseProbe, LeaseTake, Return, TypeInv, TypeOK
    <2>2. PICK l \in {"shortcut", "probe", "take", "reload", "idle", "ended"} : Goto(p, l)
      BY <1>1 DEF Load, Shortcut, LeaseProbe, LeaseTake, Return, After
    <2>3. l \notin Leased \/ l = "reload"
      BY <2>2 DEF Leased
    <2> QED BY <2>1, <2>2, <2>3, UnvettedMove
  <1>2. CASE Reload(p)
    <2>1. /\ run \in [Procs -> RunType] /\ status \in RowStates /\ prev \in Statuses
          /\ run' = [run EXCEPT ![p].status = status, ![p].prev = prev]
      BY <1>2 DEF TypeInv, TypeOK, Reload
    <2>2. run'[p].status = status /\ run'[p].prev = prev /\ \A q \in Procs : q # p => run'[q] = run[q]
      BY <2>1 DEF RunType
    <2>3. PICK l \in {"close", "prov", "upg"} :
            /\ Goto(p, l)
            /\ l # "close" => status \notin {"deleted", "failed"}
            /\ l = "upg" => status \notin Provisionable
      <3>1. CASE status = "deleted" \/ Gated(status, run[p].opts)
        <4>1. status \notin Provisionable
          BY <3>1 DEF Gated, Provisionable
        <4>2. Goto(p, "close")
          BY <1>2, <3>1, <4>1 DEF Reload
        <4> QED BY <4>2
      <3>2. CASE ~(status = "deleted" \/ Gated(status, run[p].opts)) /\ status \in Provisionable
        <4>1. Goto(p, "prov") /\ status \notin {"deleted", "failed"}
          BY <1>2, <3>2 DEF Reload, Gated
        <4> QED BY <4>1
      <3>3. CASE ~(status = "deleted" \/ Gated(status, run[p].opts)) /\ status \notin Provisionable
        <4>1. Goto(p, "upg") /\ status \notin {"deleted", "failed"}
          BY <1>2, <3>3 DEF Reload, Gated
        <4> QED BY <3>3, <4>1
      <3> QED BY <3>1, <3>2, <3>3
    <2>4. schema = "foreign" /\ ~vetted =>
            l = "close" \/ (l = "prov" /\ run'[p].status = "new" /\ run'[p].prev = "new")
      BY <2>2, <2>3 DEF Unvetted, Provisionable
    <2> QED BY <1>2, <2>2, <2>3, <2>4, UnvettedMove DEF Reload
  <1>3. CASE Prov(p) \/ M4(p)
    <2>1. UNCHANGED <<rowVars, schema, vetted, run>>
      BY <1>3 DEF Prov, M4
    <2>2. PICK l \in {"close", "m4", "casExists", "claim"} :
            /\ Goto(p, l)
            /\ l = "claim" => ~(run[p].status = "new" /\ run[p].prev # "failed" /\ HasRelations)
      BY <1>3 DEF Prov, M4
    <2>3. schema = "foreign" /\ ~vetted => run[p].status = "new" /\ run[p].prev = "new"
      BY <1>3 DEF Unvetted, Prov, M4
    <2>4. schema = "foreign" => HasRelations
      BY DEF HasRelations
    <2> QED BY <2>1, <2>2, <2>3, <2>4, UnvettedMove
  <1>4. CASE CasExists(p)
    <2>1. CASE UNCHANGED rowVars
      <3>1. (Goto(p, "close") \/ Goto(p, "forget")) /\ UNCHANGED <<schema, vetted, run>>
        BY <1>4 DEF CasExists, StatusCas
      <3> QED BY <2>1, <3>1, UnvettedMove
    <2>2. CASE ~UNCHANGED rowVars
      <3>1. status' = "failed" /\ Goto(p, "forget") /\ UNCHANGED <<schema, vetted, run>>
        BY <1>4, <2>2 DEF CasExists, StatusCas, CasWrites
      <3> QED BY <3>1 DEF Unvetted, Goto, TypeInv, TypeOK
    <2> QED BY <2>1, <2>2
  <1>5. CASE Claim(p) \/ Create(p) \/ OpenShard(p) \/ Plan(p)
    <2>1. pc[p] \in Inside
      BY <1>5 DEF Claim, StatusCas, Create, OpenShard, Plan, Leased
    <2>2. (schema' = "foreign" => schema = "foreign") /\ vetted' = vetted
      BY <1>5 DEF Claim, StatusCas, Create, OpenShard, Plan
    <2> QED BY <2>1, <2>2, VettedInside
  <1>6. CASE StmtStart(p) \/ StmtDone(p) \/ StmtError(p) \/ RunDone(p)
    <2>1. pc[p] \in Inside
      BY <1>6 DEF StmtStart, StmtDone, StmtError, RunDone, Leased
    <2>2. UNCHANGED <<schema, vetted>>
      BY <1>6 DEF StmtStart, StmtDone, StmtError, RunDone
    <2> QED BY <2>1, <2>2, VettedInside
  <1>7. CASE Verify(p) \/ Recheck(p) \/ Activate(p) \/ Fail(p) \/ CasFailed(p) \/ Upgrade(p)
             \/ CasMissing(p)
    <2>1. pc[p] \in Inside
      BY <1>7
        DEF Verify, Recheck, Activate, Fail, CasFailed, Upgrade, CasMissing, StatusCas, Leased
    <2>2. UNCHANGED <<schema, vetted>>
      BY <1>7 DEF Verify, Recheck, Activate, Fail, CasFailed, Upgrade, CasMissing, StatusCas
    <2> QED BY <2>1, <2>2, VettedInside
  <1>8. CASE Forget(p) \/ CloseShard(p) \/ LeaseRelease(p)
    <2>1. /\ UNCHANGED <<rowVars, schema, vetted>>
          /\ \A q \in Procs : q # p => run'[q] = run[q]
      BY <1>8 DEF Forget, CloseShard, LeaseRelease, Return, TypeInv, TypeOK
    <2>2. PICK l \in {"close", "release", "idle", "ended"} : Goto(p, l)
      BY <1>8 DEF Forget, CloseShard, LeaseRelease, Return, After
    <2>3. l \notin Leased \/ l \in {"close", "release"}
      BY <2>2 DEF Leased
    <2> QED BY <2>1, <2>2, <2>3, UnvettedMove
  <1> QED BY <1>1, <1>2, <1>3, <1>4, <1>5, <1>6, <1>7, <1>8 DEF Process

\* Faults, operators and the world.
LEMMA UnvettedStep ==
  ASSUME TypeInv, FormsOK, Unvetted, [Next]_vars
  PROVE  Unvetted'
  <1>1. ASSUME NEW p \in Procs, Faulty(p) PROVE Unvetted'
    <2>1. CASE UnleasedError(p) \/ ReleaseError(p) \/ Crash(p)
      <3>1. /\ UNCHANGED <<rowVars, schema, vetted>>
            /\ \A q \in Procs : q # p => run'[q] = run[q]
        BY <2>1 DEF UnleasedError, ReleaseError, Crash, Return, TypeInv, TypeOK
      <3>2. PICK l \in {"idle", "ended", "dead"} : Goto(p, l)
        BY <2>1 DEF UnleasedError, ReleaseError, Crash, Return, After
      <3>3. l \notin Leased
        BY <3>2 DEF Leased
      <3> QED BY <3>1, <3>2, <3>3, UnvettedMove
    <2>2. CASE ConnectionLost(p) /\ UNCHANGED rowVars
      BY <2>2, UnvettedMove DEF ConnectionLost
    <2>3. CASE ConnectionLost(p) /\ pc[p] = "casExists" /\ ~UNCHANGED rowVars
      <3>1. status' = "failed" /\ Goto(p, "close") /\ UNCHANGED <<schema, vetted, run>>
        BY <2>3 DEF ConnectionLost, LostAnswer, CasWrites
      <3> QED BY <3>1 DEF Unvetted, Goto, TypeInv, TypeOK
    <2>4. CASE ConnectionLost(p) /\ pc[p] # "casExists" /\ ~UNCHANGED rowVars
      <3>1. pc[p] \in {"claim", "activate", "casFailed", "casMissing"} /\ UNCHANGED <<schema, vetted>>
        BY <2>4 DEF ConnectionLost, LostAnswer
      <3> QED BY <3>1, VettedInside DEF Leased
    <2>5. CASE ProvisionError(p) \/ Interrupt(p)
      <3>1. /\ pc[p] \in {"create", "open", "plan", "run", "verify", "recheck", "activate", "stmt"}
            /\ UNCHANGED <<schema, vetted>>
        BY <2>5 DEF ProvisionError, Interrupt
      <3> QED BY <3>1, VettedInside DEF Leased
    <2> QED BY <1>1, <2>1, <2>2, <2>3, <2>4, <2>5 DEF Faulty
  <1>2. ASSUME NEW p \in Procs, Start(p) PROVE Unvetted'
    <2>1. "load" \notin Leased
      BY DEF Leased
    <2>2. \A q \in Procs : q # p => run'[q] = run[q]
      BY <1>2 DEF Start, TypeInv, TypeOK
    <2> QED BY <1>2, <2>1, <2>2, UnvettedMove DEF Start
  <1>3. ASSUME NEW o \in Operators, Operator(o) PROVE Unvetted'
    <2>1. CASE FormSave(o)
      <3>1. form[o] \in FormType /\ form[o].new # "deleted" /\ form[o] # None
        BY <2>1 DEF FormSave, Checked, TypeInv, TypeOK
      <3>2. CASE UNCHANGED rowVars /\ UNCHANGED vetted
        BY <2>1, <3>2 DEF FormSave, Unvetted
      <3>3. CASE status = form[o].old /\ vetted' = IF form[o].old \in OperatorOwned THEN TRUE ELSE vetted
        <4>1. <<status, form[o].new>> \in StatusTransitions
          BY <3>1, <3>3 DEF FormsOK
        <4>2. status # "new" /\ status # "deleted"
          BY <4>1 DEF StatusTransitions
        <4>3. status = "failed" => vetted'
          BY <3>3 DEF OperatorOwned
        <4>4. vetted => vetted'
          BY <3>3
        <4> QED BY <2>1, <4>2, <4>3, <4>4 DEF Unvetted, FormSave
      <3> QED BY <2>1, <3>2, <3>3 DEF FormSave
    <2>2. CASE Delete(o)
      BY <2>2 DEF Delete, Unvetted
    <2>3. CASE ~(FormSave(o) \/ Delete(o))
      BY <1>3, <2>3
        DEF Operator, ReleaseCheck, ForceRelease, FormClean, Transition, DeleteCheck, FormForget, Unvetted
    <2> QED BY <2>1, <2>2, <2>3
  <1>4. ASSUME UNCHANGED <<rowVars, pc, run>>, vetted => vetted', schema' = "foreign" => schema = "foreign"
        PROVE  Unvetted'
    BY <1>4 DEF Unvetted
  <1>5. ASSUME NEW p \in Procs, OrphanEnds(p) PROVE Unvetted'
    BY <1>4, <1>5 DEF OrphanEnds
  <1>6. CASE World \/ UNCHANGED vars
    <2>1. CASE MigrateShared \/ LeaseExpire \/ UNCHANGED vars
      BY SMT, <1>4, <2>1 DEF MigrateShared, LeaseExpire, vars
    <2>2. CASE DropSchema \/ LoseSchema
      BY <1>4, <2>2 DEF DropSchema, LoseSchema
    <2>3. CASE Restore
      BY <1>4, <2>3 DEF Restore
    <2> QED BY <1>6, <2>1, <2>2, <2>3 DEF World
  <1> QED BY <1>1, <1>2, <1>3, <1>5, <1>6, UnvettedProcess DEF Next

\* M4: no run touches a schema of unknown origin before an operator has looked at it.
THEOREM AdoptionSeen == Spec => []NoSilentAdoption
  <1>1. Init => Unvetted
    BY DEF Init, Unvetted, Leased
  <1>2. TypeInv /\ FormsOK /\ Unvetted /\ [Next]_vars => Unvetted'
    BY UnvettedStep
  <1>3. Unvetted => NoSilentAdoption
    BY DEF Unvetted, NoSilentAdoption, Leased
  <1> QED BY <1>1, <1>2, <1>3, FormsInvariant, PTL DEF Spec

-----------------------------------------------------------------------------
(* Activation *)

\* A process started with no targeted options runs none.
OptsOK == Untargeted => \A p \in Procs : ~Targeted(p)

\* The plan that Verify read is still the plan when Activate compares and sets: as
\* long as the row is PENDING and the lease is held nobody takes a migration away.
CurrentInv ==
    Supported \/ Untargeted =>
        \A p \in Procs :
            leaseOwner = p /\ pc[p] \in {"recheck", "activate"} /\ status = "pending" =>
                UpToDate(code[p])

\* Options are set when a run starts and cleared when it returns.
LEMMA OptsStep ==
  ASSUME TypeInv, OptsOK, [Next]_vars
  PROVE  OptsOK'
  <1>0. run \in [Procs -> RunType] /\ BlankRun.opts = {}
    BY DEF TypeInv, TypeOK, BlankRun
  <1>1. ASSUME \A q \in Procs : run'[q].opts \in {run[q].opts, {}} \cup RunOptions PROVE OptsOK'
    BY <1>1 DEF OptsOK, Targeted, Untargeted
  <1>2. ASSUME UNCHANGED run PROVE OptsOK'
    BY <1>2 DEF OptsOK, Targeted, Untargeted
  <1>3. ASSUME NEW p \in Procs, run' = [run EXCEPT ![p] = BlankRun] PROVE OptsOK'
    <2>1. \A q \in Procs : run'[q].opts \in {run[q].opts, {}}
      BY <1>0, <1>3
    <2> QED BY <1>1, <2>1
  <1>4. ASSUME NEW p \in Procs, Process(p) PROVE OptsOK'
    <2>1. CASE Load(p) \/ Shortcut(p) \/ LeaseProbe(p) \/ LeaseTake(p) \/ LeaseRelease(p)
      BY <1>2, <1>3, <2>1 DEF Load, Shortcut, LeaseProbe, LeaseTake, LeaseRelease, Return
    <2>2. CASE Reload(p)
      <3>1. \A q \in Procs : run'[q].opts = run[q].opts
        BY <1>0, <2>2 DEF Reload, RunType
      <3> QED BY <1>1, <3>1
    <2>3. CASE Plan(p) \/ StmtDone(p)
      <3>1. PICK m : run' = [run EXCEPT ![p].mig = m]
        BY <2>3 DEF Plan, StmtDone
      <3>2. \A q \in Procs : run'[q].opts = run[q].opts
        BY <1>0, <3>1 DEF RunType
      <3> QED BY <1>1, <3>2
    <2>4. CASE Prov(p) \/ M4(p) \/ CasExists(p) \/ Claim(p) \/ Create(p) \/ OpenShard(p)
               \/ StmtStart(p) \/ StmtError(p) \/ RunDone(p)
      BY <1>2, <2>4
        DEF Prov, M4, CasExists, Claim, StatusCas, Create, OpenShard, StmtStart, StmtError, RunDone
    <2>5. CASE Verify(p) \/ Recheck(p) \/ Activate(p) \/ Fail(p) \/ CasFailed(p) \/ Upgrade(p)
               \/ CasMissing(p) \/ Forget(p) \/ CloseShard(p)
      BY <1>2, <2>5
        DEF Verify, Recheck, Activate, Fail, CasFailed, Upgrade, CasMissing, StatusCas, Forget,
            CloseShard
    <2> QED BY <1>4, <2>1, <2>2, <2>3, <2>4, <2>5 DEF Process
  <1>5. ASSUME NEW p \in Procs, Faulty(p) PROVE OptsOK'
    BY <1>2, <1>3, <1>5
      DEF Faulty, UnleasedError, ConnectionLost, ProvisionError, Interrupt, ReleaseError, Crash,
          Return
  <1>6. ASSUME NEW p \in Procs, Start(p) PROVE OptsOK'
    <2>1. PICK opts \in RunOptions : run' = [run EXCEPT ![p].opts = opts]
      BY <1>6 DEF Start
    <2>2. \A q \in Procs : run'[q].opts \in {run[q].opts, opts}
      BY <1>0, <2>1 DEF RunType
    <2> QED BY <1>1, <2>2
  <1>7. ASSUME NEW o \in Operators, Operator(o) PROVE UNCHANGED run
    BY <1>7
      DEF Operator, ReleaseCheck, ForceRelease, FormClean, Transition, DeleteCheck, FormSave, Delete, FormForget
  <1>8. CASE World \/ UNCHANGED vars \/ \E p \in Procs : OrphanEnds(p)
    BY <1>2, <1>8
      DEF World, MigrateShared, DropSchema, LoseSchema, Restore, LeaseExpire, OrphanEnds, vars
  <1> QED BY <1>2, <1>4, <1>5, <1>6, <1>7, <1>8 DEF Next

\* A step of one process that ends outside the last two statements, takes no lease
\* for another and no migration away.
LEMMA CurrentMove ==
  ASSUME TypeInv, CurrentInv, NEW p \in Procs, NEW l, Goto(p, l), l \notin {"recheck", "activate"},
         UNCHANGED code, leaseOwner' \in {leaseOwner, p, None},
         status' = "pending" => status = "pending" \/ leaseOwner' = p,
         schema # "missing" => schema' # "missing" /\ applied' \in Nat /\ applied' >= applied
  PROVE  CurrentInv'
  <1>1. /\ pc \in [Procs -> Unleased \cup Leased \cup Resting] /\ code \in [Procs -> Nat]
        /\ applied \in Nat
    BY SMT, ConstantsAssumption DEF TypeInv, TypeOK, Releases
  <1>2. SUFFICES ASSUME Supported \/ Untargeted, NEW q \in Procs, leaseOwner' = q,
                        pc'[q] \in {"recheck", "activate"}, status' = "pending"
                 PROVE  UpToDate(code[q])'
    BY DEF CurrentInv, Supported, Untargeted
  <1>3. q # p /\ pc'[q] = pc[q] /\ code'[q] = code[q]
    BY <1>1, <1>2 DEF Goto
  <1>4. leaseOwner = q /\ status = "pending"
    BY <1>2, <1>3, ConstantsAssumption
  <1>5. schema # "missing" /\ applied >= code[q]
    BY <1>2, <1>3, <1>4 DEF CurrentInv, UpToDate
  <1>6. code[q] \in Nat
    BY <1>1
  <1> QED BY SMT, <1>1, <1>3, <1>5, <1>6 DEF UpToDate

\* Under the lease no process takes a migration away from the one that verified.
LEMMA CurrentProcess ==
  ASSUME TypeInv, LeaseInv, OptsOK, CurrentInv, NEW p \in Procs, Process(p)
  PROVE  CurrentInv'
  <1>0. applied \in Nat /\ run \in [Procs -> RunType]
    BY SMT, ConstantsAssumption DEF TypeInv, TypeOK
  <1>1. CASE Load(p) \/ Shortcut(p) \/ LeaseProbe(p) \/ LeaseTake(p) \/ Forget(p) \/ CloseShard(p)
             \/ LeaseRelease(p)
    <2>1. PICK l \in {"shortcut", "probe", "take", "reload", "close", "release", "idle", "ended"} :
            Goto(p, l)
      BY <1>1
        DEF Load, Shortcut, LeaseProbe, LeaseTake, Forget, CloseShard, LeaseRelease, Return, After
    <2>2. UNCHANGED <<status, schema, applied, code>> /\ leaseOwner' \in {leaseOwner, p, None}
      BY <1>1 DEF Load, Shortcut, LeaseProbe, LeaseTake, Forget, CloseShard, LeaseRelease, FreeLease
    <2> QED BY SMT, <1>0, <2>1, <2>2, CurrentMove
  <1>2. CASE Reload(p) \/ Prov(p) \/ M4(p) \/ Upgrade(p) \/ OpenShard(p) \/ Plan(p) \/ RunDone(p)
    <2>1. PICK l \in {"close", "prov", "upg", "m4", "casExists", "claim", "casMissing", "open",
                      "plan", "run", "verify"} : Goto(p, l)
      <3>1. CASE Reload(p)
        BY <3>1 DEF Reload
      <3>2. CASE Upgrade(p)
        BY <3>2 DEF Upgrade
      <3> QED BY <1>2, <3>1, <3>2 DEF Prov, M4, OpenShard, Plan, RunDone
    <2>2. UNCHANGED <<status, schema, applied, code, leaseOwner>>
      BY <1>2 DEF Reload, Prov, M4, Upgrade, OpenShard, Plan, RunDone
    <2> QED BY SMT, <1>0, <2>1, <2>2, CurrentMove
  <1>3. CASE CasExists(p) \/ Claim(p) \/ Activate(p) \/ CasFailed(p) \/ CasMissing(p)
    <2>1. PICK l \in {"forget", "create", "close"} : Goto(p, l)
      BY <1>3 DEF CasExists, Claim, Activate, CasFailed, CasMissing, StatusCas
    <2>2. /\ UNCHANGED <<schema, applied, code, leaseOwner>>
          /\ status' = status \/ leaseOwner = p
      BY <1>3 DEF CasExists, Claim, Activate, CasFailed, CasMissing, StatusCas, CasMatches
    <2> QED BY SMT, <1>0, <2>1, <2>2, CurrentMove
  <1>4. CASE Create(p)
    <2>1. /\ Goto(p, "open") /\ UNCHANGED <<status, code, leaseOwner>>
          /\ schema # "missing" => UNCHANGED <<schema, applied>>
      BY <1>4 DEF Create, SchemaMissing
    <2> QED BY SMT, <1>0, <2>1, CurrentMove
  <1>5. CASE StmtStart(p) \/ StmtError(p) \/ Fail(p)
    <2>1. PICK l \in {"stmt", "fail", "close", "casFailed"} : Goto(p, l)
      BY <1>5 DEF StmtStart, StmtError, Fail, Failure
    <2>2. UNCHANGED <<status, schema, applied, code, leaseOwner>>
      BY <1>5 DEF StmtStart, StmtError, Fail
    <2> QED BY SMT, <1>0, <2>1, <2>2, CurrentMove
  <1>6. CASE StmtDone(p)
    <2>1. Goto(p, "run") /\ UNCHANGED <<status, schema, code, leaseOwner>>
      BY <1>6 DEF StmtDone
    <2>2. CASE Targeted(p) /\ Supported
      <3>1. leaseOwner = p
        BY <1>6, <2>2 DEF LeaseInv, Critical, Leased, StmtDone
      <3> QED BY <2>1, <3>1 DEF CurrentInv, Goto, TypeInv, TypeOK
    <2>3. CASE ~Targeted(p)
      <3>1. run[p].mig \in Int /\ applied = run[p].mig - 1 /\ applied' = run[p].mig
        BY SMT, <1>0, <1>6, <2>3, ConstantsAssumption DEF StmtDone, Applicable, RunType
      <3>2. applied' \in Nat /\ applied' >= applied
        BY SMT, <1>0, <3>1
      <3> QED BY <2>1, <3>2, CurrentMove
    <2>4. CASE ~(Supported \/ Untargeted)
      BY <2>4 DEF CurrentInv, Supported, Untargeted
    <2> QED BY <2>2, <2>3, <2>4 DEF OptsOK
  <1>7. CASE Verify(p)
    <2>1. CASE UpToDate(code[p])
      <3>1. Goto(p, "recheck") /\ UNCHANGED <<status, schema, applied, code, leaseOwner>>
        BY <1>7, <2>1 DEF Verify
      <3> QED BY <2>1, <3>1 DEF CurrentInv, UpToDate, Goto, TypeInv, TypeOK
    <2>2. CASE ~UpToDate(code[p])
      <3>1. Goto(p, "fail") /\ UNCHANGED <<status, schema, applied, code, leaseOwner>>
        BY <1>7, <2>2 DEF Verify
      <3> QED BY SMT, <1>0, <3>1, CurrentMove
    <2> QED BY <2>1, <2>2
  <1>8. CASE Recheck(p)
    <2>1. /\ pc[p] = "recheck" /\ (Goto(p, "close") \/ Goto(p, "activate"))
          /\ UNCHANGED <<status, schema, applied, code, leaseOwner>>
      BY <1>8 DEF Recheck
    <2> QED BY <2>1 DEF CurrentInv, UpToDate, Goto, TypeInv, TypeOK
  <1> QED BY <1>1, <1>2, <1>3, <1>4, <1>5, <1>6, <1>7, <1>8 DEF Process

\* Operators have no transition from or to PENDING, and the world spares it.
LEMMA CurrentStep ==
  ASSUME TypeInv, LeaseInv, FormsOK, OptsOK, CurrentInv, [Next]_vars
  PROVE  CurrentInv'
  <1>0. applied \in Nat
    BY SMT, ConstantsAssumption DEF TypeInv, TypeOK
  <1>1. ASSUME NEW p \in Procs, Faulty(p) PROVE CurrentInv'
    <2>1. PICK l \in {"idle", "ended", "dead", "close", "fail"} : Goto(p, l)
      BY <1>1
        DEF Faulty, UnleasedError, ConnectionLost, ProvisionError, Interrupt, ReleaseError, Crash,
            Return, After
    <2>2. UNCHANGED <<schema, applied, code>>
      BY <1>1
        DEF Faulty, UnleasedError, ConnectionLost, ProvisionError, Interrupt, ReleaseError, Crash
    <2>3. /\ leaseOwner' \in {leaseOwner, p}
          /\ status' = status \/ leaseOwner' = p
      <3>1. CASE ConnectionLost(p)
        BY <3>1 DEF ConnectionLost, LostAnswer, CasMatches
      <3>2. CASE ~ConnectionLost(p)
        BY <1>1, <3>2
          DEF Faulty, UnleasedError, ProvisionError, Interrupt, ReleaseError, Crash
      <3> QED BY <3>1, <3>2
    <2> QED BY SMT, <1>0, <2>1, <2>2, <2>3, CurrentMove
  <1>2. ASSUME NEW p \in Procs, Start(p) PROVE CurrentInv'
    BY SMT, <1>0, <1>2, CurrentMove DEF Start
  <1>3. ASSUME UNCHANGED <<pc, code>>, leaseOwner' \in {leaseOwner, None},
               status' = "pending" => status = "pending" /\ UNCHANGED <<schema, applied>>
        PROVE  CurrentInv'
    BY SMT, <1>3, ConstantsAssumption DEF CurrentInv, UpToDate, Supported, Untargeted
  <1>4. ASSUME NEW o \in Operators, Operator(o) PROVE CurrentInv'
    <2>1. CASE FormSave(o)
      <3>1. UNCHANGED <<pc, code, leaseOwner, schema, applied>>
        BY <2>1 DEF FormSave
      <3>2. status' = status \/ status' # "pending"
        BY <2>1 DEF FormSave, Checked, FormsOK, StatusTransitions, CasWrites
      <3> QED BY <1>3, <3>1, <3>2
    <2>2. CASE ~FormSave(o)
      BY <1>3, <1>4, <2>2
        DEF Operator, ReleaseCheck, ForceRelease, FreeLease, FormClean, Transition, DeleteCheck, Delete,
            FormForget
    <2> QED BY <2>1, <2>2
  <1>5. CASE World \/ UNCHANGED vars \/ \E p \in Procs : OrphanEnds(p)
    BY <1>3, <1>5
      DEF World, MigrateShared, DropSchema, LoseSchema, Restore, LeaseExpire, OrphanEnds, vars,
          Upgradable
  <1> QED BY <1>1, <1>2, <1>4, <1>5, CurrentProcess DEF Next

\* A tenant goes from PENDING to ACTIVE only by a process that has just found its
\* schema up to date with its own code.
THEOREM ActivationCurrent == Spec => ActivatedCurrent
  <1> DEFINE Activation ==
        (Supported \/ Untargeted) /\ status = "pending" /\ status' = "active" =>
            \E p \in Procs : pc[p] = "activate" /\ UpToDate(code[p])
  <1>1. Init => OptsOK /\ CurrentInv
    BY SMT DEF Init, OptsOK, Targeted, BlankRun, CurrentInv
  <1>2. TypeInv /\ LeaseInv /\ FormsOK /\ OptsOK /\ CurrentInv /\ [Next]_vars
          => OptsOK' /\ CurrentInv'
    BY OptsStep, CurrentStep
  <1>3. TypeInv /\ FormsOK /\ CurrentInv /\ [Next]_vars => [Activation]_vars
    <2> SUFFICES ASSUME TypeInv, FormsOK, CurrentInv, Next, Supported \/ Untargeted,
                        status = "pending", status' = "active"
                 PROVE  \E p \in Procs : pc[p] = "activate" /\ UpToDate(code[p])
      OBVIOUS
    <2>1. ASSUME NEW p \in Procs, pc[p] = "activate", leaseOwner = p
          PROVE  \E q \in Procs : pc[q] = "activate" /\ UpToDate(code[q])
      BY <2>1 DEF CurrentInv
    <2>2. ASSUME NEW p \in Procs, Process(p) PROVE pc[p] = "activate" /\ leaseOwner = p
      <3>1. CASE CasExists(p) \/ Claim(p) \/ Activate(p) \/ CasFailed(p) \/ CasMissing(p)
        BY <3>1
          DEF CasExists, Claim, Activate, CasFailed, CasMissing, StatusCas, CasMatches, CasWrites
      <3>2. CASE ~(CasExists(p) \/ Claim(p) \/ Activate(p) \/ CasFailed(p) \/ CasMissing(p))
        BY <2>2, <3>2
          DEF Process, Load, Shortcut, LeaseProbe, LeaseTake, Reload, Prov, M4, Create,
              OpenShard, Plan, StmtStart, StmtDone, StmtError, RunDone, Verify, Recheck,
              Fail, Upgrade, Forget, CloseShard, LeaseRelease
      <3> QED BY <3>1, <3>2
    <2>3. ASSUME NEW p \in Procs, Faulty(p) \/ Start(p) \/ OrphanEnds(p)
          PROVE  pc[p] = "activate" /\ leaseOwner = p
      <3>1. CASE ConnectionLost(p)
        BY <3>1 DEF ConnectionLost, LostAnswer, CasMatches, CasWrites
      <3>2. CASE ~ConnectionLost(p)
        BY <2>3, <3>2
          DEF Faulty, UnleasedError, ProvisionError, Interrupt, ReleaseError, Crash, Start,
              OrphanEnds
      <3> QED BY <3>1, <3>2
    <2>4. ASSUME NEW o \in Operators, Operator(o) PROVE FALSE
      <3>1. CASE FormSave(o)
        BY <3>1 DEF FormSave, Checked, FormsOK, StatusTransitions, CasWrites
      <3>2. CASE ~FormSave(o)
        BY <2>4, <3>2
          DEF Operator, ReleaseCheck, ForceRelease, FormClean, Transition, DeleteCheck, Delete, FormForget
      <3> QED BY <3>1, <3>2
    <2>5. CASE World
      BY <2>5 DEF World, MigrateShared, DropSchema, LoseSchema, Restore, LeaseExpire
    <2> QED BY <2>1, <2>2, <2>3, <2>4, <2>5 DEF Next
  <1> QED BY <1>1, <1>2, <1>3, FormsInvariant, PTL DEF Spec, ActivatedCurrent
=============================================================================
