-------------------------- MODULE LedgerFileProofs ---------------------------
(***************************************************************************)
(* The receive ledger's files, for any number of lock attempts,            *)
(* generations and damages: they keep their types, a start is at most one  *)
(* generation stale, and until damaged from outside they implement one     *)
(* atomic register.                                                        *)
(***************************************************************************)
EXTENDS LedgerFile, TLAPS

\* Once written, the temporary holds exactly the generation being saved.
TypeInv ==
  /\ TypeOK
  /\ pc \in {"copy", "rename"} => tmp = mem

\* Which generations the two files load reads may hold.  A client that found
\* receipts.json missing has a backup no older than its own newest
\* generation, so publishing once more leaves the backup one behind.
StaleInv ==
  /\ live \in {commits[1], Absent, Torn}
  /\ bak \in {commits[1], commits[2], Absent, Torn}
  /\ (pc = "rename" \/ (live = Absent /\ pc \notin {"down", "refused"}))
       => bak \in {commits[1], Absent, Torn}

\* What the refinement needs besides types, until receipts.json is damaged:
\* it is never torn and never disappears, and the generation being saved is
\* newer than the one a load would return.
FileInv ==
  damage = 0 =>
    /\ live # Torn
    /\ live = Absent => bak = Absent
    /\ pc = "copy" => live # Absent
    /\ mem >= LoadResult
    /\ pc \in {"write", "copy", "rename"} => mem > LoadResult

-----------------------------------------------------------------------------
LEMMA TypeInvInit == Init => TypeInv
  BY LedgerFileAssumption DEF Init, TypeInv, TypeOK, File, Gens, Absent, Torn

LEMMA TypeInvStep == TypeInv /\ [Next]_vars => TypeInv'
<1> SUFFICES ASSUME TypeInv, [Next]_vars
             PROVE  TypeInv'
  OBVIOUS
<1> USE LedgerFileAssumption DEF TypeInv, TypeOK, File, Gens, Absent, Torn
<1>1. CASE StartSave
  BY <1>1 DEF StartSave
<1>2. CASE WriteTemporary
  BY <1>2 DEF WriteTemporary
<1>3. CASE WriteFails
  BY <1>3 DEF WriteFails
<1>4. CASE CopyToBackup
  BY <1>4 DEF CopyToBackup
<1>5. CASE Publish
  BY <1>5 DEF Publish
<1>6. CASE RetrySharingViolation
  BY <1>6 DEF RetrySharingViolation
<1>7. CASE GiveUp
  BY <1>7 DEF GiveUp, DisturbBackup
<1>8. CASE Crash
  BY <1>8 DEF Crash, DisturbBackup
<1>9. CASE DamageLive
  BY <1>9 DEF DamageLive
<1>10. CASE Load
  BY <1>10 DEF Load, LoadResult, Readable
<1>11. CASE LoadRefused
  BY <1>11 DEF LoadRefused
<1>12. CASE UNCHANGED vars
  BY <1>12 DEF vars
<1> QED
  BY <1>1, <1>2, <1>3, <1>4, <1>5, <1>6, <1>7, <1>8, <1>9, <1>10, <1>11, <1>12
     DEF Next

\* Every variable keeps its type.
THEOREM LedgerFileTypeOK == Spec => []TypeOK
<1>1. TypeInv => TypeOK
  BY DEF TypeInv
<1> QED
  BY <1>1, TypeInvInit, TypeInvStep, PTL DEF Spec

-----------------------------------------------------------------------------
LEMMA StaleInvStep == TypeInv /\ StaleInv /\ [Next]_vars => StaleInv'
<1> SUFFICES ASSUME TypeInv, StaleInv, [Next]_vars
             PROVE  StaleInv'
  OBVIOUS
<1> USE LedgerFileAssumption
    DEF TypeInv, StaleInv, TypeOK, File, Gens, Absent, Torn
<1>1. CASE StartSave
  BY <1>1 DEF StartSave
<1>2. CASE WriteTemporary
  BY <1>2 DEF WriteTemporary
<1>3. CASE WriteFails
  BY <1>3 DEF WriteFails
<1>4. CASE CopyToBackup
  BY <1>4 DEF CopyToBackup
<1>5. CASE Publish
  BY <1>5 DEF Publish
<1>6. CASE RetrySharingViolation
  BY <1>6 DEF RetrySharingViolation
<1>7. CASE GiveUp
  BY <1>7 DEF GiveUp, DisturbBackup
<1>8. CASE Crash
  BY <1>8 DEF Crash, DisturbBackup
<1>9. CASE DamageLive
  BY <1>9 DEF DamageLive
<1>10. CASE Load
  BY <1>10 DEF Load, LoadResult, Readable
<1>11. CASE LoadRefused
  BY <1>11 DEF LoadRefused
<1>12. CASE UNCHANGED vars
  BY <1>12 DEF vars
<1> QED
  BY <1>1, <1>2, <1>3, <1>4, <1>5, <1>6, <1>7, <1>8, <1>9, <1>10, <1>11, <1>12
     DEF Next

\* However often receipts.json is lost or truncated, a start finds the newest
\* generation, the one before it, or no usable file at all.
THEOREM LedgerFileStale == Spec => []AtMostOneGenerationStale
<1>1. Init => StaleInv
  BY DEF Init, StaleInv, Absent, Torn
<1>2. TypeInv /\ StaleInv => AtMostOneGenerationStale
  BY DEF StaleInv, AtMostOneGenerationStale, LoadResult, Readable, TypeInv,
         TypeOK, File, Gens, Absent, Torn
<1> QED
  BY <1>1, <1>2, TypeInvInit, TypeInvStep, StaleInvStep, PTL DEF Spec

-----------------------------------------------------------------------------
\* A step seen through the register: it is damaged, or it keeps its value or
\* takes a newer one.
RegisterStep ==
  \/ damage' > 0
  \/ /\ damage = 0 /\ damage' = 0
     /\ LoadResult' = LoadResult \/ (LoadResult' \in Nat /\ LoadResult' > LoadResult)

LEMMA FileInvStep ==
  TypeInv /\ FileInv /\ [Next]_vars
    => FileInv' /\ RegisterStep
<1> SUFFICES ASSUME TypeInv, FileInv, [Next]_vars
             PROVE  FileInv' /\ RegisterStep
  OBVIOUS
<1> USE LedgerFileAssumption
    DEF TypeInv, FileInv, TypeOK, File, Gens, Absent, Torn, LoadResult, Readable,
        RegisterStep
<1>1. CASE StartSave
  BY <1>1 DEF StartSave
<1>2. CASE WriteTemporary
  BY <1>2 DEF WriteTemporary
<1>3. CASE WriteFails
  BY <1>3 DEF WriteFails
<1>4. CASE CopyToBackup
  BY <1>4 DEF CopyToBackup
<1>5. CASE Publish
  BY <1>5 DEF Publish
<1>6. CASE RetrySharingViolation
  BY <1>6 DEF RetrySharingViolation
<1>7. CASE GiveUp
  <2>1. damage' = damage /\ live' = live /\ mem' = mem /\ pc' = "running"
    BY <1>7 DEF GiveUp
  <2>2. CASE damage = 0
    <3>1. pc = "copy" => live # Absent
      BY <2>2
    <3>2. live = Absent => bak' = Absent
      BY <1>7, <2>2, <3>1 DEF GiveUp, DisturbBackup
    <3>3. LoadResult' = LoadResult
      BY <2>1, <2>2, <3>2
    <3> QED
      BY <2>1, <2>2, <3>2, <3>3
  <2>3. damage # 0 => damage' # 0 /\ damage' > 0
    BY <2>1
  <2> QED
    BY <2>2, <2>3
<1>8. CASE Crash
  <2>1. damage' = damage /\ live' = live /\ mem' = mem /\ pc' = "down"
    BY <1>8 DEF Crash
  <2>2. CASE damage = 0
    <3>1. pc = "copy" => live # Absent
      BY <2>2
    <3>2. live = Absent => bak' = Absent
      BY <1>8, <2>2, <3>1 DEF Crash, DisturbBackup
    <3>3. LoadResult' = LoadResult
      BY <2>1, <2>2, <3>2
    <3> QED
      BY <2>1, <2>2, <3>2, <3>3
  <2>3. damage # 0 => damage' # 0 /\ damage' > 0
    BY <2>1
  <2> QED
    BY <2>2, <2>3
<1>9. CASE DamageLive
  BY <1>9 DEF DamageLive
<1>10. CASE Load
  BY <1>10 DEF Load
<1>11. CASE LoadRefused
  BY <1>11 DEF LoadRefused
<1>12. CASE UNCHANGED vars
  BY <1>12 DEF vars
<1> QED
  BY <1>1, <1>2, <1>3, <1>4, <1>5, <1>6, <1>7, <1>8, <1>9, <1>10, <1>11, <1>12
     DEF Next

\* save and load implement the atomic register, wherever save is interrupted
\* or gives up, until something else damages receipts.json.
THEOREM LedgerFileRefines == Spec => RefinesRegister
<1>1. Init => FileInv /\ Register!Init
  <2>1. Init => FileInv /\ LoadResult = 0 /\ damage = 0
    BY DEF Init, FileInv, LoadResult, Readable, Absent, Torn
  <2>2. damage = 0 => (damage > 0) = FALSE
    OBVIOUS
  <2> QED
    BY <2>1, <2>2 DEF Register!Init
<1>2. RegisterStep => [Register!Next]_<<LoadResult, damage > 0>>
  <2> SUFFICES ASSUME RegisterStep
               PROVE  [Register!Next]_<<LoadResult, damage > 0>>
    OBVIOUS
  <2>1. CASE damage' > 0
    BY <2>1 DEF Register!Next, Register!Damage
  <2>2. CASE damage = 0 /\ damage' = 0
    <3>1. (damage > 0) = FALSE /\ (damage > 0)' = FALSE
      BY <2>2
    <3>2. CASE LoadResult' = LoadResult
      BY <3>1, <3>2
    <3>3. CASE LoadResult' \in Nat /\ LoadResult' > LoadResult
      BY <3>1, <3>3 DEF Register!Next, Register!Commit
    <3>4. ~(damage' > 0)
      BY <2>2
    <3> QED
      BY <3>2, <3>3, <3>4 DEF RegisterStep
  <2> QED
    BY <2>1, <2>2 DEF RegisterStep
<1>3. TypeInv /\ FileInv /\ [Next]_vars
        => FileInv' /\ [Register!Next]_<<LoadResult, damage > 0>>
  BY <1>2, FileInvStep
<1> QED
  BY <1>1, <1>3, TypeInvInit, TypeInvStep, PTL
     DEF Spec, RefinesRegister, Register!Spec
=============================================================================
