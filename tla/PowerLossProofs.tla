-------------------------- MODULE PowerLossProofs --------------------------
(***************************************************************************)
(* Proofs about PowerLoss.  The inductive invariant of IdentityStore does  *)
(* not mind what is in the files when no command is running, so a power    *)
(* loss cannot break it; what is added says which files have been synced.  *)
(***************************************************************************)
EXTENDS PowerLoss, IdentityStoreProofs

\* Only the profile may be found again after it was removed.
NoGhosts == \A u \in UnlockPaths \cup {Enc}, c \in Draws : <<u, c>> \in synced => file[u] = c

\* The files a process has behind it have been synced.
Behind(p) ==
  /\ AfterKey(p) => <<proc[p].path, proc[p].key>> \in synced
  /\ AfterKey(p) /\ proc[p].at = Enc => <<Pub, proc[p].key>> \in synced

IssuedSynced ==
  \A i \in issued : {<<Pub, i.draw>>, <<Enc, i.draw>>, <<i.path, i.draw>>} \subseteq synced

PowerInv == /\ IInv
            /\ NoGhosts
            /\ \A p \in Procs : Behind(p)
            /\ IssuedSynced

\* After a power loss nobody owns a file, and nothing has been handed out.
LEMMA CutStep == PowerInv /\ PowerCut => PowerInv'
<1> SUFFICES ASSUME PowerInv, PowerCut PROVE PowerInv'
  OBVIOUS
<1> USE PathAssumption, SentinelAssumption
<1>1. /\ \A p \in Procs : proc'[p] = Idle
      /\ issued' = {} /\ loaded' = {} /\ exported' = {} /\ faulted'
  BY DEF PowerCut
<1>2. \A p \in Procs : proc'[p].pc = "idle" /\ proc'[p].path = Absent
  BY <1>1 DEF Idle
<1>3. Typed'
  <2>1. Idle \in Locals
    BY DEF Idle, Locals, FileState, Pcs
  <2>2. UNION {Remains(f) : f \in Files} \subseteq FileState
    <3>1. ASSUME NEW f \in Files PROVE Remains(f) \subseteq FileState
      <4>1. file[f] \in FileState
        BY DEF PowerInv, IInv, Typed, TypeOK
      <4>. QED BY <4>1 DEF Remains, FileState
    <3>. QED BY <3>1
  <2>3. file' \in [Files -> FileState]
    BY <2>2 DEF PowerCut
  <2>4. dirs' \subseteq DirNames /\ private' \subseteq DirNames /\ drawn' \subseteq Draws
    BY DEF PowerCut, DirsLeft, PowerInv, IInv, Typed, TypeOK
  <2>5. proc' \in [Procs -> Locals]
    BY <2>1 DEF PowerCut
  <2>6. TypeOK'
    BY <1>1, <2>3, <2>4, <2>5 DEF TypeOK
  <2>7. ASSUME NEW p \in Procs PROVE LocalsOK(p)'
    BY <1>2 DEF LocalsOK, InDirs, Writing, Reading
  <2>. QED BY <2>6, <2>7 DEF Typed
<1>4. \A p \in Procs : ~OwnsPub(p)' /\ ~OwnsKey(p)' /\ OwnFiles(p)' /\ ~AfterKey(p)'
  BY <1>2 DEF OwnsPub, OwnsKey, OwnFiles, AfterKey, Writing
<1>5. IInv'
  BY <1>1, <1>2, <1>3, <1>4
     DEF IInv, OneOwner, ReadersOK, LoadedOK, IssuedLoadable, NoFault, EncImpliesPub, ExportedHolds
<1>6. NoGhosts'
  BY DEF NoGhosts, PowerCut
<1>7. (\A p \in Procs : Behind(p)') /\ IssuedSynced'
  BY <1>1, <1>4 DEF Behind, IssuedSynced
<1>. QED BY <1>5, <1>6, <1>7 DEF PowerInv

\* What a step of the program does to the files it does not own, and to the
\* histories of what is synced and issued.
LEMMA RunStep == ASSUME PowerInv, NEW p \in Procs, Run(p) PROVE PowerInv'
<1> USE PathAssumption, SentinelAssumption
<1>1. Next
  BY DEF Run, Next
<1>2. IInv'
  BY <1>1, NextIInv DEF PowerInv
<1>3. synced \subseteq synced'
  BY DEF Run
<1>4. /\ proc \in [Procs -> Locals] /\ file \in [Files -> FileState] /\ LocalsOK(p)
  BY DEF PowerInv, IInv, Typed, TypeOK
<1>5. CASE Settle(p) \/ Issue(p)
  <2>1. /\ proc[p].pc = "settle" /\ file' = file
        /\ proc[p].at \in {proc[p].path, Pub, Enc} /\ proc[p].key \in Draws
        /\ file[proc[p].at] = proc[p].key
        /\ synced' = synced \cup {<<proc[p].at, proc[p].key>>}
    BY <1>4, <1>5 DEF Run, Synced, Settle, Issue, LocalsOK, Writing, PowerInv, IInv, OwnFiles
  <2>2. NoGhosts'
    BY <2>1 DEF NoGhosts, PowerInv
  <2>3. CASE Settle(p)
    <3>1. /\ proc'[p].pc = "create" /\ proc'[p].key = proc[p].key
          /\ proc'[p].path = proc[p].path
          /\ \/ proc[p].at = proc[p].path /\ proc'[p].at = Pub
             \/ proc[p].at = Pub /\ proc'[p].at = Enc
          /\ \A q \in Procs \ {p} : proc'[q] = proc[q]
          /\ issued' = issued
      BY <2>3, <1>4 DEF Settle, GotoAt, Locals
    <3>2. Behind(p)'
      BY <2>1, <3>1 DEF Behind, AfterKey, Writing, PowerInv, Pub, Enc
    <3>3. ASSUME NEW q \in Procs \ {p} PROVE Behind(q)'
      BY <1>3, <3>1 DEF Behind, AfterKey, PowerInv
    <3>4. IssuedSynced'
      BY <1>3, <3>1 DEF IssuedSynced, PowerInv
    <3>. QED BY <1>2, <2>2, <3>2, <3>3, <3>4 DEF PowerInv
  <2>4. CASE Issue(p)
    <3>1. /\ proc[p].at = Enc /\ proc' = [proc EXCEPT ![p] = Idle]
          /\ issued' = issued \cup {[draw |-> proc[p].key, path |-> proc[p].path]}
      BY <2>4 DEF Issue, Return
    <3>2. Behind(p)'
      BY <1>4, <3>1 DEF Behind, AfterKey, Idle, Writing
    <3>3. ASSUME NEW q \in Procs \ {p} PROVE Behind(q)'
      BY <1>3, <1>4, <3>1 DEF Behind, AfterKey, PowerInv
    <3>4. <<proc[p].path, proc[p].key>> \in synced /\ <<Pub, proc[p].key>> \in synced
      BY <2>1, <3>1 DEF PowerInv, Behind, AfterKey, Writing
    <3>5. IssuedSynced'
      <4> DEFINE n == [draw |-> proc[p].key, path |-> proc[p].path]
      <4>1. {<<Pub, n.draw>>, <<Enc, n.draw>>, <<n.path, n.draw>>} \subseteq synced'
        BY <1>3, <2>1, <3>1, <3>4
      <4>2. \A i \in issued : {<<Pub, i.draw>>, <<Enc, i.draw>>, <<i.path, i.draw>>} \subseteq synced'
        BY <1>3 DEF IssuedSynced, PowerInv
      <4>3. issued' = issued \cup {n}
        BY <3>1
      <4> HIDE DEF n
      <4>. QED BY <4>1, <4>2, <4>3 DEF IssuedSynced
    <3>. QED BY <1>2, <2>2, <3>2, <3>3, <3>5 DEF PowerInv
  <2>. QED BY <1>5, <2>3, <2>4
<1>6. CASE ~(Settle(p) \/ Issue(p))
  <2>1. synced' = synced /\ issued' = issued
    BY <1>6 DEF Run, Synced, Begin, BeginInit, WizardInside, BeginLoad, BeginImport, Step, Refuse,
       Check, SeeDir, MakeDir, LockDir, Draw, CreateNew, WriteAll, Rollback, ReadKey, ReadEnc,
       ReadPub, Export, SystemError, Crash
  <2>2. \A u \in UnlockPaths \cup {Enc} : file[u] \in Draws => file'[u] = file[u]
    <3>1. CASE CreateNew(p) \/ WriteAll(p)
      <4>1. proc[p].pc = "write" => file[proc[p].at] = Torn
        BY DEF PowerInv, IInv, OwnFiles
      <4>2. CASE CreateNew(p)
        BY <4>2, <1>4 DEF CreateNew, Files
      <4>3. CASE WriteAll(p)
        BY <4>1, <4>3, <1>4 DEF WriteAll, Files
      <4>. QED BY <3>1, <4>2, <4>3
    <3>2. CASE Rollback(p)
      BY <3>2, <1>4 DEF Rollback, Files, Pub, Enc
    <3>3. CASE ~(CreateNew(p) \/ WriteAll(p) \/ Rollback(p))
      BY <1>6, <3>3 DEF Run, Begin, BeginInit, WizardInside, BeginLoad, BeginImport, Step, Refuse,
         Check, SeeDir, MakeDir, LockDir, Draw, ReadKey, ReadEnc, ReadPub, Export, SystemError, Crash
    <3>. QED BY <3>1, <3>2, <3>3
  <2>3. NoGhosts'
    BY <2>1, <2>2 DEF NoGhosts, PowerInv
  <2>4. \A q \in Procs \ {p} : proc'[q] = proc[q]
    BY <1>4, <1>6 DEF Run, Begin, BeginInit, WizardInside, BeginLoad, BeginImport, Step, Refuse, Check,
       SeeDir, DirReady, MakeDir, LockDir, Draw, CreateNew, WriteAll, Rollback, ReadKey, ReadEnc,
       ReadPub, Export, SystemError, Crash, Fail, Return, Goto, GotoAt
  <2>5. \/ ~AfterKey(p)'
        \/ AfterKey(p) /\ proc'[p].at = proc[p].at /\ proc'[p].path = proc[p].path
             /\ proc'[p].key = proc[p].key
    <3>1. CASE Begin(p)
      <4>1. proc'[p].pc \in {"seeDir", "check", "refused", "readKey"}
        <5>1. CASE BeginImport(p)
          BY <5>1, <1>4 DEF BeginImport, GotoAt, Locals
        <5>2. CASE ~BeginImport(p)
          <6>1. PICK u \in UnlockPaths : BeginInit(p, u) \/ WizardInside(p, u) \/ BeginLoad(p, u)
            BY <3>1, <5>2 DEF Begin
          <6>2. CASE BeginInit(p, u)
            <7>1. proc' = [proc EXCEPT ![p] = [proc[p] EXCEPT !.pc = "check", !.path = u, !.at = Pub]]
              BY <6>2, <1>4 DEF BeginInit
            <7>. QED BY <7>1, <1>4 DEF Locals
          <6>3. CASE BeginLoad(p, u)
            <7>1. proc' = [proc EXCEPT ![p] = [proc[p] EXCEPT !.pc = "readKey", !.path = u]]
              BY <6>3, <1>4 DEF BeginLoad
            <7>. QED BY <7>1, <1>4 DEF Locals
          <6>4. CASE WizardInside(p, u)
            BY <6>4, <1>4 DEF WizardInside, Goto, Locals
          <6>. QED BY <6>1, <6>2, <6>3, <6>4
        <5>. QED BY <5>1, <5>2
      <4>. QED BY <4>1 DEF AfterKey, Writing
    <3>2. CASE Refuse(p) \/ Check(p)
      BY <3>2, <1>4 DEF Refuse, Check, Return, Idle, GotoAt, AfterKey, Locals, Writing
    <3>3. CASE SeeDir(p) \/ MakeDir(p) \/ LockDir(p)
      BY <3>3, <1>4 DEF SeeDir, MakeDir, LockDir, DirReady, Return, Idle, Goto, GotoAt, AfterKey,
         Locals, Writing
    <3>4. CASE Draw(p)
      <4>1. proc[p].at = proc[p].path /\ proc[p].path \in UnlockPaths
        BY <3>4, <1>4 DEF Draw, LocalsOK
      <4>2. PICK d \in Draws : proc' = [proc EXCEPT ![p].pc = "create", ![p].key = d]
        BY <3>4 DEF Draw
      <4>3. proc'[p].at = proc[p].at
        BY <4>2, <1>4 DEF Locals
      <4>. QED BY <4>1, <4>3 DEF AfterKey
    <3>5. CASE CreateNew(p) \/ WriteAll(p)
      BY <3>5, <1>4 DEF CreateNew, WriteAll, Fail, Return, Idle, Goto, AfterKey, Locals, Writing
    <3>6. CASE Rollback(p) \/ ReadKey(p) \/ ReadEnc(p) \/ ReadPub(p) \/ Export(p)
      BY <3>6, <1>4 DEF Rollback, ReadKey, ReadEnc, ReadPub, Export, Return, Idle, AfterKey, Locals,
         Writing
    <3>7. CASE SystemError(p) \/ Crash(p)
      BY <3>7, <1>4 DEF SystemError, Crash, Fail, Return, Idle, Goto, AfterKey, Locals, Writing
    <3>. QED BY <1>6, <3>1, <3>2, <3>3, <3>4, <3>5, <3>6, <3>7 DEF Run, Step
  <2>6. \A q \in Procs : Behind(q)'
    BY <2>1, <2>4, <2>5 DEF Behind, AfterKey, PowerInv
  <2>7. IssuedSynced'
    BY <2>1 DEF IssuedSynced, PowerInv
  <2>. QED BY <1>2, <2>3, <2>6, <2>7 DEF PowerInv
<1>. QED BY <1>5, <1>6

\* The invariant of the store and what is synced hold across power losses.
THEOREM Invariant == PowerSpec => []PowerInv
<1>1. PowerInit => PowerInv
  <2> SUFFICES ASSUME PowerInit PROVE PowerInv
    OBVIOUS
  <2>1. IInv /\ synced = {} /\ issued = {}
    BY InitIInv DEF PowerInit, Init
  <2>2. \A p \in Procs : ~AfterKey(p)
    BY DEF PowerInit, Init, Idle, AfterKey, Writing
  <2>. QED BY <2>1, <2>2 DEF PowerInv, NoGhosts, Behind, IssuedSynced
<1>2. PowerInv /\ [PowerNext]_powerVars => PowerInv'
  <2> SUFFICES ASSUME PowerInv, [PowerNext]_powerVars PROVE PowerInv'
    OBVIOUS
  <2>1. CASE UNCHANGED powerVars
    <3>1. UNCHANGED vars /\ UNCHANGED synced
      BY <2>1 DEF powerVars, vars
    <3>2. IInv'
      BY <3>1, NextIInv DEF PowerInv
    <3>. QED BY <3>1, <3>2 DEF vars, PowerInv, NoGhosts, Behind, AfterKey, IssuedSynced
  <2>. QED BY <2>1, CutStep, RunStep DEF PowerNext
<1>. QED BY <1>1, <1>2, PTL DEF PowerSpec

\* After a power loss, too, an identity that `initialize` reports since is
\* complete and stays so.
THEOREM IssuedStaysLoadableAcrossCuts == PowerSpec => []IssuedLoadable
<1>1. PowerInv => IssuedLoadable
  BY DEF PowerInv, IInv
<1>. QED BY <1>1, Invariant, PTL

\* Whatever mixture of files a power loss leaves, callers after it are handed
\* one identity, with the secrets that belong to it.
THEOREM OneIdentityAcrossCuts == PowerSpec => []OneIdentity
<1>1. PowerInv => OneIdentity
  BY DEF PowerInv, IInv, IssuedLoadable, LoadedOK, OneIdentity, Handed
<1>. QED BY <1>1, Invariant, PTL

\* A power loss leaves the unlock key and the private identity of an issued
\* identity whole or takes them; what it leaves as the profile is complete, but
\* may be one that another draw has rolled back.
THEOREM KeysWholeOrGone == PowerSpec => IssuedKeysWholeOrGone
<1> DEFINE Whole == cuts' # cuts =>
       \A i \in issued :
         /\ file'[Enc] \in {i.draw, Absent}
         /\ file'[i.path] \in {i.draw, Absent}
         /\ file'[Pub] \in {Absent} \cup {d \in Draws : <<Pub, d>> \in synced}
<1>1. PowerInv /\ [PowerNext]_powerVars => [Whole]_powerVars
  <2> SUFFICES ASSUME PowerInv, PowerNext, cuts' # cuts, NEW i \in issued
               PROVE  /\ file'[Enc] \in {i.draw, Absent}
                      /\ file'[i.path] \in {i.draw, Absent}
                      /\ file'[Pub] \in {Absent} \cup {d \in Draws : <<Pub, d>> \in synced}
    OBVIOUS
  <2> USE PathAssumption, SentinelAssumption
  <2>1. PowerCut
    BY DEF PowerNext, Run
  <2>2. /\ i.draw \in Draws /\ i.path \in UnlockPaths
        /\ file[Pub] = i.draw /\ file[Enc] = i.draw /\ file[i.path] = i.draw
        /\ {<<Pub, i.draw>>, <<Enc, i.draw>>, <<i.path, i.draw>>} \subseteq synced
    BY DEF PowerInv, IInv, Typed, TypeOK, IssuedLoadable, IssuedSynced
  <2>3. \A f \in Files : file'[f] \in Remains(f)
    BY <2>1 DEF PowerCut
  <2>4. /\ Remains(Pub) \subseteq {Absent} \cup {d \in Draws : <<Pub, d>> \in synced}
        /\ \A f \in {Enc, i.path} : Remains(f) \subseteq {Absent, i.draw}
    BY <2>2 DEF Remains, NoGhosts, PowerInv
  <2>. QED BY <2>2, <2>3, <2>4 DEF Files
<1>2. PowerSpec => [][Whole]_powerVars
  BY <1>1, Invariant, PTL DEF PowerSpec
<1>. QED BY <1>2 DEF IssuedKeysWholeOrGone
=============================================================================
