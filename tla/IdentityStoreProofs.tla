------------------------ MODULE IdentityStoreProofs ------------------------
(***************************************************************************)
(* Proofs about IdentityStore, for any number of processes, unlock paths   *)
(* and draws.                                                              *)
(***************************************************************************)
EXTENDS IdentityStore, TLAPS

(***************************************************************************)
(* The inductive invariant.  Nothing but create_new orders two commands,   *)
(* so the argument is about ownership: a process owns its unlock key file  *)
(* from the moment it created it, and the public profile, and with it the  *)
(* right to write the encrypted identity, from the moment it created that. *)
(* A file that exists is never created again, hence there is one owner.    *)
(***************************************************************************)
AfterKey(p) == proc[p].at \in {Pub, Enc} /\ proc[p].pc \in Writing \cup {"rollback"}

OwnsKey(p) == \/ AfterKey(p)
              \/ proc[p].at = proc[p].path /\ proc[p].pc \in {"write", "settle"}

OwnsPub(p) == \/ proc[p].at = Enc /\ proc[p].pc \in Writing \cup {"rollback"}
              \/ proc[p].at = Pub /\ proc[p].pc \in {"write", "settle"}

\* What a program counter says about the local variables.
LocalsOK(p) ==
  /\ proc[p].pc = "idle" => proc[p].path = Absent
  /\ proc[p].pc \in Writing \cup {"draw"} => proc[p].path \in UnlockPaths
  /\ proc[p].pc = "draw" => proc[p].at = proc[p].path
  /\ proc[p].pc \in Writing =>
       /\ proc[p].key \in Draws
       /\ proc[p].at \in {proc[p].path, Pub, Enc}
  /\ proc[p].pc = "rollback" =>
       proc[p].path \in UnlockPaths /\ proc[p].key \in Draws /\ proc[p].at = Enc
  /\ proc[p].pc \in {"check"} \cup Reading => proc[p].path \in UnlockPaths
  /\ proc[p].pc = "check" => proc[p].at \in {Pub, Enc, proc[p].path}
  /\ proc[p].pc \in InDirs => proc[p].at \in DirNames
  /\ proc[p].pc \in InDirs /\ proc[p].path = Absent => proc[p].at = "contacts"
  /\ proc[p].pc \in {"readEnc", "readPub"} => proc[p].key \in Draws

\* The file a process is writing holds what the process has written so far,
\* and the files it wrote before are complete.
OwnFiles(p) ==
  /\ proc[p].pc = "write" => file[proc[p].at] = Torn
  /\ proc[p].pc = "settle" => file[proc[p].at] = proc[p].key
  /\ AfterKey(p) => file[proc[p].path] = proc[p].key
  /\ proc[p].at = Enc /\ proc[p].pc \in Writing \cup {"rollback"} => file[Pub] = proc[p].key

\* At most one process owns a file, and none does once an identity is issued.
OneOwner ==
  /\ \A p, q \in Procs : OwnsPub(p) /\ OwnsPub(q) => p = q
  /\ \A p, q \in Procs :
       OwnsKey(p) /\ OwnsKey(q) /\ proc[p].path = proc[q].path => p = q
  /\ \A p \in Procs : OwnsPub(p) => issued = {}

\* What a reader holds is what the file holds, or a prefix of it.
ReadersOK ==
  \A p \in Procs : proc[p].pc = "readPub" => proc[p].box \in {file[Enc], Torn} \ {Absent}

LoadedOK == \A l \in loaded : l.secrets = file[Enc] /\ l.profile = file[Enc]

\* Before the first failing call, the owner of the public profile finds no
\* encrypted identity in its way.
NoFault ==
  ~faulted => \A p \in Procs :
    /\ proc[p].pc # "rollback"
    /\ OwnsPub(p) /\ file[Enc] # Absent => proc[p].at = Enc /\ proc[p].pc # "create"

\* Before the first failing call an encrypted identity implies the profile.
EncImpliesPub == ~faulted => (file[Enc] # Absent => file[Pub] # Absent)

Typed == TypeOK /\ \A p \in Procs : LocalsOK(p)

IInv == /\ Typed
        /\ \A p \in Procs : OwnFiles(p)
        /\ OneOwner
        /\ ReadersOK
        /\ LoadedOK
        /\ IssuedLoadable
        /\ NoFault
        /\ EncImpliesPub
        /\ ExportedHolds

-----------------------------------------------------------------------------
(***************************************************************************)
(* Types and local variables.                                              *)
(***************************************************************************)
\* The error path of a call keeps types.
LEMMA FailTyped ==
  ASSUME Typed, NEW p \in Procs, proc[p].pc # "idle", Fail(p)
  PROVE  /\ proc' \in [Procs -> Locals]
         /\ \A q \in Procs : LocalsOK(q)'
  BY PathAssumption, SentinelAssumption
     DEF Typed, TypeOK, Locals, LocalsOK, Fail, Goto, Return, Idle, FileState, Files, DirNames,
         Pcs, InDirs, Writing, Reading, Pub, Enc

\* No step leaves the types, nor the ranges LocalsOK gives each program counter.
LEMMA InitTyped == Init => Typed
<1> SUFFICES ASSUME Init PROVE Typed
  OBVIOUS
<1>1. Idle \in Locals
  BY DEF Idle, Locals, FileState, Pcs
<1>2. TypeOK
  BY <1>1 DEF Init, TypeOK, FileState, DirNames
<1>3. ASSUME NEW p \in Procs PROVE LocalsOK(p)
  <2>1. proc[p].pc = "idle" /\ proc[p].path = Absent
    BY DEF Init, Idle
  <2>. QED BY <2>1 DEF LocalsOK, InDirs, Writing, Reading
<1>. QED BY <1>2, <1>3 DEF Typed

\* Every step keeps types and the ranges of the local variables.
LEMMA TypedStep == Typed /\ [Next]_vars => Typed'
<1> SUFFICES ASSUME Typed, [Next]_vars PROVE Typed'
  OBVIOUS
<1> USE PathAssumption, SentinelAssumption DEF Locals, FileState, Files, DirNames, Pub, Enc
<1>1. CASE UNCHANGED vars
  BY <1>1 DEF vars, Typed, TypeOK, LocalsOK, Pcs, InDirs, Writing, Reading
<1>2. ASSUME NEW p \in Procs, NEW u \in UnlockPaths, BeginInit(p, u)
      PROVE  Typed'
  <2>1. TypeOK'
    <3> DEFINE r == [proc[p] EXCEPT !.pc = "check", !.path = u, !.at = Pub]
    <3>1. proc' = [proc EXCEPT ![p] = r]
      BY <1>2 DEF BeginInit, Typed, TypeOK
    <3>2. proc[p] \in Locals
      BY DEF Typed, TypeOK
    <3>3. r \in Locals
      BY <3>2 DEF Pcs, InDirs, Writing, Reading
    <3>. QED BY <1>2, <3>1, <3>3 DEF BeginInit, Typed, TypeOK
  <2>2. ASSUME NEW q \in Procs PROVE LocalsOK(q)'
    <3>1. CASE q = p
      BY <1>2, <3>1 DEF BeginInit, Typed, TypeOK, LocalsOK, InDirs, Writing, Reading
    <3>2. CASE q # p
      BY <1>2, <3>2 DEF BeginInit, Typed, TypeOK, LocalsOK
    <3>. QED BY <3>1, <3>2
  <2>. QED BY <2>1, <2>2 DEF Typed
<1>3. ASSUME NEW p \in Procs, NEW u \in UnlockPaths, BeginLoad(p, u)
      PROVE  Typed'
  <2>1. TypeOK'
    <3> DEFINE r == [proc[p] EXCEPT !.pc = "readKey", !.path = u]
    <3>1. proc' = [proc EXCEPT ![p] = r]
      BY <1>3 DEF BeginLoad, Typed, TypeOK
    <3>2. proc[p] \in Locals
      BY DEF Typed, TypeOK
    <3>3. r \in Locals
      BY <3>2 DEF Pcs, InDirs, Writing, Reading
    <3>. QED BY <1>3, <3>1, <3>3 DEF BeginLoad, Typed, TypeOK
  <2>2. ASSUME NEW q \in Procs PROVE LocalsOK(q)'
    <3>1. CASE q = p
      BY <1>3, <3>1 DEF BeginLoad, Typed, TypeOK, LocalsOK, InDirs, Writing, Reading
    <3>2. CASE q # p
      BY <1>3, <3>2 DEF BeginLoad, Typed, TypeOK, LocalsOK
    <3>. QED BY <3>1, <3>2
  <2>. QED BY <2>1, <2>2 DEF Typed
<1>4. ASSUME NEW p \in Procs, Check(p) PROVE Typed'
  BY <1>4 DEF Check, Return, Idle, GotoAt, Typed, TypeOK, LocalsOK, Pcs, InDirs, Writing, Reading
<1>5. ASSUME NEW p \in Procs, SeeDir(p) PROVE Typed'
  BY <1>5 DEF SeeDir, Goto, Typed, TypeOK, LocalsOK, Pcs, InDirs, Writing, Reading
<1>6. ASSUME NEW p \in Procs, MakeDir(p) PROVE Typed'
  BY <1>6 DEF MakeDir, Return, Idle, Goto, Typed, TypeOK, LocalsOK, Pcs, InDirs, Writing, Reading
<1>19. ASSUME NEW p \in Procs, LockDir(p) PROVE Typed'
  <2>1. proc[p].pc = "lockDir" /\ proc[p] \in Locals
    BY <1>19 DEF LockDir, Typed, TypeOK
  <2>2. CASE proc[p].at \in {"root", "identity"}
    <3>1. proc' = [proc EXCEPT ![p].pc = "seeDir",
                               ![p].at = IF proc[p].at = "root" THEN "identity" ELSE "contacts"]
      BY <1>19, <2>2 DEF LockDir, DirReady, GotoAt
    <3>2. private' \subseteq DirNames
      BY <1>19, <2>2 DEF LockDir, Typed, TypeOK
    <3>. QED BY <1>19, <2>1, <2>2, <3>1, <3>2
             DEF LockDir, Typed, TypeOK, LocalsOK, Pcs, InDirs, Writing, Reading
  <2>3. CASE proc[p].at = "contacts" /\ proc[p].path # Absent
    <3>1. /\ proc' = [proc EXCEPT ![p].pc = "draw", ![p].at = proc[p].path]
          /\ proc[p].path \in UnlockPaths
      BY <1>19, <2>1, <2>3 DEF LockDir, DirReady, GotoAt
    <3>. QED BY <1>19, <2>1, <2>3, <3>1
             DEF LockDir, Typed, TypeOK, LocalsOK, Pcs, InDirs, Writing, Reading
  <2>4. CASE proc[p].at = "contacts" /\ proc[p].path = Absent
    <3>1. proc' = [proc EXCEPT ![p] = Idle]
      BY <1>19, <2>4 DEF LockDir, DirReady, Return
    <3>. QED BY <1>19, <2>1, <2>4, <3>1
             DEF LockDir, Idle, Typed, TypeOK, LocalsOK, Pcs, InDirs, Writing, Reading
  <2>5. proc[p].at \in DirNames
    BY <2>1 DEF Typed, LocalsOK, InDirs
  <2>. QED BY <2>2, <2>3, <2>4, <2>5
<1>20. ASSUME NEW p \in Procs, BeginImport(p) PROVE Typed'
  <2>1. TypeOK'
    <3> DEFINE r == [proc[p] EXCEPT !.pc = "seeDir", !.at = "contacts"]
    <3>1. proc' = [proc EXCEPT ![p] = r]
      BY <1>20 DEF BeginImport, GotoAt, Typed, TypeOK
    <3>2. proc[p] \in Locals
      BY DEF Typed, TypeOK
    <3>3. r \in Locals
      BY <3>2 DEF Pcs, InDirs, Writing, Reading
    <3>. QED BY <1>20, <3>1, <3>3 DEF BeginImport, Typed, TypeOK
  <2>2. ASSUME NEW q \in Procs PROVE LocalsOK(q)'
    <3>1. CASE q = p
      BY <1>20, <3>1 DEF BeginImport, GotoAt, Typed, TypeOK, LocalsOK, InDirs, Writing, Reading
    <3>2. CASE q # p
      BY <1>20, <3>2 DEF BeginImport, GotoAt, Typed, TypeOK, LocalsOK
    <3>. QED BY <3>1, <3>2
  <2>. QED BY <2>1, <2>2 DEF Typed
<1>21. ASSUME NEW p \in Procs, NEW u \in UnlockPaths, WizardInside(p, u) PROVE Typed'
  BY <1>21 DEF WizardInside, Goto, Typed, TypeOK, LocalsOK, Pcs, InDirs, Writing, Reading
<1>22. ASSUME NEW p \in Procs, Refuse(p) PROVE Typed'
  BY <1>22 DEF Refuse, Return, Idle, Typed, TypeOK, LocalsOK, Pcs, InDirs, Writing, Reading
<1>7. ASSUME NEW p \in Procs, Draw(p) PROVE Typed'
  <2>1. TypeOK'
    <3> PICK d \in Draws : /\ drawn' = drawn \cup {d}
                           /\ proc' = [proc EXCEPT ![p].pc = "create", ![p].key = d]
      BY <1>7 DEF Draw
    <3> DEFINE r == [proc[p] EXCEPT !.pc = "create", !.key = d]
    <3>1. proc' = [proc EXCEPT ![p] = r]
      BY DEF Typed, TypeOK
    <3>2. proc[p] \in Locals
      BY DEF Typed, TypeOK
    <3>3. r \in Locals
      BY <3>2 DEF Pcs, InDirs, Writing, Reading
    <3>. QED BY <1>7, <3>1, <3>3 DEF Draw, Typed, TypeOK
  <2>2. ASSUME NEW q \in Procs PROVE LocalsOK(q)'
    <3>1. CASE q = p
      BY <1>7, <3>1 DEF Draw, Typed, TypeOK, LocalsOK, InDirs, Writing, Reading
    <3>2. CASE q # p
      BY <1>7, <3>2 DEF Draw, Typed, TypeOK, LocalsOK
    <3>. QED BY <3>1, <3>2
  <2>. QED BY <2>1, <2>2 DEF Typed
<1>8. ASSUME NEW p \in Procs, CreateNew(p) PROVE Typed'
  <2>1. CASE file[proc[p].at] = Absent
    BY <1>8, <2>1 DEF CreateNew, Goto, Typed, TypeOK, LocalsOK, Pcs, InDirs, Writing, Reading
  <2>2. CASE file[proc[p].at] # Absent
    BY <1>8, <2>2, FailTyped DEF CreateNew, Typed, TypeOK
  <2>. QED BY <2>1, <2>2
<1>9. ASSUME NEW p \in Procs, WriteAll(p) PROVE Typed'
  BY <1>9 DEF WriteAll, Goto, Typed, TypeOK, LocalsOK, Pcs, InDirs, Writing, Reading
<1>10. ASSUME NEW p \in Procs, Settle(p) PROVE Typed'
  BY <1>10 DEF Settle, GotoAt, Typed, TypeOK, LocalsOK, Pcs, InDirs, Writing, Reading
<1>11. ASSUME NEW p \in Procs, Issue(p) PROVE Typed'
  BY <1>11 DEF Issue, Return, Idle, Typed, TypeOK, LocalsOK, Pcs, InDirs, Writing, Reading
<1>12. ASSUME NEW p \in Procs, Rollback(p) PROVE Typed'
  BY <1>12 DEF Rollback, Return, Idle, Typed, TypeOK, LocalsOK, Pcs, InDirs, Writing, Reading
<1>13. ASSUME NEW p \in Procs, ReadKey(p) PROVE Typed'
  BY <1>13 DEF ReadKey, Parses, Return, Idle, Typed, TypeOK, LocalsOK, Pcs, InDirs, Writing, Reading
<1>14. ASSUME NEW p \in Procs, ReadEnc(p) PROVE Typed'
  BY <1>14 DEF ReadEnc, Return, Idle, Typed, TypeOK, LocalsOK, Pcs, InDirs, Writing, Reading
<1>15. ASSUME NEW p \in Procs, ReadPub(p) PROVE Typed'
  BY <1>15 DEF ReadPub, Parses, Unlocks, Return, Idle, Typed, TypeOK, LocalsOK, Pcs,
               InDirs, Writing, Reading
<1>16. ASSUME NEW p \in Procs, Export(p) PROVE Typed'
  BY <1>16 DEF Export, Parses, Typed, TypeOK, LocalsOK
<1>17. ASSUME NEW p \in Procs, SystemError(p) PROVE Typed'
  BY <1>17, FailTyped DEF SystemError, Typed, TypeOK
<1>18. ASSUME NEW p \in Procs, Crash(p) PROVE Typed'
  BY <1>18 DEF Crash, Return, Idle, Typed, TypeOK, LocalsOK, Pcs, InDirs, Writing, Reading
<1>. QED
  BY <1>1, <1>2, <1>3, <1>4, <1>5, <1>6, <1>7, <1>8, <1>9, <1>10, <1>11, <1>12, <1>13,
     <1>14, <1>15, <1>16, <1>17, <1>18, <1>19, <1>20, <1>21, <1>22 DEF Next, Begin, Step

\* The type invariant of initialize, load_identity and export_profile.
THEOREM TypeCorrect == Spec => []TypeOK
<1>1. Spec => []Typed
  BY InitTyped, TypedStep, PTL DEF Spec
<1>2. Typed => TypeOK
  BY DEF Typed
<1>. QED BY <1>1, <1>2, PTL

-----------------------------------------------------------------------------
(***************************************************************************)
(* Ownership.                                                              *)
(***************************************************************************)
LEMMA InitIInv == Init => IInv
<1> SUFFICES ASSUME Init PROVE IInv
  OBVIOUS
<1>1. \A p \in Procs : proc[p].pc = "idle"
  BY DEF Init, Idle
<1>2. \A p \in Procs : ~OwnsPub(p) /\ ~OwnsKey(p) /\ OwnFiles(p)
  BY <1>1 DEF OwnsPub, OwnsKey, OwnFiles, AfterKey, Writing
<1>3. issued = {} /\ loaded = {} /\ exported = {} /\ file[Enc] = Absent
  BY DEF Init, Files
<1>. QED
  BY InitTyped, <1>1, <1>2, <1>3
     DEF IInv, OneOwner, ReadersOK, LoadedOK, IssuedLoadable, NoFault, EncImpliesPub,
         ExportedHolds

\* A step of p that writes nothing and leaves p without a file of its own
\* disturbs nobody.
LEMMA QuietStep ==
  ASSUME IInv, Typed', NEW p \in Procs,
         \A q \in Procs \ {p} : proc'[q] = proc[q],
         ~OwnsPub(p)', ~OwnsKey(p)', proc'[p].pc \notin {"write", "settle", "rollback"},
         proc'[p].pc = "readPub" => proc'[p].box \in {file[Enc], Torn} \ {Absent},
         UNCHANGED <<file, issued, loaded, exported>>, faulted => faulted'
  PROVE  IInv'
<1>1. ASSUME NEW q \in Procs PROVE OwnFiles(q)'
  <2>1. CASE q = p
    BY <2>1 DEF OwnFiles, OwnsKey, OwnsPub, AfterKey, Writing
  <2>2. CASE q # p
    BY <2>2 DEF IInv, OwnFiles, AfterKey
  <2>. QED BY <2>1, <2>2
<1>2. OneOwner'
  BY DEF IInv, OneOwner, OwnsKey, OwnsPub, AfterKey
<1>3. ReadersOK'
  BY DEF IInv, ReadersOK
<1>4. NoFault'
  BY DEF IInv, NoFault, OwnsPub
<1>. QED
  BY <1>1, <1>2, <1>3, <1>4
     DEF IInv, LoadedOK, IssuedLoadable, EncImpliesPub, ExportedHolds

\* A step of p that writes nothing and keeps what p owns, as when a write
\* ends or the write of the encrypted identity fails.
LEMMA RollbackStep ==
  ASSUME IInv, Typed', NEW p \in Procs,
         proc[p].at = Enc, proc[p].pc \in Writing,
         proc' = [proc EXCEPT ![p].pc = "rollback"],
         UNCHANGED <<file, issued, loaded, exported>>, faulted'
  PROVE  IInv'
<1> USE DEF Typed, TypeOK, Locals
<1>1. ASSUME NEW q \in Procs PROVE OwnFiles(q)'
  <2>1. CASE q = p
    BY <2>1 DEF IInv, OwnFiles, AfterKey, Writing
  <2>2. CASE q # p
    BY <2>2 DEF IInv, OwnFiles, AfterKey
  <2>. QED BY <2>1, <2>2
<1>2. ASSUME NEW q \in Procs
      PROVE  /\ OwnsKey(q)' <=> OwnsKey(q)
             /\ OwnsPub(q)' <=> OwnsPub(q)
             /\ proc'[q].path = proc[q].path
  <2>1. CASE q = p
    <3>1. /\ proc'[p].at = Enc /\ proc'[p].pc = "rollback"
          /\ proc'[p].path = proc[p].path
      OBVIOUS
    <3>. QED BY <2>1, <3>1 DEF OwnsKey, OwnsPub, AfterKey
  <2>2. CASE q # p
    BY <2>2 DEF OwnsKey, OwnsPub, AfterKey
  <2>. QED BY <2>1, <2>2
<1>3. OneOwner'
  BY <1>2 DEF IInv, OneOwner
<1>4. ReadersOK'
  BY DEF IInv, ReadersOK
<1>. QED
  BY <1>1, <1>3, <1>4
     DEF IInv, LoadedOK, IssuedLoadable, NoFault, EncImpliesPub, ExportedHolds

\* What a process owns is there.
LEMMA OwnedExists ==
  ASSUME IInv, NEW q \in Procs
  PROVE  /\ OwnsKey(q) => proc[q].path \in UnlockPaths /\ file[proc[q].path] # Absent
         /\ OwnsPub(q) => file[Pub] # Absent
<1> USE PathAssumption, SentinelAssumption DEF IInv, Typed
<1>1. proc[q].pc \in {"write", "settle"} => file[proc[q].at] # Absent
  BY DEF LocalsOK, OwnFiles, Writing
<1>2. AfterKey(q) => file[proc[q].path] # Absent
  BY DEF LocalsOK, OwnFiles, AfterKey, Writing
<1>3. OwnsKey(q) => file[proc[q].path] # Absent
  BY <1>1, <1>2 DEF OwnsKey
<1>4. OwnsKey(q) => proc[q].path \in UnlockPaths
  BY DEF OwnsKey, AfterKey, LocalsOK, Writing
<1>5. OwnsPub(q) => file[Pub] # Absent
  BY <1>1 DEF OwnsPub, OwnFiles, LocalsOK, Writing
<1>. QED BY <1>3, <1>4, <1>5

\* A change to one file does not disturb a process that does not own it.
LEMMA OthersUndisturbed ==
  ASSUME IInv, NEW q \in Procs, proc'[q] = proc[q],
         NEW f \in Files, \A g \in Files \ {f} : file'[g] = file[g],
         f \in {Pub, Enc} => ~OwnsPub(q),
         f \in UnlockPaths => ~(OwnsKey(q) /\ proc[q].path = f)
  PROVE  OwnFiles(q)'
<1> USE PathAssumption, SentinelAssumption DEF IInv, Typed
<1>1. proc[q].pc \in {"write", "settle"} => file'[proc[q].at] = file[proc[q].at]
  BY DEF LocalsOK, OwnsKey, OwnsPub, Writing, Files, Pub, Enc
<1>2. AfterKey(q) => file'[proc[q].path] = file[proc[q].path]
  BY DEF LocalsOK, OwnsKey, AfterKey, Writing, Files, Pub, Enc
<1>3. proc[q].at = Enc /\ proc[q].pc \in Writing \cup {"rollback"} => file'[Pub] = file[Pub]
  BY DEF OwnsPub, Files, Pub, Enc
<1>. QED BY <1>1, <1>2, <1>3 DEF OwnFiles, AfterKey

\* create_new succeeds: p now owns the file.
LEMMA CreateStep ==
  ASSUME IInv, Typed', NEW p \in Procs, CreateNew(p), file[proc[p].at] = Absent
  PROVE  IInv'
<1> DEFINE f == proc[p].at
<1> USE PathAssumption, SentinelAssumption
<1>1. /\ proc' = [proc EXCEPT ![p].pc = "write"]
      /\ file' = [file EXCEPT ![f] = Torn]
      /\ proc[p].pc = "create"
      /\ UNCHANGED <<issued, loaded, exported, faulted>>
  BY DEF CreateNew, Goto
<1>2. /\ proc \in [Procs -> Locals] /\ file \in [Files -> FileState]
      /\ proc[p].path \in UnlockPaths /\ proc[p].key \in Draws
      /\ f \in {proc[p].path, Pub, Enc} /\ f \in Files
  BY <1>1 DEF IInv, Typed, TypeOK, LocalsOK, Writing, Files
<1>3. /\ proc'[p].pc = "write" /\ proc'[p].at = f /\ proc'[p].path = proc[p].path
      /\ proc'[p].key = proc[p].key
      /\ \A q \in Procs \ {p} : proc'[q] = proc[q]
  BY <1>1, <1>2 DEF Locals
<1>4. file'[f] = Torn /\ \A g \in Files \ {f} : file'[g] = file[g]
  BY <1>1, <1>2
<1>5. ASSUME NEW q \in Procs \ {p}
      PROVE  /\ f \in {Pub, Enc} => ~OwnsPub(q)
             /\ f \in UnlockPaths => ~(OwnsKey(q) /\ proc[q].path = f)
             /\ OwnsPub(q)' <=> OwnsPub(q)
             /\ OwnsKey(q)' <=> OwnsKey(q)
  <2>1. f = Enc => OwnsPub(p)
    BY <1>1 DEF OwnsPub, Writing
  <2>2. f = Pub => ~OwnsPub(q)
    BY OwnedExists
  <2>3. f = Enc => ~OwnsPub(q)
    BY <2>1 DEF IInv, OneOwner
  <2>4. f \in UnlockPaths => ~(OwnsKey(q) /\ proc[q].path = f)
    BY OwnedExists
  <2>. QED BY <1>3, <2>2, <2>3, <2>4 DEF OwnsPub, OwnsKey, AfterKey
<1>6. ASSUME NEW q \in Procs PROVE OwnFiles(q)'
  <2>1. CASE q = p
    <3>1. f \in {Pub, Enc} => file'[proc[p].path] = proc[p].key
      BY <1>1, <1>2, <1>4 DEF IInv, OwnFiles, AfterKey, Writing, Files, Pub, Enc
    <3>2. f = Enc => file'[Pub] = proc[p].key
      BY <1>1, <1>2, <1>4 DEF IInv, OwnFiles, Writing, Files, Pub, Enc
    <3>. QED BY <2>1, <3>1, <3>2, <1>3, <1>4 DEF OwnFiles, AfterKey
  <2>2. CASE q # p
    BY <2>2, <1>2, <1>3, <1>4, <1>5, OthersUndisturbed
  <2>. QED BY <2>1, <2>2
<1>7. f \in {Pub, Enc} => issued = {}
  <2>1. f = Pub => issued = {}
    BY DEF IInv, Typed, TypeOK, IssuedLoadable
  <2>2. f = Enc => issued = {}
    BY <1>1 DEF IInv, OneOwner, OwnsPub, Writing
  <2>. QED BY <2>1, <2>2
<1>8. OneOwner'
  <2>1. OwnsPub(p)' => f \in {Pub, Enc}
    BY <1>3 DEF OwnsPub
  <2>2. \A q \in Procs \ {p} : OwnsKey(q) => ~(OwnsKey(p)' /\ proc[q].path = proc[p].path)
    <3> SUFFICES ASSUME NEW q \in Procs \ {p}, OwnsKey(q), proc[q].path = proc[p].path
                 PROVE  ~OwnsKey(p)'
      OBVIOUS
    <3>1. f # proc[p].path
      BY <1>2, <1>5
    <3>2. ~OwnsKey(p)
      BY DEF IInv, OneOwner
    <3>. QED BY <1>1, <1>3, <3>1, <3>2, <1>2 DEF OwnsKey, AfterKey, Writing
  <2>. QED BY <1>1, <1>3, <1>5, <1>7, <2>1, <2>2 DEF IInv, OneOwner
<1>9. ReadersOK'
  BY <1>1, <1>2, <1>3, <1>4 DEF IInv, ReadersOK
<1>10. LoadedOK'
  BY <1>1, <1>2, <1>4 DEF IInv, Typed, TypeOK, LoadedOK
<1>11. IssuedLoadable'
  BY <1>1, <1>2, <1>4 DEF IInv, Typed, TypeOK, IssuedLoadable, Files
<1>12. NoFault'
  BY <1>1, <1>2, <1>3, <1>4, <1>5 DEF IInv, NoFault, EncImpliesPub, OwnsPub, Writing, Files,
     Pub, Enc
<1>13. EncImpliesPub'
  <2>1. f = Enc => file[Pub] # Absent
    BY <1>1, <1>2 DEF IInv, OwnFiles, Writing
  <2>. QED BY <1>1, <1>4, <2>1 DEF IInv, EncImpliesPub, Files, Pub, Enc
<1>14. ExportedHolds'
  BY <1>1, <1>2, <1>4 DEF IInv, Typed, TypeOK, ExportedHolds, Files
<1>. QED
  BY <1>6, <1>8, <1>9, <1>10, <1>11, <1>12, <1>13, <1>14 DEF IInv

\* The file p has created gets its content.
LEMMA WriteStep ==
  ASSUME IInv, Typed', NEW p \in Procs, WriteAll(p)
  PROVE  IInv'
<1> DEFINE f == proc[p].at
<1> USE PathAssumption, SentinelAssumption
<1>1. /\ proc' = [proc EXCEPT ![p].pc = "settle"]
      /\ file' = [file EXCEPT ![f] = proc[p].key]
      /\ proc[p].pc = "write"
      /\ UNCHANGED <<issued, loaded, exported, faulted>>
  BY DEF WriteAll, Goto
<1>2. /\ proc \in [Procs -> Locals] /\ file \in [Files -> FileState]
      /\ proc[p].path \in UnlockPaths /\ proc[p].key \in Draws
      /\ f \in {proc[p].path, Pub, Enc} /\ f \in Files
  BY <1>1 DEF IInv, Typed, TypeOK, LocalsOK, Writing, Files
<1>3. /\ proc'[p].pc = "settle" /\ proc'[p].at = f /\ proc'[p].path = proc[p].path
      /\ proc'[p].key = proc[p].key
      /\ \A q \in Procs \ {p} : proc'[q] = proc[q]
  BY <1>1, <1>2 DEF Locals
<1>4. /\ file[f] = Torn /\ file'[f] = proc[p].key
      /\ \A g \in Files \ {f} : file'[g] = file[g]
  BY <1>1, <1>2 DEF IInv, OwnFiles
<1>5. /\ f \in {Pub, Enc} => OwnsPub(p)
      /\ f \in UnlockPaths => f = proc[p].path
      /\ OwnsKey(p)
  BY <1>1, <1>2 DEF OwnsPub, OwnsKey, AfterKey, Writing, Pub, Enc
<1>6. ASSUME NEW q \in Procs
      PROVE  (OwnsPub(q)' <=> OwnsPub(q)) /\ (OwnsKey(q)' <=> OwnsKey(q))
             /\ proc'[q].path = proc[q].path
  BY <1>1, <1>3 DEF OwnsPub, OwnsKey, AfterKey, Writing
<1>7. ASSUME NEW q \in Procs PROVE OwnFiles(q)'
  <2>1. CASE q = p
    <3>1. f \in {Pub, Enc} => file'[proc[p].path] = proc[p].key
      BY <1>1, <1>2, <1>4 DEF IInv, OwnFiles, AfterKey, Writing, Files, Pub, Enc
    <3>2. f = Enc => file'[Pub] = proc[p].key
      BY <1>1, <1>2, <1>4 DEF IInv, OwnFiles, Writing, Files, Pub, Enc
    <3>. QED BY <2>1, <3>1, <3>2, <1>3, <1>4 DEF OwnFiles, AfterKey
  <2>2. CASE q # p
    <3>1. f \in {Pub, Enc} => ~OwnsPub(q)
      BY <2>2, <1>5 DEF IInv, OneOwner
    <3>2. f \in UnlockPaths => ~(OwnsKey(q) /\ proc[q].path = f)
      BY <2>2, <1>5 DEF IInv, OneOwner
    <3>. QED BY <2>2, <1>2, <1>3, <1>4, <3>1, <3>2, OthersUndisturbed
  <2>. QED BY <2>1, <2>2
<1>8. OneOwner'
  BY <1>1, <1>6 DEF IInv, OneOwner
<1>9. ReadersOK'
  BY <1>1, <1>2, <1>3, <1>4 DEF IInv, ReadersOK, Files, Pub, Enc
<1>10. LoadedOK'
  BY <1>1, <1>2, <1>4 DEF IInv, Typed, TypeOK, LoadedOK, Files
<1>11. IssuedLoadable'
  BY <1>1, <1>2, <1>4 DEF IInv, Typed, TypeOK, IssuedLoadable, Files
<1>12. NoFault'
  <2>1. f = Enc => \A q \in Procs : OwnsPub(q) => q = p
    BY <1>5 DEF IInv, OneOwner
  <2>2. f # Enc => file'[Enc] = file[Enc]
    BY <1>4 DEF Files
  <2>3. f = Enc => proc'[p].at = Enc /\ proc'[p].pc # "create"
    BY <1>3
  <2>. QED BY <1>1, <1>3, <1>6, <2>1, <2>2, <2>3 DEF IInv, NoFault
<1>13. EncImpliesPub'
  BY <1>1, <1>2, <1>4 DEF IInv, EncImpliesPub, Files, Pub, Enc
<1>14. ExportedHolds'
  BY <1>1, <1>2, <1>4 DEF IInv, Typed, TypeOK, ExportedHolds, Files
<1>. QED
  BY <1>7, <1>8, <1>9, <1>10, <1>11, <1>12, <1>13, <1>14 DEF IInv

\* A complete file: p goes on to the next one.
LEMMA SettleStep ==
  ASSUME IInv, Typed', NEW p \in Procs, Settle(p)
  PROVE  IInv'
<1> USE PathAssumption, SentinelAssumption
<1>1. /\ proc[p].pc = "settle"
      /\ UNCHANGED <<file, issued, loaded, exported, faulted>>
      /\ \/ proc[p].at = proc[p].path /\ proc' = [proc EXCEPT ![p].pc = "create", ![p].at = Pub]
         \/ proc[p].at = Pub /\ proc' = [proc EXCEPT ![p].pc = "create", ![p].at = Enc]
  BY DEF Settle, GotoAt
<1>2. /\ proc \in [Procs -> Locals] /\ proc[p].path \in UnlockPaths
      /\ proc[p].at \in {proc[p].path, Pub}
  BY <1>1 DEF IInv, Typed, TypeOK, LocalsOK, Writing
<1>3. /\ proc'[p].pc = "create" /\ proc'[p].path = proc[p].path
      /\ proc'[p].at = (IF proc[p].at = Pub THEN Enc ELSE Pub)
      /\ proc'[p].key = proc[p].key
      /\ \A q \in Procs \ {p} : proc'[q] = proc[q]
  BY <1>1, <1>2 DEF Locals, Pub, Enc
<1>4. ASSUME NEW q \in Procs
      PROVE  (OwnsPub(q)' <=> OwnsPub(q)) /\ (OwnsKey(q)' <=> OwnsKey(q))
             /\ proc'[q].path = proc[q].path
  BY <1>1, <1>2, <1>3 DEF OwnsPub, OwnsKey, AfterKey, Writing, Pub, Enc
<1>5. ASSUME NEW q \in Procs PROVE OwnFiles(q)'
  <2>1. CASE q = p
    <3>1. file[proc[p].path] = proc[p].key
      BY <1>1, <1>2 DEF IInv, OwnFiles, AfterKey, Writing
    <3>2. proc[p].at = Pub => file[Pub] = proc[p].key
      BY <1>1 DEF IInv, OwnFiles
    <3>. QED BY <1>1, <1>2, <1>3, <2>1, <3>1, <3>2 DEF OwnFiles, AfterKey, Pub, Enc
  <2>2. CASE q # p
    BY <1>1, <1>3, <2>2 DEF IInv, OwnFiles, AfterKey
  <2>. QED BY <2>1, <2>2
<1>6. OneOwner'
  BY <1>1, <1>4 DEF IInv, OneOwner
<1>7. ReadersOK'
  BY <1>1, <1>3 DEF IInv, ReadersOK
<1>8. NoFault'
  <2>1. ~faulted /\ proc[p].at = Pub => file[Enc] = Absent
    BY <1>1 DEF IInv, NoFault, OwnsPub, Pub, Enc
  <2>. QED BY <1>1, <1>2, <1>3, <1>4, <2>1 DEF IInv, NoFault, OwnsPub, Writing, Pub, Enc
<1>. QED
  BY <1>1, <1>5, <1>6, <1>7, <1>8
     DEF IInv, LoadedOK, IssuedLoadable, EncImpliesPub, ExportedHolds

\* The identity is issued.
LEMMA IssueStep ==
  ASSUME IInv, Typed', NEW p \in Procs, Issue(p)
  PROVE  IInv'
<1>1. /\ proc[p].pc = "settle" /\ proc[p].at = Enc
      /\ issued' = issued \cup {[draw |-> proc[p].key, path |-> proc[p].path]}
      /\ proc' = [proc EXCEPT ![p] = Idle]
      /\ UNCHANGED <<file, loaded, exported, faulted>>
  BY DEF Issue, Return
<1>2. /\ proc'[p].pc = "idle" /\ \A q \in Procs \ {p} : proc'[q] = proc[q]
  BY <1>1 DEF IInv, Typed, TypeOK, Idle
<1>3. /\ OwnsPub(p) /\ issued = {}
      /\ file[Enc] = proc[p].key /\ file[Pub] = proc[p].key
      /\ file[proc[p].path] = proc[p].key
  BY <1>1 DEF IInv, OneOwner, OwnFiles, OwnsPub, AfterKey, Writing
<1>4. ~OwnsPub(p)' /\ ~OwnsKey(p)'
  BY <1>2 DEF OwnsPub, OwnsKey, AfterKey, Writing
<1>5. ASSUME NEW q \in Procs PROVE OwnFiles(q)'
  BY <1>1, <1>2 DEF IInv, OwnFiles, AfterKey, Writing
<1>6. OneOwner'
  <2>1. \A q \in Procs : ~OwnsPub(q)'
    BY <1>2, <1>3, <1>4 DEF IInv, OneOwner, OwnsPub
  <2>. QED BY <1>2, <1>4, <2>1 DEF IInv, OneOwner, OwnsKey, AfterKey
<1>7. ReadersOK' /\ NoFault'
  BY <1>1, <1>2, <1>4 DEF IInv, ReadersOK, NoFault, OwnsPub
<1>8. IssuedLoadable'
  BY <1>1, <1>3 DEF IssuedLoadable
<1>. QED
  BY <1>1, <1>5, <1>6, <1>7, <1>8 DEF IInv, LoadedOK, EncImpliesPub, ExportedHolds

\* The public profile of a failed `initialize` is removed by its owner.
LEMMA RemoveStep ==
  ASSUME IInv, Typed', NEW p \in Procs, Rollback(p)
  PROVE  IInv'
<1> USE PathAssumption, SentinelAssumption
<1>1. /\ proc[p].pc = "rollback" /\ faulted
      /\ file' = [file EXCEPT ![Pub] = Absent]
      /\ proc' = [proc EXCEPT ![p] = Idle]
      /\ UNCHANGED <<issued, loaded, exported, faulted>>
  BY DEF Rollback, Return, IInv, NoFault
<1>2. /\ proc'[p].pc = "idle" /\ \A q \in Procs \ {p} : proc'[q] = proc[q]
  BY <1>1 DEF IInv, Typed, TypeOK, Idle
<1>3. OwnsPub(p) /\ issued = {}
  BY <1>1 DEF IInv, Typed, LocalsOK, OneOwner, OwnsPub
<1>4. ~OwnsPub(p)' /\ ~OwnsKey(p)'
  BY <1>2 DEF OwnsPub, OwnsKey, AfterKey, Writing
<1>5. Pub \in Files /\ Enc \in Files /\ \A g \in Files \ {Pub} : file'[g] = file[g]
  BY <1>1 DEF IInv, Typed, TypeOK, Files
<1>6. ASSUME NEW q \in Procs PROVE OwnFiles(q)'
  <2>1. CASE q = p
    BY <1>2, <2>1 DEF OwnFiles, AfterKey, Writing
  <2>2. CASE q # p
    <3>1. ~OwnsPub(q)
      BY <1>3, <2>2 DEF IInv, OneOwner
    <3>2. Pub \notin UnlockPaths
      BY DEF Pub
    <3>. QED BY <1>2, <1>5, <2>2, <3>1, <3>2, OthersUndisturbed
  <2>. QED BY <2>1, <2>2
<1>7. OneOwner'
  BY <1>1, <1>2, <1>4 DEF IInv, OneOwner, OwnsPub, OwnsKey, AfterKey
<1>8. file'[Enc] = file[Enc]
  BY <1>5 DEF Pub, Enc
<1>9. ReadersOK' /\ LoadedOK'
  BY <1>1, <1>2, <1>8 DEF IInv, ReadersOK, LoadedOK
<1>. QED
  BY <1>1, <1>3, <1>6, <1>7, <1>9
     DEF IInv, IssuedLoadable, NoFault, EncImpliesPub, ExportedHolds

\* load_identity returns an identity.
LEMMA LoadStep ==
  ASSUME IInv, Typed', NEW p \in Procs, ReadPub(p)
  PROVE  IInv'
<1>1. /\ proc[p].pc = "readPub" /\ proc' = [proc EXCEPT ![p] = Idle]
      /\ UNCHANGED <<file, issued, exported, faulted>>
  BY DEF ReadPub, Return
<1>2. /\ proc'[p].pc = "idle" /\ \A q \in Procs \ {p} : proc'[q] = proc[q]
  BY <1>1 DEF IInv, Typed, TypeOK, Idle
<1>3. ~OwnsPub(p)' /\ ~OwnsKey(p)'
  BY <1>2 DEF OwnsPub, OwnsKey, AfterKey, Writing
<1>4. LoadedOK'
  BY <1>1, SentinelAssumption DEF ReadPub, Unlocks, Parses, IInv, LoadedOK, ReadersOK
<1>5. ASSUME NEW q \in Procs PROVE OwnFiles(q)'
  BY <1>1, <1>2 DEF IInv, OwnFiles, AfterKey, Writing
<1>6. OneOwner' /\ ReadersOK' /\ NoFault'
  BY <1>1, <1>2, <1>3 DEF IInv, OneOwner, OwnsPub, OwnsKey, AfterKey, ReadersOK, NoFault
<1>. QED
  BY <1>1, <1>4, <1>5, <1>6 DEF IInv, IssuedLoadable, EncImpliesPub, ExportedHolds

\* The error path of a call.
LEMMA FailStep ==
  ASSUME IInv, Typed', NEW p \in Procs, Fail(p),
         UNCHANGED <<file, issued, loaded, exported>>, faulted => faulted',
         proc[p].pc \in Writing /\ proc[p].at = Enc => faulted'
  PROVE  IInv'
<1>1. CASE proc[p].pc \in Writing /\ proc[p].at = Enc
  BY <1>1, RollbackStep DEF Fail, Goto
<1>2. CASE ~(proc[p].pc \in Writing /\ proc[p].at = Enc)
  <2>1. proc' = [proc EXCEPT ![p] = Idle]
    BY <1>2 DEF Fail, Return
  <2>2. proc'[p].pc = "idle" /\ \A q \in Procs \ {p} : proc'[q] = proc[q]
    BY <2>1 DEF IInv, Typed, TypeOK, Idle
  <2>3. ~OwnsPub(p)' /\ ~OwnsKey(p)'
    BY <2>2 DEF OwnsPub, OwnsKey, AfterKey, Writing
  <2>. QED BY <2>2, <2>3, QuietStep
<1>. QED BY <1>1, <1>2

\* Every step that neither writes nor returns an identity.
LEMMA LocalStep ==
  ASSUME IInv, Typed', NEW p \in Procs,
         \/ \E u \in UnlockPaths : BeginInit(p, u) \/ WizardInside(p, u) \/ BeginLoad(p, u)
         \/ BeginImport(p) \/ Refuse(p)
         \/ Check(p) \/ SeeDir(p) \/ MakeDir(p) \/ LockDir(p) \/ Draw(p)
         \/ ReadKey(p) \/ ReadEnc(p) \/ Crash(p)
  PROVE  IInv'
<1> USE PathAssumption, SentinelAssumption DEF IInv, Typed, TypeOK, Locals
<1>1. UNCHANGED <<file, issued, loaded, exported>> /\ (faulted => faulted')
  BY DEF BeginInit, WizardInside, BeginLoad, BeginImport, Refuse, Check, SeeDir, MakeDir, LockDir,
         Draw, ReadKey, ReadEnc, Crash
<1>2. \A q \in Procs \ {p} : proc'[q] = proc[q]
  BY DEF BeginInit, WizardInside, BeginLoad, BeginImport, Refuse, Check, SeeDir, DirReady, MakeDir,
         LockDir, Draw, ReadKey, ReadEnc, Crash, Return, Goto, GotoAt
<1>3. /\ proc'[p].pc \notin {"write", "settle", "rollback"}
      /\ proc'[p].pc = "create" => proc'[p].at = proc'[p].path
      /\ proc'[p].pc = "readPub" => proc'[p].box = file[Enc] /\ file[Enc] # Absent
  <2>1. CASE \E u \in UnlockPaths : BeginInit(p, u) \/ WizardInside(p, u) \/ BeginLoad(p, u)
    <3>1. PICK u \in UnlockPaths : BeginInit(p, u) \/ WizardInside(p, u) \/ BeginLoad(p, u)
      BY <2>1
    <3>2. CASE BeginInit(p, u)
      <4>1. proc' = [proc EXCEPT ![p] = [proc[p] EXCEPT !.pc = "check", !.path = u, !.at = Pub]]
        BY <3>2 DEF BeginInit
      <4>2. proc'[p].pc = "check"
        BY <4>1
      <4>. QED BY <4>2
    <3>3. CASE BeginLoad(p, u)
      <4>1. proc' = [proc EXCEPT ![p] = [proc[p] EXCEPT !.pc = "readKey", !.path = u]]
        BY <3>3 DEF BeginLoad
      <4>2. proc'[p].pc = "readKey"
        BY <4>1
      <4>. QED BY <4>2
    <3>4. CASE WizardInside(p, u)
      BY <3>4 DEF WizardInside, Goto
    <3>. QED BY <3>1, <3>2, <3>3, <3>4
  <2>2. CASE BeginImport(p) \/ Refuse(p) \/ Check(p) \/ Crash(p)
    BY <2>2 DEF BeginImport, Refuse, Check, Crash, Return, GotoAt, Idle
  <2>3. CASE SeeDir(p) \/ MakeDir(p) \/ LockDir(p)
    BY <2>3 DEF SeeDir, MakeDir, LockDir, DirReady, Return, Goto, GotoAt, Idle
  <2>4. CASE Draw(p)
    <3>1. proc[p].at = proc[p].path
      BY <2>4 DEF Draw, LocalsOK
    <3>2. PICK d \in Draws : proc' = [proc EXCEPT ![p].pc = "create", ![p].key = d]
      BY <2>4 DEF Draw
    <3>3. proc'[p].pc = "create" /\ proc'[p].at = proc[p].at /\ proc'[p].path = proc[p].path
      BY <3>2
    <3>. QED BY <3>1, <3>3
  <2>5. CASE ReadKey(p) \/ ReadEnc(p)
    BY <2>5 DEF ReadKey, ReadEnc, Return, Idle
  <2>. QED BY <2>1, <2>2, <2>3, <2>4, <2>5
<1>4. ~OwnsPub(p)' /\ ~OwnsKey(p)'
  <2>1. proc'[p].pc = "create" => proc'[p].at \notin {Pub, Enc}
    BY <1>3 DEF LocalsOK, Writing
  <2>. QED BY <1>3, <2>1 DEF OwnsPub, OwnsKey, AfterKey, Writing
<1>5. proc'[p].pc = "readPub" => proc'[p].box \in {file[Enc], Torn} \ {Absent}
  BY <1>3
<1>. QED BY <1>1, <1>2, <1>3, <1>4, <1>5, QuietStep

\* No step of a command, failing call or crash breaks the invariant.
LEMMA NextIInv == IInv /\ [Next]_vars => IInv'
<1> SUFFICES ASSUME IInv, [Next]_vars PROVE IInv'
  OBVIOUS
<1>1. Typed'
  BY TypedStep DEF IInv
<1>2. CASE UNCHANGED <<file, proc, issued, loaded, faulted>> /\ ExportedHolds'
  BY <1>1, <1>2 DEF IInv, OwnFiles, AfterKey, OneOwner, OwnsPub, OwnsKey, ReadersOK, LoadedOK,
     IssuedLoadable, NoFault, EncImpliesPub
<1>3. CASE UNCHANGED vars
  BY <1>2, <1>3 DEF vars, IInv, ExportedHolds
<1>4. ASSUME NEW p \in Procs, Begin(p) \/ Step(p) \/ Export(p) \/ SystemError(p) \/ Crash(p)
      PROVE  IInv'
  <2>1. CASE Begin(p) \/ Crash(p)
    BY <1>1, <2>1, LocalStep DEF Begin
  <2>2. CASE Export(p)
    BY <1>2, <2>2 DEF Export, IInv, ExportedHolds
  <2>3. CASE SystemError(p)
    BY <1>1, <2>3, FailStep DEF SystemError
  <2>4. CASE CreateNew(p)
    <3>1. CASE file[proc[p].at] = Absent
      BY <1>1, <2>4, <3>1, CreateStep
    <3>2. CASE file[proc[p].at] # Absent
      <4>1. /\ Fail(p) /\ UNCHANGED <<file, issued, loaded, exported, faulted>>
            /\ proc[p].pc = "create"
        BY <2>4, <3>2 DEF CreateNew
      <4>2. proc[p].at = Enc => faulted'
        BY <3>2, <4>1 DEF IInv, NoFault, OwnsPub, Writing
      <4>. QED BY <1>1, <4>1, <4>2, FailStep
    <3>. QED BY <3>1, <3>2
  <2>5. CASE WriteAll(p) \/ Settle(p) \/ Issue(p) \/ Rollback(p) \/ ReadPub(p)
    BY <1>1, <2>5, WriteStep, SettleStep, IssueStep, RemoveStep, LoadStep
  <2>6. CASE \/ Refuse(p) \/ Check(p) \/ SeeDir(p) \/ MakeDir(p) \/ LockDir(p) \/ Draw(p)
             \/ ReadKey(p) \/ ReadEnc(p)
    BY <1>1, <2>6, LocalStep
  <2>. QED BY <1>4, <2>1, <2>2, <2>3, <2>4, <2>5, <2>6 DEF Step
<1>. QED BY <1>3, <1>4 DEF Next

\* The inductive invariant holds: a file being written has one owner, the
\* `initialize` that created it, and none is left when an identity is issued.
THEOREM OwnershipInvariant == Spec => []IInv
  BY InitIInv, NextIInv, PTL DEF Spec

-----------------------------------------------------------------------------
(***************************************************************************)
(* The modes of the directories.  A process that initializes has set the   *)
(* mode of every directory it has left behind it.                          *)
(***************************************************************************)
Locked(p) ==
  /\ proc[p].pc \in InDirs /\ proc[p].path # Absent =>
       /\ proc[p].at # "root" => "root" \in private
       /\ proc[p].at = "contacts" => "identity" \in private
  /\ proc[p].pc \in Writing \cup {"draw"} => DirNames \subseteq private

DirsInv == Typed /\ (\A p \in Procs : Locked(p)) /\ DirsPrivate

\* A step of one process, which makes no directory less private, preserves
\* the invariant if that process keeps its part of it.
LEMMA LockedStep ==
  ASSUME DirsInv, Typed', NEW p \in Procs,
         \A q \in Procs \ {p} : proc'[q] = proc[q],
         private \subseteq private', Locked(p)',
         file' = file \/ (DirNames \subseteq private /\ private' = private)
  PROVE  DirsInv'
<1>1. ASSUME NEW q \in Procs PROVE Locked(q)'
  <2>1. CASE q = p
    BY <2>1
  <2>2. CASE q # p
    BY <2>2 DEF DirsInv, Locked
  <2>. QED BY <2>1, <2>2
<1>2. DirsPrivate'
  BY DEF DirsInv, DirsPrivate
<1>. QED BY <1>1, <1>2 DEF DirsInv

\* Every step keeps directories private and creates files in private ones.
LEMMA NextDirsInv == DirsInv /\ [Next]_vars => DirsInv'
<1> SUFFICES ASSUME DirsInv, [Next]_vars PROVE DirsInv'
  OBVIOUS
<1>1. Typed'
  BY TypedStep DEF DirsInv
<1>2. CASE UNCHANGED vars
  BY <1>1, <1>2 DEF vars, DirsInv, Locked, DirsPrivate
<1>3. ASSUME NEW p \in Procs, Begin(p) \/ Step(p) \/ Export(p) \/ SystemError(p) \/ Crash(p)
      PROVE  DirsInv'
  <2> USE SentinelAssumption DEF DirsInv, Typed, TypeOK, Locals
  <2>1. \A q \in Procs \ {p} : proc'[q] = proc[q]
    BY <1>3 DEF Begin, BeginInit, WizardInside, BeginLoad, BeginImport, Step, Refuse, Check, SeeDir,
       DirReady, MakeDir, LockDir, Draw, CreateNew, WriteAll, Settle, Issue, Rollback, ReadKey,
       ReadEnc, ReadPub, Export, SystemError, Crash, Fail, Return, Goto, GotoAt
  <2>2. private \subseteq private'
    BY <1>3 DEF Begin, BeginInit, WizardInside, BeginLoad, BeginImport, Step, Refuse, Check, SeeDir,
       MakeDir, LockDir, Draw, CreateNew, WriteAll, Settle, Issue, Rollback, ReadKey,
       ReadEnc, ReadPub, Export, SystemError, Crash
  <2>3. file' = file \/ (DirNames \subseteq private /\ private' = private)
    <3>1. CASE CreateNew(p) \/ WriteAll(p)
      BY <3>1 DEF CreateNew, WriteAll, Locked, Writing
    <3>2. CASE Rollback(p)
      <4>1. private' = private
        BY <3>2 DEF Rollback
      <4>2. CASE file[Pub] = Absent
        BY <3>2, <4>2 DEF Rollback
      <4>3. CASE file[Pub] # Absent
        BY <4>1, <4>3 DEF DirsPrivate, Files
      <4>. QED BY <4>2, <4>3
    <3>3. CASE ~(CreateNew(p) \/ WriteAll(p) \/ Rollback(p))
      BY <1>3, <3>3 DEF Begin, BeginInit, WizardInside, BeginLoad, BeginImport, Step, Refuse, Check,
         SeeDir, MakeDir, LockDir, Draw, Settle, Issue, ReadKey, ReadEnc, ReadPub, Export,
         SystemError, Crash
    <3>. QED BY <3>1, <3>2, <3>3
  <2>4. Locked(p)'
    <3>1. CASE Begin(p)
      <4>1. CASE BeginImport(p)
        <5>1. proc'[p].pc = "seeDir" /\ proc'[p].path = Absent
          BY <4>1 DEF BeginImport, GotoAt, LocalsOK
        <5>. QED BY <5>1 DEF Locked, Writing
      <4>2. CASE ~BeginImport(p)
        <5>1. proc'[p].pc \in {"check", "refused", "readKey"}
          <6>1. PICK u \in UnlockPaths : BeginInit(p, u) \/ WizardInside(p, u) \/ BeginLoad(p, u)
            BY <3>1, <4>2 DEF Begin
          <6>2. CASE BeginInit(p, u)
            <7>1. proc' = [proc EXCEPT ![p] = [proc[p] EXCEPT !.pc = "check", !.path = u, !.at = Pub]]
              BY <6>2 DEF BeginInit
            <7>. QED BY <7>1
          <6>3. CASE BeginLoad(p, u)
            <7>1. proc' = [proc EXCEPT ![p] = [proc[p] EXCEPT !.pc = "readKey", !.path = u]]
              BY <6>3 DEF BeginLoad
            <7>. QED BY <7>1
          <6>4. CASE WizardInside(p, u)
            BY <6>4 DEF WizardInside, Goto
          <6>. QED BY <6>1, <6>2, <6>3, <6>4
        <5>. QED BY <5>1 DEF Locked, InDirs, Writing
      <4>. QED BY <4>1, <4>2
    <3>2. CASE Refuse(p) \/ Check(p)
      BY <3>2 DEF Refuse, Check, Return, Idle, GotoAt, Locked, InDirs, Writing
    <3>3. CASE SeeDir(p) \/ MakeDir(p)
      BY <3>3 DEF SeeDir, MakeDir, Return, Idle, Goto, Locked, InDirs, Writing
    <3>4. CASE LockDir(p)
      BY <3>4 DEF LockDir, DirReady, Return, Idle, GotoAt, Locked, InDirs, Writing, DirNames
    <3>5. CASE Draw(p)
      BY <3>5 DEF Draw, Locked, InDirs, Writing
    <3>6. CASE CreateNew(p) \/ WriteAll(p) \/ Settle(p)
      BY <3>6 DEF CreateNew, WriteAll, Settle, Fail, Return, Idle, Goto, GotoAt, Locked, InDirs, Writing
    <3>7. CASE Issue(p) \/ Rollback(p) \/ ReadKey(p) \/ ReadEnc(p) \/ ReadPub(p) \/ Export(p)
      BY <3>7 DEF Issue, Rollback, ReadKey, ReadEnc, ReadPub, Export, Return, Idle, Locked, InDirs, Writing
    <3>8. CASE SystemError(p) \/ Crash(p)
      BY <3>8 DEF SystemError, Crash, Fail, Return, Idle, Goto, Locked, InDirs, Writing
    <3>. QED BY <1>3, <3>1, <3>2, <3>3, <3>4, <3>5, <3>6, <3>7, <3>8 DEF Step
  <2>. QED BY <1>1, <2>1, <2>2, <2>3, <2>4, LockedStep
<1>. QED BY <1>2, <1>3 DEF Next

\* No file of the store is created before all directories are owner only.
THEOREM DirectoriesArePrivate == Spec => []DirsPrivate
<1>1. Init => DirsInv
  <2> SUFFICES ASSUME Init PROVE DirsInv
    OBVIOUS
  <2>1. ASSUME NEW p \in Procs PROVE Locked(p)
    <3>1. proc[p].pc = "idle"
      BY DEF Init, Idle
    <3>. QED BY <3>1 DEF Locked, InDirs, Writing
  <2>2. DirsPrivate
    BY DEF Init, DirsPrivate
  <2>. QED BY <2>1, <2>2, InitTyped DEF DirsInv
<1>2. DirsInv => DirsPrivate
  BY DEF DirsInv
<1>. QED BY <1>1, <1>2, NextDirsInv, PTL DEF Spec

-----------------------------------------------------------------------------
(***************************************************************************)
(* The properties.                                                         *)
(***************************************************************************)

\* What `initialize` has reported stays in place and loadable, whatever the
\* other processes do and wherever they stop.
THEOREM IssuedStaysLoadable == Spec => []IssuedLoadable
  BY OwnershipInvariant, PTL DEF IInv

\* All callers of `initialize` and `load_identity` are handed one identity.
THEOREM OneIdentityOnly == Spec => []OneIdentity
<1>1. IInv => OneIdentity
  BY DEF IInv, IssuedLoadable, LoadedOK, OneIdentity, Handed
<1>. QED BY <1>1, OwnershipInvariant, PTL

\* Without a failing call an exported profile is never taken back.
THEOREM ExportsHold == Spec => []ExportedHolds
  BY OwnershipInvariant, PTL DEF IInv

\* Complete files survive every step but the roll back of an `initialize`
\* that removes its own profile before any identity is issued.
THEOREM CompleteFilesAreKept == Spec => CompleteFilesKept
<1> DEFINE Kept == \A f \in Files :
       file[f] \in Draws =>
         \/ file'[f] = file[f]
         \/ /\ f = Pub /\ file'[f] = Absent /\ issued = {}
            /\ \E p \in Procs : proc[p].pc = "rollback" /\ proc[p].key = file[f]
<1>1. IInv /\ [Next]_vars => [Kept]_vars
  <2> SUFFICES ASSUME IInv, Next, NEW f \in Files, file[f] \in Draws, file'[f] # file[f]
               PROVE  /\ f = Pub /\ file'[f] = Absent /\ issued = {}
                      /\ \E p \in Procs : proc[p].pc = "rollback" /\ proc[p].key = file[f]
    OBVIOUS
  <2> USE SentinelAssumption DEF IInv, Typed, TypeOK
  <2>1. PICK p \in Procs : Rollback(p)
    <3>1. PICK p \in Procs : CreateNew(p) \/ WriteAll(p) \/ Rollback(p)
      BY DEF Next, Begin, Step, BeginInit, WizardInside, BeginLoad, BeginImport, Refuse, Check,
             SeeDir, MakeDir, LockDir, Draw, Settle, Issue,
             ReadKey, ReadEnc, ReadPub, Export, SystemError, Crash
    <3>2. ~CreateNew(p)
      BY DEF CreateNew
    <3>3. ~WriteAll(p)
      BY DEF WriteAll, OwnFiles
    <3>. QED BY <3>1, <3>2, <3>3
  <2>2. proc[p].pc = "rollback" /\ file' = [file EXCEPT ![Pub] = Absent]
    BY <2>1 DEF Rollback
  <2>3. f = Pub /\ file'[f] = Absent
    BY <2>2
  <2>4. issued = {} /\ proc[p].key = file[f]
    BY <2>2, <2>3 DEF LocalsOK, OwnFiles, OneOwner, OwnsPub
  <2>. QED BY <2>2, <2>3, <2>4
<1>2. Spec => [][Kept]_vars
  BY <1>1, OwnershipInvariant, PTL DEF Spec
<1>. QED BY <1>2 DEF CompleteFilesKept

\* The two files and three-step reads and writes implement the abstract vault.
THEOREM VaultImplemented == Spec => ImplementsVault
<1> DEFINE v == IF file[Enc] \in Draws THEN file[Enc] ELSE Absent
<1>1. Init => Vault!Init
  BY SentinelAssumption DEF Init, Vault!Init, Handed, Files
<1>2. IInv /\ [Next]_vars => [Vault!Next]_(Vault!vars)
  <2> SUFFICES ASSUME IInv, [Next]_vars PROVE [Vault!Next]_(Vault!vars)
    OBVIOUS
  <2> USE SentinelAssumption DEF IInv, Typed, TypeOK
  <2>1. CASE UNCHANGED <<issued, loaded>> /\ v' = v
    BY <2>1 DEF Vault!vars, Handed
  <2>2. CASE UNCHANGED vars
    BY <2>1, <2>2 DEF vars
  <2>3. ASSUME NEW p \in Procs, CreateNew(p) PROVE UNCHANGED <<issued, loaded>> /\ v' = v
    BY <2>3 DEF CreateNew, Files
  <2>4. ASSUME NEW p \in Procs, WriteAll(p) PROVE [Vault!Next]_(Vault!vars)
    <3>1. /\ proc[p].pc = "write" /\ file' = [file EXCEPT ![proc[p].at] = proc[p].key]
          /\ UNCHANGED <<issued, loaded>>
      BY <2>4 DEF WriteAll
    <3>2. CASE proc[p].at # Enc
      BY <2>1, <3>1, <3>2 DEF Files
    <3>3. CASE proc[p].at = Enc
      <4>1. file[Enc] = Torn /\ proc[p].key \in Draws
        BY <3>1, <3>3 DEF OwnFiles, LocalsOK, Writing
      <4>2. v = Absent /\ v' \in Draws
        BY <3>1, <3>3, <4>1 DEF Files
      <4>. QED BY <3>1, <4>2 DEF Vault!Next, Vault!Establish, Handed
    <3>. QED BY <3>2, <3>3
  <2>5. ASSUME NEW p \in Procs, Issue(p) PROVE [Vault!Next]_(Vault!vars)
    <3>1. /\ issued' = issued \cup {[draw |-> proc[p].key, path |-> proc[p].path]}
          /\ UNCHANGED <<file, loaded>> /\ proc[p].pc = "settle" /\ proc[p].at = Enc
      BY <2>5 DEF Issue
    <3>2. v = proc[p].key /\ v \in Draws
      BY <3>1 DEF OwnFiles, LocalsOK, Writing
    <3>3. Handed' = Handed \cup {v}
      <4> DEFINE i == [draw |-> proc[p].key, path |-> proc[p].path]
      <4>1. issued' = issued \cup {i} /\ i.draw = v /\ loaded' = loaded
        BY <3>1, <3>2
      <4> HIDE DEF i, v
      <4>. QED BY <4>1 DEF Handed
    <3>4. v # Absent /\ v' = v
      BY <3>1, <3>2
    <3>5. Vault!Serve
      BY <3>3, <3>4 DEF Vault!Serve
    <3>. QED BY <3>5 DEF Vault!Next
  <2>6. ASSUME NEW p \in Procs, ReadPub(p) PROVE [Vault!Next]_(Vault!vars)
    <3>1. UNCHANGED <<file, issued>>
      BY <2>6 DEF ReadPub
    <3>2. CASE loaded' = loaded
      BY <2>1, <3>1, <3>2
    <3>3. CASE loaded' # loaded
      <4>1. PICK l : loaded' = loaded \cup {l} /\ l.profile = v /\ v \in Draws
        BY <2>6, <3>3 DEF ReadPub, Parses, Unlocks, ReadersOK
      <4>2. Handed' = Handed \cup {v}
        BY <3>1, <4>1 DEF Handed
      <4>. QED BY <3>1, <4>1, <4>2 DEF Vault!Next, Vault!Serve
    <3>. QED BY <3>2, <3>3
  <2>7. ASSUME NEW p \in Procs, Rollback(p) PROVE UNCHANGED <<issued, loaded>> /\ v' = v
    BY <2>7 DEF Rollback, Files, Pub, Enc
  <2>8. ASSUME NEW p \in Procs,
               Begin(p) \/ Export(p) \/ SystemError(p) \/ Crash(p) \/ Refuse(p) \/ Check(p)
                 \/ SeeDir(p) \/ MakeDir(p) \/ LockDir(p) \/ Draw(p) \/ Settle(p) \/ ReadKey(p) \/ ReadEnc(p)
        PROVE  UNCHANGED <<issued, loaded>> /\ v' = v
    BY <2>8 DEF Begin, BeginInit, WizardInside, BeginLoad, BeginImport, Export, SystemError, Crash,
                Refuse, Check, SeeDir, MakeDir, LockDir, Draw, Settle, ReadKey, ReadEnc
  <2>. QED
    BY <2>1, <2>2, <2>3, <2>4, <2>5, <2>6, <2>7, <2>8 DEF Next, Step
<1>. QED BY <1>1, <1>2, OwnershipInvariant, PTL DEF Spec, ImplementsVault, Vault!Spec
=============================================================================
