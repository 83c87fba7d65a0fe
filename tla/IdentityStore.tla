--------------------------- MODULE IdentityStore ---------------------------
(***************************************************************************)
(* The identity half of a Sealed state directory (src/src/storage.rs):     *)
(* `initialize` and `load_identity`, run by any number of processes that   *)
(* share the directory and nothing else.  The program takes no lock: all   *)
(* that orders two commands is the file system, so one action is one file  *)
(* system call together with the code up to the next one.                  *)
(*                                                                         *)
(* A command that fails returns an error to its user; the process is then  *)
(* idle again and everything it left in the directory stays there.  A      *)
(* crash is the same without the error handling.                           *)
(*                                                                         *)
(* The content of a file is abstracted to the random draw it was made      *)
(* from: one `initialize` draws an unlock key and two secret keys, and     *)
(* writes the unlock key file, the public profile and the encrypted        *)
(* private identity of that draw d.  Each of the three files then holds    *)
(* "the part of d that belongs in it", written d.                          *)
(***************************************************************************)
EXTENDS Naturals

CONSTANTS
  Procs,         \* running copies of the program (or the slots they use)
  UnlockPaths,   \* paths a user may give for the unlock key
  InsideState,   \* those of them that start with the state directory
  Draws,         \* what the operating system's generator may return
  Absent,        \* no such file
  Torn           \* a file whose content is a strict prefix of what it should be

Pub == "identity.pub"
Enc == "identity.key.enc"
DirNames == {"root", "identity", "contacts"}

Files     == UnlockPaths \cup {Pub, Enc}
FileState == Draws \cup {Absent, Torn}

ASSUME PathAssumption == /\ InsideState \subseteq UnlockPaths
                         /\ UnlockPaths \cap ({Pub, Enc, Absent} \cup DirNames) = {}

ASSUME SentinelAssumption == /\ Absent # Torn
                             /\ Absent \notin Draws
                             /\ Torn \notin Draws
                             /\ Absent \notin {Pub, Enc} \cup DirNames

VARIABLES
  file,     \* file[f]: what is stored under f
  dirs,     \* the directories that exist
  private,  \* those whose mode has been set to owner only
  drawn,    \* draws already returned by the generator
  proc,     \* proc[p]: program counter and local variables of process p
  issued,   \* history: identities `initialize` returned, with the unlock path
  loaded,   \* history: identities `load_identity` returned
  exported, \* history: profiles `export_profile` returned to a user
  faulted   \* history: a call to the system has failed or a process crashed

vars == <<file, dirs, private, drawn, proc, issued, loaded, exported, faulted>>

-----------------------------------------------------------------------------
(***************************************************************************)
(* Local state of a process: what it is about to do (pc), the unlock path  *)
(* it was given, the file or directory the step is about (at), the draw    *)
(* its key material comes from (key) and the encrypted identity it has     *)
(* read (box).                                                             *)
(***************************************************************************)
Writing == {"create", "write", "settle"}
Reading == {"readKey", "readEnc", "readPub"}
InDirs  == {"seeDir", "makeDir", "lockDir"}
Pcs     == {"idle", "refused", "check", "draw", "rollback"}
             \cup InDirs \cup Writing \cup Reading

Locals == [pc   : Pcs,
           path : UnlockPaths \cup {Absent},
           at   : UnlockPaths \cup {Absent, Pub, Enc} \cup DirNames,
           key  : Draws \cup {Absent},
           box  : FileState]

Idle == [pc |-> "idle", path |-> Absent, at |-> Absent, key |-> Absent, box |-> Absent]

\* The process returns to its caller, with or without an error.
Return(p) == proc' = [proc EXCEPT ![p] = Idle]

Goto(p, pc) == proc' = [proc EXCEPT ![p].pc = pc]

GotoAt(p, pc, at) == proc' = [proc EXCEPT ![p].pc = pc, ![p].at = at]

\* A slip of Fail: every failed write after the unlock key removes the profile.
FailRemovingPub(p) == IF proc[p].pc \in Writing /\ proc[p].at \in {Pub, Enc}
                        THEN Goto(p, "rollback")
                        ELSE Return(p)

\* The error path of every call made by p: the error is returned at once,
\* except that a failure to write the encrypted identity first removes the
\* public profile.
Fail(p) == IF proc[p].pc \in Writing /\ proc[p].at = Enc
             THEN Goto(p, "rollback")
             ELSE Return(p)

\* A slip of Parses: a prefix of the right content is taken for the content.
ParsesPrefix(content) == content # Absent

\* A profile or unlock key file is accepted only if it is the canonical
\* encoding, and a strict prefix never is.
Parses(content) == content \in Draws

\* The private identity decrypts only under the unlock key of its own draw,
\* and only if all of it is there.
Unlocks(key, box) == box \in Draws /\ box = key

-----------------------------------------------------------------------------
(***************************************************************************)
(* initialize                                                              *)
(***************************************************************************)

\* `sealed init` (or menu option 1) with unlock path u.  A path inside the
\* state directory is refused by `initialize` before it touches anything.
BeginInit(p, u) ==
  /\ proc[p].pc = "idle"
  /\ u \notin InsideState
  /\ proc' = [proc EXCEPT ![p].pc = "check", ![p].path = u, ![p].at = Pub]
  /\ UNCHANGED <<file, dirs, private, drawn, issued, loaded, exported, faulted>>

\* The wizard creates the directory of the unlock path it was given, with
\* default permissions, before `initialize` refuses the path; a path inside
\* the state directory brings directories of the store into being that way.
WizardInside(p, u) ==
  /\ proc[p].pc = "idle"
  /\ u \in InsideState
  /\ \E parents \in {{"root"}, {"root", "identity"}, {"root", "contacts"}} :
       /\ ~(parents \subseteq dirs)
       /\ dirs' = dirs \cup parents
  /\ Goto(p, "refused")
  /\ UNCHANGED <<file, private, drawn, issued, loaded, exported, faulted>>

Refuse(p) ==
  /\ proc[p].pc = "refused"
  /\ Return(p)
  /\ UNCHANGED <<file, dirs, private, drawn, issued, loaded, exported, faulted>>

\* The three existence checks, in the order of the code: public profile,
\* encrypted identity, unlock key.
Check(p) ==
  /\ proc[p].pc = "check"
  /\ IF file[proc[p].at] # Absent
       THEN Return(p)
       ELSE \/ proc[p].at = Pub /\ GotoAt(p, "check", Enc)
            \/ proc[p].at = Enc /\ GotoAt(p, "check", proc[p].path)
            \/ proc[p].at = proc[p].path /\ GotoAt(p, "seeDir", "root")
  /\ UNCHANGED <<file, dirs, private, drawn, issued, loaded, exported, faulted>>

(***************************************************************************)
(* create_private_directory: look, create if it is not there, and set the  *)
(* mode in both cases.  `initialize` calls it for the root, the identity   *)
(* and the contacts directory; the import of a contact, which is a process *)
(* without an unlock path, for the last of them only.                      *)
(***************************************************************************)

\* trust_profile up to its directory; ContactStore has what follows.
BeginImport(p) ==
  /\ proc[p].pc = "idle"
  /\ GotoAt(p, "seeDir", "contacts")
  /\ UNCHANGED <<file, dirs, private, drawn, issued, loaded, exported, faulted>>

\* One directory is ready: on to the next, and after the last to the keys.
DirReady(p) ==
  \/ proc[p].at = "root" /\ GotoAt(p, "seeDir", "identity")
  \/ proc[p].at = "identity" /\ GotoAt(p, "seeDir", "contacts")
  \/ proc[p].at = "contacts" /\ proc[p].path # Absent /\ GotoAt(p, "draw", proc[p].path)
  \/ proc[p].at = "contacts" /\ proc[p].path = Absent /\ Return(p)

\* A slip of SeeDir: create_dir without looking first.
SeeDirNever(p) ==
  /\ proc[p].pc = "seeDir"
  /\ Goto(p, "makeDir")
  /\ UNCHANGED <<file, dirs, private, drawn, issued, loaded, exported, faulted>>

\* A slip of SeeDir: a directory that exists is taken as it is.
SeeDirTrusting(p) ==
  /\ proc[p].pc = "seeDir"
  /\ IF proc[p].at \in dirs THEN DirReady(p) ELSE Goto(p, "makeDir")
  /\ UNCHANGED <<file, dirs, private, drawn, issued, loaded, exported, faulted>>

SeeDir(p) ==
  /\ proc[p].pc = "seeDir"
  /\ Goto(p, IF proc[p].at \in dirs THEN "lockDir" ELSE "makeDir")
  /\ UNCHANGED <<file, dirs, private, drawn, issued, loaded, exported, faulted>>

\* create_dir fails when another process made the directory after the look,
\* and when the directory it belongs in does not exist.
MakeDir(p) ==
  /\ proc[p].pc = "makeDir"
  /\ IF proc[p].at \notin dirs /\ (proc[p].at = "root" \/ "root" \in dirs)
       THEN /\ dirs' = dirs \cup {proc[p].at}
            /\ Goto(p, "lockDir")
       ELSE /\ Return(p)
            /\ UNCHANGED dirs
  /\ UNCHANGED <<file, private, drawn, issued, loaded, exported, faulted>>

\* set_private_permissions.
LockDir(p) ==
  /\ proc[p].pc = "lockDir"
  /\ private' = private \cup {proc[p].at}
  /\ DirReady(p)
  /\ UNCHANGED <<file, dirs, drawn, issued, loaded, exported, faulted>>

\* The generator returns fresh bytes every time.
Draw(p) ==
  /\ proc[p].pc = "draw"
  /\ \E d \in Draws \ drawn :
       /\ drawn' = drawn \cup {d}
       /\ proc' = [proc EXCEPT ![p].pc = "create", ![p].key = d]
  /\ UNCHANGED <<file, dirs, private, issued, loaded, exported, faulted>>

(***************************************************************************)
(* write_new_private, for the unlock key, the public profile and the       *)
(* encrypted identity in this order: open with create_new, write, then     *)
(* sync and set the mode.                                                  *)
(***************************************************************************)
\* A slip of CreateNew: open with create and truncate.
CreateOrTruncate(p) ==
  /\ proc[p].pc = "create"
  /\ file' = [file EXCEPT ![proc[p].at] = Torn]
  /\ Goto(p, "write")
  /\ UNCHANGED <<dirs, private, drawn, issued, loaded, exported, faulted>>

CreateNew(p) ==
  /\ proc[p].pc = "create"
  /\ IF file[proc[p].at] = Absent
       THEN /\ file' = [file EXCEPT ![proc[p].at] = Torn]
            /\ Goto(p, "write")
       ELSE /\ Fail(p)
            /\ UNCHANGED file
  /\ UNCHANGED <<dirs, private, drawn, issued, loaded, exported, faulted>>

WriteAll(p) ==
  /\ proc[p].pc = "write"
  /\ file' = [file EXCEPT ![proc[p].at] = proc[p].key]
  /\ Goto(p, "settle")
  /\ UNCHANGED <<dirs, private, drawn, issued, loaded, exported, faulted>>

\* The file is complete: go on with the next one.
Settle(p) ==
  /\ proc[p].pc = "settle"
  /\ \/ proc[p].at = proc[p].path /\ GotoAt(p, "create", Pub)
     \/ proc[p].at = Pub /\ GotoAt(p, "create", Enc)
  /\ UNCHANGED <<file, dirs, private, drawn, issued, loaded, exported, faulted>>

\* The last file is complete: `initialize` returns the profile to its caller.
Issue(p) ==
  /\ proc[p].pc = "settle"
  /\ proc[p].at = Enc
  /\ issued' = issued \cup {[draw |-> proc[p].key, path |-> proc[p].path]}
  /\ Return(p)
  /\ UNCHANGED <<file, dirs, private, drawn, loaded, exported, faulted>>

\* The encrypted identity could not be written: remove the public profile.
\* What was written of the encrypted identity stays.
Rollback(p) ==
  /\ proc[p].pc = "rollback"
  /\ file' = [file EXCEPT ![Pub] = Absent]
  /\ Return(p)
  /\ UNCHANGED <<dirs, private, drawn, issued, loaded, exported, faulted>>

-----------------------------------------------------------------------------
(***************************************************************************)
(* load_identity: three reads, in this order, and then the comparisons.    *)
(***************************************************************************)
BeginLoad(p, u) ==
  /\ proc[p].pc = "idle"
  /\ proc' = [proc EXCEPT ![p].pc = "readKey", ![p].path = u]
  /\ UNCHANGED <<file, dirs, private, drawn, issued, loaded, exported, faulted>>

ReadKey(p) ==
  /\ proc[p].pc = "readKey"
  /\ IF Parses(file[proc[p].path])
       THEN proc' = [proc EXCEPT ![p].pc = "readEnc", ![p].key = file[proc[p].path]]
       ELSE Return(p)
  /\ UNCHANGED <<file, dirs, private, drawn, issued, loaded, exported, faulted>>

\* Any bytes are accepted here: they are decrypted after the next read.
ReadEnc(p) ==
  /\ proc[p].pc = "readEnc"
  /\ IF file[Enc] # Absent
       THEN proc' = [proc EXCEPT ![p].pc = "readPub", ![p].box = file[Enc]]
       ELSE Return(p)
  /\ UNCHANGED <<file, dirs, private, drawn, issued, loaded, exported, faulted>>

\* A slip of ReadPub: the decrypted identity is not compared with the profile.
ReadPubUnchecked(p) ==
  /\ proc[p].pc = "readPub"
  /\ IF Parses(file[Pub]) /\ Unlocks(proc[p].key, proc[p].box)
       THEN loaded' = loaded \cup
              {[path |-> proc[p].path, secrets |-> proc[p].box, profile |-> file[Pub]]}
       ELSE UNCHANGED loaded
  /\ Return(p)
  /\ UNCHANGED <<file, dirs, private, drawn, issued, exported, faulted>>

ReadPub(p) ==
  /\ proc[p].pc = "readPub"
  /\ IF /\ Parses(file[Pub])
        /\ Unlocks(proc[p].key, proc[p].box)
        /\ proc[p].box = file[Pub]
       THEN loaded' = loaded \cup
              {[path |-> proc[p].path, secrets |-> proc[p].box, profile |-> file[Pub]]}
       ELSE UNCHANGED loaded
  /\ Return(p)
  /\ UNCHANGED <<file, dirs, private, drawn, issued, exported, faulted>>

\* export_profile for `sealed identity export`, the menu's export and show
\* entries and its status lines: one read of the public profile.
Export(p) ==
  /\ proc[p].pc = "idle"
  /\ Parses(file[Pub])
  /\ exported' = exported \cup {file[Pub]}
  /\ UNCHANGED <<file, dirs, private, drawn, proc, issued, loaded, faulted>>

-----------------------------------------------------------------------------
(***************************************************************************)
(* The environment.                                                        *)
(***************************************************************************)

\* The call p is about to make returns an error: no permission, a full disk,
\* a missing parent directory, no randomness.  A failing `write` leaves the
\* file torn, a failing sync or chmod leaves it complete; the result of the
\* removal in Rollback is ignored by the code.
SystemError(p) ==
  /\ proc[p].pc # "idle"
  /\ Fail(p)
  /\ faulted' = TRUE
  /\ UNCHANGED <<file, dirs, private, drawn, issued, loaded, exported>>

\* The process is killed; what is in the directory stays.
Crash(p) ==
  /\ proc[p].pc # "idle"
  /\ Return(p)
  /\ faulted' = TRUE
  /\ UNCHANGED <<file, dirs, private, drawn, issued, loaded, exported>>

-----------------------------------------------------------------------------
Init ==
  /\ file = [f \in Files |-> Absent]
  /\ dirs \in {{}, {"root"}}          \* SEALED_HOME may name an existing directory,
  /\ private \in SUBSET dirs          \* with any mode
  /\ drawn = {}
  /\ proc = [p \in Procs |-> Idle]
  /\ issued = {}
  /\ loaded = {}
  /\ exported = {}
  /\ faulted = FALSE

Begin(p) ==
  \/ \E u \in UnlockPaths : BeginInit(p, u) \/ WizardInside(p, u) \/ BeginLoad(p, u)
  \/ BeginImport(p)

\* What the program does by itself once a command has started.
Step(p) ==
  \/ Refuse(p) \/ Check(p) \/ SeeDir(p) \/ MakeDir(p) \/ LockDir(p) \/ Draw(p)
  \/ CreateNew(p) \/ WriteAll(p) \/ Settle(p) \/ Issue(p) \/ Rollback(p)
  \/ ReadKey(p) \/ ReadEnc(p) \/ ReadPub(p)

Next == \E p \in Procs :
  Begin(p) \/ Step(p) \/ Export(p) \/ SystemError(p) \/ Crash(p)

Spec == Init /\ [][Next]_vars

\* A started command keeps being scheduled; nobody has to start one, and
\* nothing makes a call fail or a process crash.
FairSpec == Spec /\ \A p \in Procs : WF_vars(Step(p))

-----------------------------------------------------------------------------
(***************************************************************************)
(* Properties.                                                             *)
(***************************************************************************)

\* Every variable has its type: the fields of the local records of the
\* processes and the content abstracted from each file.
TypeOK ==
  /\ file \in [Files -> FileState]
  /\ dirs \subseteq DirNames
  /\ private \subseteq DirNames
  /\ drawn \subseteq Draws
  /\ proc \in [Procs -> Locals]
  /\ issued \subseteq [draw : Draws, path : UnlockPaths]
  /\ loaded \subseteq [path : UnlockPaths, secrets : Draws, profile : Draws]
  /\ exported \subseteq Draws
  /\ faulted \in BOOLEAN

\* Once `initialize` has told its user that an identity exists, the three
\* files of that identity are complete and belong together, so the unlock
\* key the user was given opens it; no other `initialize`, failing or
\* crashing at any point, takes that back (storage.rs:75-81).
IssuedLoadable ==
  \A i \in issued : file[Pub] = i.draw /\ file[Enc] = i.draw /\ file[i.path] = i.draw

\* The identities callers have been handed.
Handed == {i.draw : i \in issued} \cup {l.profile : l \in loaded}

\* Every identity ever handed out by `initialize` or `load_identity`, to any
\* process, is the same one, and the secrets match the profile they come with.
OneIdentity == \A d, e \in Handed \cup {l.secrets : l \in loaded} : d = e

\* While no call to the system has failed, a profile that was exported stays
\* the directory's profile: an export that runs beside an unfinished
\* `initialize` does not give away a profile that is then taken back.
ExportedHolds == ~faulted => \A e \in exported : file[Pub] = e

\* A complete file is never changed or removed by anyone, except that an
\* `initialize` that has not succeeded may remove its own public profile,
\* while no identity has been issued (storage.rs:78 and create_new at 183).
CompleteFilesKept ==
  [][\A f \in Files :
       file[f] \in Draws =>
         \/ file'[f] = file[f]
         \/ /\ f = Pub /\ file'[f] = Absent /\ issued = {}
            /\ \E p \in Procs : proc[p].pc = "rollback" /\ proc[p].key = file[f]]_vars

\* Key material never lies in a directory that others may enter: when the
\* first file is created, all directories of the store have been made owner
\* only, also those a wizard, an import or a command that died has left there
\* with default permissions (storage.rs:233-240).
DirsPrivate ==
  (\E f \in Files : file[f] # Absent) => DirNames \subseteq private

\* p initializes, and has not already lost the directory it is about to make.
Initializing(p) ==
  /\ proc[p].pc \in InDirs \cup {"draw"} \cup Writing
  /\ proc[p].path # Absent
  /\ proc[p].pc = "makeDir" => proc[p].at \notin dirs

\* Another command that makes directories of the store is under way.
Bystander(p) == proc[p].pc = "refused" \/ (proc[p].pc \in InDirs /\ proc[p].path = Absent)

\* Commands racing to initialize the same directory cannot all lose: unless
\* a call fails or a process crashes, an identity is issued in the end.  They
\* may lose to an import or a refused wizard that makes a directory between
\* the look and create_dir, but no longer once all directories exist.
SomeInitSucceeds ==
  /\ (\E p \in Procs : Initializing(p))
       ~> (issued # {} \/ faulted \/ \E q \in Procs : Bystander(q))
  /\ (\E p \in Procs : Initializing(p)) /\ DirNames \subseteq dirs
       ~> (issued # {} \/ faulted)

\* The two files of the identity promise what the abstract vault promises:
\* the encrypted private identity is what establishes it.
Vault == INSTANCE IdentityVault WITH
  Ids    <- Draws,
  NoId   <- Absent,
  vault  <- IF file[Enc] \in Draws THEN file[Enc] ELSE Absent,
  served <- Handed

ImplementsVault == Vault!Spec

-----------------------------------------------------------------------------
(***************************************************************************)
(* What the program tells its user about the state of the directory, stated *)
(* for the moments when no command is running.                             *)
(***************************************************************************)
Quiet == \A p \in Procs : proc[p].pc = "idle"

\* load_identity, run alone with unlock path u, would succeed.
Loadable(u) ==
  /\ Parses(file[u])
  /\ Parses(file[Pub])
  /\ Unlocks(file[u], file[Enc])
  /\ file[Enc] = file[Pub]

\* "Identity ready" (cli.rs:103), printed whenever the public profile can be
\* read: some unlock key then opens the identity.  "No identity yet - start
\* with option 1" (cli.rs:106), printed whenever it cannot: option 1 is then
\* not turned away because an identity exists.
SummaryTells ==
  Quiet => IF Parses(file[Pub]) THEN \E u \in UnlockPaths : Loadable(u)
                                ELSE file[Pub] = Absent /\ file[Enc] = Absent
=============================================================================
